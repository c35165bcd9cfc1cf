-------------------------- MODULE ServiceSupervisor --------------------------
(***************************************************************************)
(* The desktop application's supervisor of its sidecar, `enigma mcp serve` *)
(* (apps/desktop-tauri/src/commands/service.rs).  Commands of the user     *)
(* interface and watcher tasks run on the threads of one runtime and share *)
(* atomics and the sender of a stop channel.                               *)
(*                                                                         *)
(* A call of start that passes its check spawns a child and a watcher that *)
(* owns the child; when the child has ended, that watcher may, after a     *)
(* delay, run start itself, which spawns the next child and watcher.  So   *)
(* every call of start begins one chain that is at one place at a time.    *)
(* Accesses of one thread that no other thread can tell apart are one      *)
(* step.  A oneshot channel tells its receiver when the sender has sent or *)
(* was dropped; both look the same to the watcher.                         *)
(*                                                                         *)
(* Log lines, the pid and the start time are left out: they are stored     *)
(* together with running.                                                  *)
(***************************************************************************)
EXTENDS Integers, FiniteSets

CONSTANTS Starts,       \* the calls of start that the user makes
          max_restarts, \* as configured
          Stops         \* the calls of stop, which may overlap

VARIABLES running,       \* what status reports
          shutdown,
          restart_count,
          stop_tx,       \* the chain whose sender is stored, or NoChain
          at,            \* where each chain is
          child,         \* whether each chain's child is alive
          signalled,     \* whether each chain's receiver has been told
          stopping,      \* where each call of stop is
          calls,         \* the user's calls of start that have not returned
          stopped        \* per call of stop, "yes": it returned with the service
                         \* down, and no call of start overlapped or followed it

vars == <<running, shutdown, restart_count, stop_tx, at, child, signalled, stopping, calls, stopped>>

NoChain == "none"

Places == {"idle", "check", "clear", "spawn", "publish", "watch", "ended", "decide", "delay", "done"}

TypeOK == /\ running \in BOOLEAN
          /\ shutdown \in BOOLEAN
          /\ restart_count \in Nat
          /\ stop_tx \in Starts \cup {NoChain}
          /\ at \in [Starts -> Places]
          /\ child \in [Starts -> BOOLEAN]
          /\ signalled \in [Starts -> BOOLEAN]
          /\ stopping \in [Stops -> {"idle", "send", "wait", "done"}]
          /\ calls \subseteq Starts
          /\ stopped \in [Stops -> {"no", "asked", "yes"}]

Init == /\ running = FALSE
        /\ shutdown = FALSE
        /\ restart_count = 0
        /\ stop_tx = NoChain
        /\ at = [c \in Starts |-> "idle"]
        /\ child = [c \in Starts |-> FALSE]
        /\ signalled = [c \in Starts |-> FALSE]
        /\ stopping = [s \in Stops |-> "idle"]
        /\ calls = {}
        /\ stopped = [s \in Stops |-> "no"]

Go(c, from, to) == at[c] = from /\ at' = [at EXCEPT ![c] = to]

-----------------------------------------------------------------------------
(* start, called by the user (start_service) or by a watcher.              *)

UserStart(c) == /\ Go(c, "idle", "check")
                /\ calls' = calls \cup {c}
                /\ stopped' = [s \in Stops |-> "no"]
                /\ UNCHANGED <<running, shutdown, restart_count, stop_tx, child, signalled, stopping>>

CheckRunning(c) ==
    /\ \/ running /\ Go(c, "check", "done") /\ calls' = calls \ {c}
       \/ ~running /\ Go(c, "check", "clear") /\ UNCHANGED calls
    /\ UNCHANGED <<running, shutdown, restart_count, stop_tx, child, signalled, stopping, stopped>>

ClearShutdown(c) == /\ Go(c, "clear", "spawn")
                    /\ shutdown' = FALSE
                    /\ UNCHANGED <<running, restart_count, stop_tx, child, signalled, stopping, calls, stopped>>

Spawn(c) == /\ Go(c, "spawn", "publish")
            /\ child' = [child EXCEPT ![c] = TRUE]
            /\ running' = TRUE
            /\ UNCHANGED <<shutdown, restart_count, stop_tx, signalled, stopping, calls, stopped>>

SpawnFails(c) == /\ Go(c, "spawn", "done")
                 /\ calls' = calls \ {c}
                 /\ UNCHANGED <<running, shutdown, restart_count, stop_tx, child, signalled, stopping, stopped>>

\* The new sender takes the place of the old one, which is dropped.
PublishStopTx(c) ==
    /\ Go(c, "publish", "watch")
    /\ stop_tx' = c
    /\ signalled' = [d \in Starts |-> IF d = c THEN FALSE ELSE signalled[d] \/ d = stop_tx]
    /\ calls' = calls \ {c}
    /\ UNCHANGED <<running, shutdown, restart_count, child, stopping, stopped>>

-----------------------------------------------------------------------------
(* The child and its watcher.                                              *)

ChildExits(c) == /\ child[c]
                 /\ child' = [child EXCEPT ![c] = FALSE]
                 /\ UNCHANGED <<running, shutdown, restart_count, stop_tx, at, signalled, stopping, calls, stopped>>

\* The select: told to end, the watcher drops its child, which kills it.
WatcherWakes(c) == /\ Go(c, "watch", "ended")
                   /\ signalled[c] \/ ~child[c]
                   /\ child' = [child EXCEPT ![c] = FALSE]
                   /\ UNCHANGED <<running, shutdown, restart_count, stop_tx, signalled, stopping, calls, stopped>>

StoreNotRunning(c) == /\ Go(c, "ended", "decide")
                      /\ running' = FALSE
                      /\ UNCHANGED <<shutdown, restart_count, stop_tx, child, signalled, stopping, calls, stopped>>

Decide(c) == /\ Go(c, "decide", IF shutdown \/ restart_count >= max_restarts THEN "done" ELSE "delay")
             /\ UNCHANGED <<running, shutdown, restart_count, stop_tx, child, signalled, stopping, calls, stopped>>

Restart(c) == /\ Go(c, "delay", "check")
              /\ restart_count' = restart_count + 1
              /\ UNCHANGED <<running, shutdown, stop_tx, child, signalled, stopping, calls, stopped>>

-----------------------------------------------------------------------------
(* stop (stop_service, shutdown_service, and the window being closed).     *)

GoStop(s, from, to) == stopping[s] = from /\ stopping' = [stopping EXCEPT ![s] = to]

StopBegins(s) == /\ GoStop(s, "idle", "send")
                 /\ shutdown' = TRUE
                 /\ stopped' = [stopped EXCEPT ![s] = IF calls = {} THEN "asked" ELSE "no"]
                 /\ UNCHANGED <<running, restart_count, stop_tx, at, child, signalled, calls>>

StopSends(s) == /\ GoStop(s, "send", "wait")
                /\ signalled' = [d \in Starts |-> signalled[d] \/ d = stop_tx]
                /\ stop_tx' = NoChain
                /\ UNCHANGED <<running, shutdown, restart_count, at, child, calls, stopped>>

\* The service is down, or fifty polls have passed.
StopReturns(s) ==
    /\ GoStop(s, "wait", "done")
    /\ stopped' = [stopped EXCEPT ![s] = IF stopped[s] = "asked" /\ ~running THEN "yes" ELSE "no"]
    /\ UNCHANGED <<running, shutdown, restart_count, stop_tx, at, child, signalled, calls>>

Stop(s) == StopBegins(s) \/ StopSends(s) \/ StopReturns(s)

Chain(c) == \/ UserStart(c)
            \/ CheckRunning(c)
            \/ ClearShutdown(c)
            \/ Spawn(c)
            \/ SpawnFails(c)
            \/ PublishStopTx(c)
            \/ ChildExits(c)
            \/ WatcherWakes(c)
            \/ StoreNotRunning(c)
            \/ Decide(c)
            \/ Restart(c)

Next == (\E c \in Starts : Chain(c)) \/ (\E s \in Stops : Stop(s))

Spec == Init /\ [][Next]_vars

-----------------------------------------------------------------------------
(* Properties.                                                             *)

\* Whatever calls of start, restarts and stops overlap, a watcher that has not
\* been told to end is the one whose sender is stored: at most one child is
\* kept, and the next stop reaches it (PublishStopTx drops the older sender).
OneKept == \A c \in Starts : at[c] = "watch" /\ ~signalled[c] => stop_tx = c

\* No child outlives its watcher.
ChildrenWatched == \A c \in Starts : child[c] => at[c] \in {"publish", "watch"}

\* "Request a clean shutdown of the sidecar": once a call of stop has returned
\* with the service down, every sidecar has ended or been told to, until the
\* user starts one again.
StopHolds == (\E s \in Stops : stopped[s] = "yes") =>
                 \A c \in Starts : child[c] => at[c] = "watch" /\ signalled[c]
=============================================================================
