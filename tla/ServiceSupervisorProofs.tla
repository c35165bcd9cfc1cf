----------------------- MODULE ServiceSupervisorProofs -----------------------
(***************************************************************************)
(* Theorems of ServiceSupervisor, for any number of calls of start and of  *)
(* stop and any restart limit.  Both invariants are inductive given the    *)
(* types: what keeps them is that publishing a sender drops the one before *)
(* it in the same step, and that a watcher gives up its child before it    *)
(* does anything else.                                                     *)
(***************************************************************************)
EXTENDS ServiceSupervisor, TLAPS

\* Nothing runs at the start.
LEMMA SupervisorInitOK == Init => TypeOK /\ OneKept /\ ChildrenWatched
<1>1. Init => TypeOK
  <2>. SUFFICES ASSUME Init PROVE TypeOK
    OBVIOUS
  <2>1. running \in BOOLEAN /\ shutdown \in BOOLEAN
    BY DEF Init
  <2>2. at \in [Starts -> Places]
    BY DEF Init, Places
  <2>3. child \in [Starts -> BOOLEAN] /\ signalled \in [Starts -> BOOLEAN]
    BY DEF Init
  <2>4. restart_count \in Nat /\ stop_tx \in Starts \cup {NoChain} /\ calls \subseteq Starts
    BY DEF Init
  <2>5. stopping \in [Stops -> {"idle", "send", "wait", "done"}] /\ stopped \in [Stops -> {"no", "asked", "yes"}]
    BY DEF Init
  <2>. QED  BY <2>1, <2>2, <2>3, <2>4, <2>5 DEF TypeOK
<1>2. Init => OneKept
  BY DEF Init, OneKept
<1>3. Init => ChildrenWatched
  BY DEF Init, ChildrenWatched
<1>. QED  BY <1>1, <1>2, <1>3

\* Every step keeps the supervisor's type.
LEMMA SupervisorTypeStep == ASSUME TypeOK, [Next]_vars PROVE TypeOK'
<1>1. ASSUME NEW c \in Starts, Chain(c) PROVE TypeOK'
  <2>1. CASE UserStart(c)
    BY <2>1 DEF UserStart, Go, TypeOK, Places
  <2>2. CASE CheckRunning(c)
    BY <2>2 DEF CheckRunning, Go, TypeOK, Places
  <2>3. CASE ClearShutdown(c)
    BY <2>3 DEF ClearShutdown, Go, TypeOK, Places
  <2>4. CASE Spawn(c)
    BY <2>4 DEF Spawn, Go, TypeOK, Places
  <2>5. CASE SpawnFails(c)
    BY <2>5 DEF SpawnFails, Go, TypeOK, Places
  <2>6. CASE PublishStopTx(c)
    BY <2>6 DEF PublishStopTx, Go, TypeOK, Places
  <2>7. CASE ChildExits(c)
    BY <2>7 DEF ChildExits, Go, TypeOK, Places
  <2>8. CASE WatcherWakes(c)
    BY <2>8 DEF WatcherWakes, Go, TypeOK, Places
  <2>9. CASE StoreNotRunning(c)
    BY <2>9 DEF StoreNotRunning, Go, TypeOK, Places
  <2>10. CASE Decide(c)
    BY <2>10 DEF Decide, Go, TypeOK, Places
  <2>11. CASE Restart(c)
    BY <2>11 DEF Restart, Go, TypeOK, Places
  <2>. QED  BY <1>1, <2>1, <2>2, <2>3, <2>4, <2>5, <2>6, <2>7, <2>8, <2>9, <2>10, <2>11 DEF Chain
<1>2. ASSUME NEW s \in Stops, Stop(s) PROVE TypeOK'
  <2>1. CASE StopBegins(s)
    BY <2>1 DEF StopBegins, GoStop, TypeOK, Places
  <2>2. CASE StopSends(s)
    BY <2>2 DEF StopSends, GoStop, TypeOK, Places
  <2>3. CASE StopReturns(s)
    BY <2>3 DEF StopReturns, GoStop, TypeOK, Places
  <2>. QED  BY <1>2, <2>1, <2>2, <2>3 DEF Stop
<1>3. CASE UNCHANGED vars
  BY <1>3 DEF vars, TypeOK, Places
<1>. QED  BY <1>1, <1>2, <1>3 DEF Next

\* No step makes a second watcher keep its child.
LEMMA OneKeptStep == ASSUME TypeOK, OneKept, [Next]_vars PROVE OneKept'
<1>1. ASSUME NEW c \in Starts, Chain(c) PROVE OneKept'
  <2>1. CASE UserStart(c)
    BY <2>1 DEF UserStart, Go, TypeOK, Places, OneKept
  <2>2. CASE CheckRunning(c)
    BY <2>2 DEF CheckRunning, Go, TypeOK, Places, OneKept
  <2>3. CASE ClearShutdown(c)
    BY <2>3 DEF ClearShutdown, Go, TypeOK, Places, OneKept
  <2>4. CASE Spawn(c)
    BY <2>4 DEF Spawn, Go, TypeOK, Places, OneKept
  <2>5. CASE SpawnFails(c)
    BY <2>5 DEF SpawnFails, Go, TypeOK, Places, OneKept
  <2>6. CASE PublishStopTx(c)
    BY <2>6 DEF PublishStopTx, Go, TypeOK, Places, OneKept
  <2>7. CASE ChildExits(c)
    BY <2>7 DEF ChildExits, Go, TypeOK, Places, OneKept
  <2>8. CASE WatcherWakes(c)
    BY <2>8 DEF WatcherWakes, Go, TypeOK, Places, OneKept
  <2>9. CASE StoreNotRunning(c)
    BY <2>9 DEF StoreNotRunning, Go, TypeOK, Places, OneKept
  <2>10. CASE Decide(c)
    BY <2>10 DEF Decide, Go, TypeOK, Places, OneKept
  <2>11. CASE Restart(c)
    BY <2>11 DEF Restart, Go, TypeOK, Places, OneKept
  <2>. QED  BY <1>1, <2>1, <2>2, <2>3, <2>4, <2>5, <2>6, <2>7, <2>8, <2>9, <2>10, <2>11 DEF Chain
<1>2. ASSUME NEW s \in Stops, Stop(s) PROVE OneKept'
  <2>1. CASE StopBegins(s)
    BY <2>1 DEF StopBegins, GoStop, TypeOK, Places, OneKept
  <2>2. CASE StopSends(s)
    BY <2>2 DEF StopSends, GoStop, TypeOK, Places, OneKept
  <2>3. CASE StopReturns(s)
    BY <2>3 DEF StopReturns, GoStop, TypeOK, Places, OneKept
  <2>. QED  BY <1>2, <2>1, <2>2, <2>3 DEF Stop
<1>3. CASE UNCHANGED vars
  BY <1>3 DEF vars, TypeOK, Places, OneKept
<1>. QED  BY <1>1, <1>2, <1>3 DEF Next

\* No step leaves a child without its watcher.
LEMMA ChildrenWatchedStep == ASSUME TypeOK, ChildrenWatched, [Next]_vars PROVE ChildrenWatched'
<1>1. ASSUME NEW c \in Starts, Chain(c) PROVE ChildrenWatched'
  <2>1. CASE UserStart(c)
    BY <2>1 DEF UserStart, Go, TypeOK, Places, ChildrenWatched
  <2>2. CASE CheckRunning(c)
    BY <2>2 DEF CheckRunning, Go, TypeOK, Places, ChildrenWatched
  <2>3. CASE ClearShutdown(c)
    BY <2>3 DEF ClearShutdown, Go, TypeOK, Places, ChildrenWatched
  <2>4. CASE Spawn(c)
    BY <2>4 DEF Spawn, Go, TypeOK, Places, ChildrenWatched
  <2>5. CASE SpawnFails(c)
    BY <2>5 DEF SpawnFails, Go, TypeOK, Places, ChildrenWatched
  <2>6. CASE PublishStopTx(c)
    BY <2>6 DEF PublishStopTx, Go, TypeOK, Places, ChildrenWatched
  <2>7. CASE ChildExits(c)
    BY <2>7 DEF ChildExits, Go, TypeOK, Places, ChildrenWatched
  <2>8. CASE WatcherWakes(c)
    BY <2>8 DEF WatcherWakes, Go, TypeOK, Places, ChildrenWatched
  <2>9. CASE StoreNotRunning(c)
    BY <2>9 DEF StoreNotRunning, Go, TypeOK, Places, ChildrenWatched
  <2>10. CASE Decide(c)
    BY <2>10 DEF Decide, Go, TypeOK, Places, ChildrenWatched
  <2>11. CASE Restart(c)
    BY <2>11 DEF Restart, Go, TypeOK, Places, ChildrenWatched
  <2>. QED  BY <1>1, <2>1, <2>2, <2>3, <2>4, <2>5, <2>6, <2>7, <2>8, <2>9, <2>10, <2>11 DEF Chain
<1>2. ASSUME NEW s \in Stops, Stop(s) PROVE ChildrenWatched'
  <2>1. CASE StopBegins(s)
    BY <2>1 DEF StopBegins, GoStop, TypeOK, Places, ChildrenWatched
  <2>2. CASE StopSends(s)
    BY <2>2 DEF StopSends, GoStop, TypeOK, Places, ChildrenWatched
  <2>3. CASE StopReturns(s)
    BY <2>3 DEF StopReturns, GoStop, TypeOK, Places, ChildrenWatched
  <2>. QED  BY <1>2, <2>1, <2>2, <2>3 DEF Stop
<1>3. CASE UNCHANGED vars
  BY <1>3 DEF vars, TypeOK, Places, ChildrenWatched
<1>. QED  BY <1>1, <1>2, <1>3 DEF Next

\* The state of the supervisor keeps its types (ServiceHandle).
THEOREM SupervisorTypeCorrect == Spec => []TypeOK
<1>1. Init => TypeOK
  BY SupervisorInitOK
<1>. QED  BY <1>1, SupervisorTypeStep, PTL DEF Spec

\* start, stop and spawn_watcher: however many calls of start, restarts and
\* stops overlap, at most one watcher keeps its child, and its sender is the one
\* the next stop takes.
THEOREM SupervisorKeepsOne == Spec => []OneKept
<1>1. Init => TypeOK /\ OneKept
  BY SupervisorInitOK
<1>2. TypeOK /\ OneKept /\ [Next]_vars => (TypeOK /\ OneKept)'
  BY SupervisorTypeStep, OneKeptStep
<1>. QED  BY <1>1, <1>2, PTL DEF Spec

\* spawn_watcher: no child is alive that no watcher will reap.
THEOREM SupervisorWatchesChildren == Spec => []ChildrenWatched
<1>1. Init => TypeOK /\ ChildrenWatched
  BY SupervisorInitOK
<1>2. TypeOK /\ ChildrenWatched /\ [Next]_vars => (TypeOK /\ ChildrenWatched)'
  BY SupervisorTypeStep, ChildrenWatchedStep
<1>. QED  BY <1>1, <1>2, PTL DEF Spec
=============================================================================
