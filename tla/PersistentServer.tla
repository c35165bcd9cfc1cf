-------------------------- MODULE PersistentServer --------------------------
(***************************************************************************)
(* `enigma relay serve` and `enigma gateway serve` with --state-file: one  *)
(* persistent HTTP server (apps/cli/bin/enigma.mjs) around the handlers of *)
(* RelayService or of GatewayService.                                      *)
(*                                                                         *)
(* A handler awaits only the body of its request; after that it checks,    *)
(* changes the state in memory and answers without another await: one      *)
(* action.  The save it asks for comes afterwards: saves run one after the *)
(* other on a promise chain, and each takes its snapshot when its turn     *)
(* comes.  A save of the relay writes a temporary file and renames it; a   *)
(* save of the gateway truncates and writes the file itself, in one call.  *)
(* A save that fails closes the server, and requests accepted before go    *)
(* on.  The process may be killed at any point and started again.          *)
(*                                                                         *)
(* Requests that are refused and requests that only read change nothing    *)
(* and need no action.                                                     *)
(***************************************************************************)
EXTENDS RelayService, GatewayService, FiniteSets

CONSTANTS Services,   \* the services to run: subset of {"relay", "gateway"}
          MaxId,      \* bound: checkpoints and challenges ever made
          MaxEpoch,   \* bound: epochs a client supplies
          MaxPending, \* bound: saves waiting when a request is handled
          MaxEvents,  \* bound: SIEM events
          MaxKills    \* bound: processes killed in one behaviour

ASSUME ServicesAssumption == /\ Services \subseteq {"relay", "gateway"}
                             /\ MaxId \in Nat
                             /\ MaxEpoch \in Nat
                             /\ MaxPending \in Nat
                             /\ MaxEvents \in Nat
                             /\ MaxKills \in Nat

VARIABLES service,  \* which service this process runs
          process,  \* "down", "starting", "up", or "closing" after a failed save
          memory,   \* the service's state in memory, or NoState
          pending,  \* saves that wait on the promise chain
          saving,   \* the snapshot the running save writes, or NoState
          file,     \* the state file: a snapshot, NoState or Torn
          nextId,   \* the next hash or challenge id
          answered, \* the checkpoints that clients have been answered
          spent,    \* the challenges that clients have completed
          kills     \* processes killed so far

vars == <<service, process, memory, pending, saving, file, nextId, answered, spent, kills>>

\* No state in memory or on disk; a file that was truncated and not written.
NoState == [schema |-> "none"]
Torn == [schema |-> "torn"]

Snapshot == IF service = "relay" THEN RelayState ELSE GatewayState

TypeOK == /\ service \in Services
          /\ process \in {"down", "starting", "up", "closing"}
          /\ IF process = "down" THEN memory = NoState ELSE memory \in Snapshot
          /\ pending \in Nat
          /\ saving \in Snapshot \cup {NoState}
          /\ file \in Snapshot \cup {NoState, Torn}
          /\ nextId \in Nat \ {EmptyRoot}
          /\ answered \subseteq Checkpoint
          /\ spent \subseteq Nat
          /\ kills \in Nat

Init == /\ service \in Services
        /\ process = "down"
        /\ memory = NoState
        /\ pending = 0
        /\ saving = NoState
        /\ file = NoState \/ (service = "relay" /\ file = createDemoRelayState)
        /\ nextId = 1
        /\ answered = {}
        /\ spent = {}
        /\ kills = 0

-----------------------------------------------------------------------------
(* The server.                                                             *)

createState == IF service = "relay" THEN createRelayState ELSE createGatewayState

\* The state as a save writes it.
written(s) == IF service = "relay" THEN serializeRelayState(s) ELSE s

\* A file that the service's loader accepts.
loadsStateFromFile(f) == f \notin {NoState, Torn} /\ (service = "relay" => hydrateRelayState(f))

\* A state file is loaded, or the start fails; without one a state is made.
\* Either way it is saved before the server listens.
loadOrResetState ==
    /\ process = "down"
    /\ memory' = IF loadsStateFromFile(file) THEN file ELSE createState
    /\ process' = "starting"
    /\ pending' = 1
    /\ UNCHANGED <<service, saving, file, nextId, answered, spent, kills>>

createStateAlways ==
    /\ process = "down" /\ file # Torn
    /\ memory' = createState
    /\ process' = "starting"
    /\ pending' = 1
    /\ UNCHANGED <<service, saving, file, nextId, answered, spent, kills>>

loadOrCreateState ==
    /\ process = "down"
    /\ \/ file = NoState /\ memory' = createState
       \/ loadsStateFromFile(file) /\ memory' = file
    /\ process' = "starting"
    /\ pending' = 1
    /\ UNCHANGED <<service, saving, file, nextId, answered, spent, kills>>

\* A request that changed the state in memory and was answered queues a save.
saveStateUnlessBusy == pending' = (IF saving = NoState THEN pending + 1 ELSE pending)
saveState == pending' = pending + 1

TurnOfOnlySave == pending = 1 /\ saving = NoState
Turn == pending > 0 /\ saving = NoState

\* The first save of a process ends its start.
SaveDone == process' = IF process = "starting" THEN "up" ELSE process

SaveFailedKeepsState == process' = (IF process = "starting" THEN "down" ELSE "closing") /\ UNCHANGED memory
SaveFailed == IF process = "starting" THEN process' = "down" /\ memory' = NoState
                                      ELSE process' = "closing" /\ UNCHANGED memory

\* saveRelayStateToFile takes its snapshot and writes the temporary file.
writeTemp == /\ service = "relay" /\ Turn
             /\ saving' = written(memory)
             /\ pending' = pending - 1
             /\ UNCHANGED <<service, process, memory, file, nextId, answered, spent, kills>>

\* One of the attempts to rename succeeds.
renameRelayStateAtomically ==
    /\ saving # NoState
    /\ file' = saving
    /\ saving' = NoState
    /\ SaveDone
    /\ UNCHANGED <<service, memory, pending, nextId, answered, spent, kills>>

\* The write fails, or all attempts to rename; the temporary file is removed.
relaySaveFails == /\ saving # NoState
                  /\ saving' = NoState
                  /\ SaveFailed
                  /\ UNCHANGED <<service, pending, file, nextId, answered, spent, kills>>

saveGatewayStateToFile == /\ service = "gateway" /\ Turn
                          /\ pending' = pending - 1
                          /\ file' = written(memory)
                          /\ SaveDone
                          /\ UNCHANGED <<service, memory, saving, nextId, answered, spent, kills>>

\* The file cannot be opened, or it is truncated and cannot be written.
gatewaySaveFails == /\ service = "gateway" /\ Turn
                    /\ pending' = pending - 1
                    /\ file' \in {file, Torn}
                    /\ SaveFailed
                    /\ UNCHANGED <<service, saving, nextId, answered, spent, kills>>

Ends == process' = "down" /\ memory' = NoState /\ pending' = 0 /\ saving' = NoState

\* A closed server ends once its requests have ended and no save is left.
serverClose == /\ process = "closing" /\ pending = 0 /\ saving = NoState
               /\ Ends
               /\ UNCHANGED <<service, file, nextId, answered, spent, kills>>

\* The process is killed, perhaps while it writes the gateway's file.
Kill == /\ process # "down" /\ kills < MaxKills
        /\ kills' = kills + 1
        /\ \/ UNCHANGED file
           \/ service = "gateway" /\ pending > 0 /\ file' = Torn
        /\ Ends
        /\ UNCHANGED <<service, nextId, answered, spent>>

-----------------------------------------------------------------------------
(* The requests.                                                           *)

Serves(s) == service = s /\ process \in {"up", "closing"} /\ pending < MaxPending

PairingChallenge(k) ==
    /\ Serves("relay") /\ nextId =< MaxId
    /\ memory' = createPairingChallenge(memory, nextId, k)
    /\ nextId' = nextId + 1
    /\ saveState
    /\ UNCHANGED <<service, process, saving, file, answered, spent, kills>>

ChallengeExpires ==
    /\ service = "relay" /\ process # "down"
    /\ \E c \in memory.challenges : ~c.expired /\ memory' = expireChallenge(memory, c)
    /\ UNCHANGED <<service, process, pending, saving, file, nextId, answered, spent, kills>>

PairingComplete ==
    /\ Serves("relay")
    /\ \E c \in memory.challenges : /\ ~c.expired
                                    /\ memory' = completePairing(memory, c)
                                    /\ spent' = spent \cup {c.id}
    /\ saveState
    /\ UNCHANGED <<service, process, saving, file, nextId, answered, kills>>

\* The pairing that the request names exists; its signature is made with the
\* key of that pairing.  The local demo asks for neither.
requireRelayAuthorization == memory.allowUnauthenticated \/ memory.pairings # {}

RelayPush(r, h) ==
    /\ Serves("relay") /\ requireRelayAuthorization
    /\ memory' = pushRelayRecord(memory, r, h)
    /\ saveState
    /\ UNCHANGED <<service, process, saving, file, nextId, answered, spent, kills>>

\* The epoch is the client's or the next one.  A previous hash that the client
\* supplies has to be the last one's, so an accepted one makes no difference.
WitnessCheckpoint ==
    /\ Serves("relay") /\ requireRelayAuthorization /\ nextId =< MaxId
    /\ \E epoch \in 0..MaxEpoch \cup {nextEpoch(memory.witnessLog)} :
          LET c == createWitnessCheckpoint(memory.witnessLog, nextId, epoch)
          IN /\ acceptsEpoch(memory.witnessLog, epoch)
             /\ memory' = [memory EXCEPT !.witnessLog = Append(@, c)]
             /\ answered' = answered \cup {c}
    /\ nextId' = nextId + 1
    /\ saveState
    /\ UNCHANGED <<service, process, saving, file, spent, kills>>

PutPolicy(p) ==
    /\ Serves("gateway")
    /\ memory' = putPolicy(memory, p)
    /\ saveState
    /\ UNCHANGED <<service, process, saving, file, nextId, answered, spent, kills>>

\* /gateway/evaluate and /gateway/decision.
GatewayEvent(of) ==
    /\ Serves("gateway") /\ Len(memory.siem_events) < MaxEvents
    /\ memory' = appendSiemEvent(memory, of)
    /\ saveState
    /\ UNCHANGED <<service, process, saving, file, nextId, answered, spent, kills>>

Save == writeTemp \/ renameRelayStateAtomically \/ saveGatewayStateToFile

SaveFails == relaySaveFails \/ gatewaySaveFails

Request == \/ \E k \in Keys : PairingChallenge(k)
           \/ ChallengeExpires
           \/ PairingComplete
           \/ \E r \in RecordIds, h \in Payloads : RelayPush(r, h)
           \/ WitnessCheckpoint
           \/ \E p \in Policies : PutPolicy(p)
           \/ \E of \in {"evaluation", "decision"} : GatewayEvent(of)

Next == loadOrCreateState \/ Save \/ SaveFails \/ serverClose \/ Kill \/ Request

\* The event loop of a live process gets to every save on the chain.
Spec == Init /\ [][Next]_vars /\ WF_vars(Save)

-----------------------------------------------------------------------------
(* Properties.                                                             *)

\* The checkpoints and the SIEM events in a state: what only grows.
trail(s) == IF service = "relay" THEN s.witnessLog ELSE s.siem_events

OnDisk(f) == IF f \in {NoState, Torn} THEN <<>> ELSE trail(f)

\* The witness log on disk, through saves, failures, kills and restarts, is the
\* log of WitnessLog: it only grows, linked and with growing epochs
\* (validateWitnessLog, saveRelayStateToFile).
Durable == INSTANCE WitnessLog WITH log <- IF service = "relay" THEN OnDisk(file) ELSE <<>>
DurableLogGrows == Durable!Spec

\* createPersistentHttpServer: while the process runs and no save has failed,
\* the file holds the state in memory, or a save that will is under way.
SavedOrPending == process = "up" => \/ file = written(memory)
                                    \/ pending > 0
                                    \/ saving = written(memory)

\* completePairing: no challenge can be completed twice, not even after the
\* process was killed before the pairing was saved.
ChallengesSpentOnce == service = "relay" =>
    \A s \in {memory, saving, file} \ {NoState} : \A c \in s.challenges : c.id \notin spent

\* loadGatewayStateFromFile fails closed: a file that was left truncated is not
\* replaced by a server that starts over; only a process that still has the
\* state in memory writes it again.
TornNotReset == [][file = Torn /\ process = "down" => UNCHANGED <<file, memory>>]_vars

\* A save never takes back evidence that was on disk: the file's trail of
\* checkpoints or of SIEM events grows, or the file is torn.
EvidenceKept == [][file' # Torn => Continues(OnDisk(file'), OnDisk(file))]_vars

\* Every checkpoint and SIEM event that was answered reaches the file, unless
\* the process is killed or a save fails (saveState and its promise chain).
EventuallySaved == \A n \in 1..MaxId + MaxEvents :
    (process = "up" /\ Len(trail(memory)) >= n) ~> (Len(OnDisk(file)) >= n \/ process # "up")

\* A fork can only be of a checkpoint that was never saved: no checkpoint the
\* relay signs has the predecessor of one that is on disk by then, and what is
\* on disk stays there (POST /witness/checkpoint, saveRelayStateToFile).
SavedNeverForked ==
    [][\A c \in answered' \ answered :
         \A i \in 1..Len(OnDisk(file)) : OnDisk(file)[i].prev # c.prev]_vars

\* docs/security-threat-model.md: witness checkpoints "enforce root and
\* continuity checks": the relay never answers two with the same predecessor.
WitnessNeverForks == \A a, b \in answered : a.prev = b.prev => a = b
=============================================================================
