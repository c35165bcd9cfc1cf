----------------------- MODULE PersistentServerProofs -----------------------
(***************************************************************************)
(* Theorems of PersistentServer, for every set of keys, records, payloads  *)
(* and policies, and any number of requests, saves and kills.              *)
(*                                                                         *)
(* The first lemmas say what the handlers of the two services do to a      *)
(* state.  RequestFacts sums them up for all requests, so that every       *)
(* invariant is proved against one kind of request.                        *)
(***************************************************************************)
EXTENDS PersistentServer, SequenceTheorems, TLAPS

-----------------------------------------------------------------------------
(* Logs.                                                                   *)

\* A log continues itself.
LEMMA ContinuesSelf == ASSUME NEW w PROVE Continues(w, w)
BY DEF Continues

\* Every log continues the empty one.
LEMMA ContinuesEmpty == ASSUME NEW S, NEW w \in Seq(S) PROVE Continues(w, <<>>)
BY DEF Continues

\* A log with one more entry continues the log.
LEMMA ContinuesAppend ==
    ASSUME NEW S, NEW w \in Seq(S), NEW e \in S
    PROVE  Append(w, e) \in Seq(S) /\ Continues(Append(w, e), w)
BY AppendProperties DEF Continues

\* What continues a continuation continues the log.
LEMMA ContinuesTrans ==
    ASSUME NEW S, NEW u \in Seq(S), NEW v \in Seq(S), NEW w \in Seq(S), Continues(w, v), Continues(v, u)
    PROVE  Continues(w, u)
BY DEF Continues

\* What the handler of /witness/checkpoint appends keeps the log valid.
LEMMA ChainAppend ==
    ASSUME NEW w \in Seq(Checkpoint), validateWitnessLog(w), NEW hash \in Nat \ {EmptyRoot}, NEW epoch \in Nat,
           acceptsEpoch(w, epoch)
    PROVE  /\ createWitnessCheckpoint(w, hash, epoch) \in Checkpoint
           /\ validateWitnessLog(Append(w, createWitnessCheckpoint(w, hash, epoch)))
<1>. DEFINE c == createWitnessCheckpoint(w, hash, epoch)
            a == Append(w, c)
<1>1. c = [hash |-> hash, prev |-> lastHash(w), epoch |-> epoch]
  BY DEF createWitnessCheckpoint
<1>2. lastHash(w) \in Nat
  <2>1. CASE w = <<>>
    BY <2>1 DEF lastHash, EmptyRoot
  <2>2. CASE w # <<>>
    <3>1. w[Len(w)] \in Checkpoint
      BY <2>2, EmptySeq
    <3>. QED  BY <2>2, <3>1 DEF lastHash, Checkpoint
  <2>. QED  BY <2>1, <2>2
<1>3. c \in Checkpoint
  BY <1>1, <1>2 DEF Checkpoint
<1>. HIDE DEF c
<1>4. /\ Len(a) = Len(w) + 1 /\ Len(w) \in Nat
      /\ \A i \in 1..Len(w) : a[i] = w[i]
      /\ a[Len(w) + 1] = c
  BY <1>3, AppendProperties
<1>. HIDE DEF a
<1>5. ASSUME NEW i \in 1..Len(a)
      PROVE  /\ a[i].prev = IF i = 1 THEN EmptyRoot ELSE a[i - 1].hash
             /\ i > 1 => a[i].epoch > a[i - 1].epoch
  <2>1. CASE i \in 1..Len(w)
    <3>1. a[i] = w[i] /\ (i > 1 => a[i - 1] = w[i - 1])
      BY <2>1, <1>4
    <3>. QED  BY <2>1, <3>1 DEF validateWitnessLog
  <2>2. CASE i = Len(w) + 1 /\ i = 1
    <3>1. w = <<>>
      BY <2>2, <1>4, EmptySeq
    <3>. QED  BY <2>2, <3>1, <1>1, <1>4 DEF lastHash
  <2>3. CASE i = Len(w) + 1 /\ i > 1
    <3>1. w # <<>> /\ a[i] = c /\ a[i - 1] = w[Len(w)]
      BY <2>3, <1>4
    <3>2. epoch > w[Len(w)].epoch
      BY <3>1 DEF acceptsEpoch
    <3>. QED  BY <2>3, <3>1, <3>2, <1>1 DEF lastHash
  <2>. QED  BY <2>1, <2>2, <2>3, <1>4
<1>6. validateWitnessLog(a)
  BY <1>5 DEF validateWitnessLog
<1>. QED  BY <1>3, <1>6 DEF c, a

-----------------------------------------------------------------------------
(* What the handlers do to a state.                                        *)

\* A new relay has no checkpoint and no challenge.
LEMMA RelayCreated == /\ createRelayState \in RelayState
                      /\ createRelayState.witnessLog = <<>>
                      /\ createRelayState.challenges = {}
BY DEF createRelayState, RelayState, NoPayload

\* A state made for the local demo differs in that option only.
LEMMA DemoRelayCreated == /\ createDemoRelayState \in RelayState
                          /\ createDemoRelayState.witnessLog = <<>>
                          /\ createDemoRelayState.challenges = {}
BY RelayCreated DEF createDemoRelayState, RelayState

\* A new gateway has no SIEM event.
LEMMA GatewayCreated == /\ createGatewayState \in GatewayState
                        /\ createGatewayState.siem_events = <<>>
BY PolicyAssumption DEF createGatewayState, GatewayState

\* A snapshot keeps the log and leaves the challenges out.
LEMMA Serialized ==
    ASSUME NEW s \in RelayState
    PROVE  /\ serializeRelayState(s) \in RelayState
           /\ serializeRelayState(s).witnessLog = s.witnessLog
           /\ serializeRelayState(s).challenges = {}
BY DEF serializeRelayState, RelayState

\* A state is neither a missing file nor a truncated one.
LEMMA NotSentinels ==
    /\ NoState # Torn
    /\ \A s \in RelayState : s # NoState /\ s # Torn
    /\ \A s \in GatewayState : s # NoState /\ s # Torn
<1>1. NoState.schema = "none" /\ Torn.schema = "torn"
  BY DEF NoState, Torn
<1>2. \A s \in RelayState : s.schema = "relay"
  BY DEF RelayState
<1>3. \A s \in GatewayState : s.schema = "gateway"
  BY DEF GatewayState
<1>. QED  BY <1>1, <1>2, <1>3

\* createPairingChallenge adds one challenge and nothing else.
LEMMA Challenged ==
    ASSUME NEW s \in RelayState, NEW id \in Nat, NEW k \in Keys
    PROVE  /\ createPairingChallenge(s, id, k) \in RelayState
           /\ createPairingChallenge(s, id, k).witnessLog = s.witnessLog
           /\ createPairingChallenge(s, id, k).challenges = s.challenges \cup {[id |-> id, publicKey |-> k, expired |-> FALSE]}
<1>1. [id |-> id, publicKey |-> k, expired |-> FALSE] \in Challenge
  BY DEF Challenge
<1>. QED  BY <1>1 DEF createPairingChallenge, RelayState

\* An expired challenge keeps its id, and a snapshot does not see it.
LEMMA Expired ==
    ASSUME NEW s \in RelayState, NEW c \in s.challenges
    PROVE  /\ expireChallenge(s, c) \in RelayState
           /\ expireChallenge(s, c).witnessLog = s.witnessLog
           /\ expireChallenge(s, c).challenges = (s.challenges \ {c}) \cup {[c EXCEPT !.expired = TRUE]}
           /\ [c EXCEPT !.expired = TRUE].id = c.id
           /\ serializeRelayState(expireChallenge(s, c)) = serializeRelayState(s)
<1>1. c \in Challenge
  BY DEF RelayState
<1>2. [c EXCEPT !.expired = TRUE] \in Challenge /\ [c EXCEPT !.expired = TRUE].id = c.id
  BY <1>1 DEF Challenge
<1>. DEFINE d == [c EXCEPT !.expired = TRUE]
<1>. HIDE DEF d
<1>3. expireChallenge(s, c) = [s EXCEPT !.challenges = (s.challenges \ {c}) \cup {d}]
  BY DEF expireChallenge, d
<1>4. [s EXCEPT !.challenges = (s.challenges \ {c}) \cup {d}] \in RelayState
  BY <1>2 DEF RelayState, d
<1>5. serializeRelayState(expireChallenge(s, c)) = serializeRelayState(s)
  BY <1>3 DEF serializeRelayState, RelayState
<1>. QED  BY <1>2, <1>3, <1>4, <1>5 DEF RelayState, d

\* completePairing takes the challenge away.
LEMMA Completed ==
    ASSUME NEW s \in RelayState, NEW c \in s.challenges
    PROVE  /\ completePairing(s, c) \in RelayState
           /\ completePairing(s, c).witnessLog = s.witnessLog
           /\ completePairing(s, c).challenges = s.challenges \ {c}
           /\ c.id \in Nat
<1>1. c \in Challenge
  BY DEF RelayState
<1>2. [challenge |-> c.id, publicKey |-> c.publicKey] \in Pairing /\ c.id \in Nat
  BY <1>1 DEF Challenge, Pairing
<1>. QED  BY <1>2 DEF completePairing, RelayState

\* A pushed record leaves the log and the challenges alone.
LEMMA Pushed ==
    ASSUME NEW s \in RelayState, NEW r \in RecordIds, NEW h \in Payloads
    PROVE  /\ pushRelayRecord(s, r, h) \in RelayState
           /\ pushRelayRecord(s, r, h).witnessLog = s.witnessLog
           /\ pushRelayRecord(s, r, h).challenges = s.challenges
BY DEF pushRelayRecord, RelayState

\* A checkpoint is appended to the log and changes nothing else.
LEMMA Witnessed ==
    ASSUME NEW s \in RelayState, NEW c \in Checkpoint
    PROVE  LET t == [s EXCEPT !.witnessLog = Append(@, c)]
           IN /\ t \in RelayState
              /\ t.witnessLog = Append(s.witnessLog, c)
              /\ t.challenges = s.challenges
<1>1. s.witnessLog \in Seq(Checkpoint)
  BY DEF RelayState
<1>2. Append(s.witnessLog, c) \in Seq(Checkpoint)
  BY <1>1, AppendProperties
<1>. QED  BY <1>2 DEF RelayState

\* putPolicy leaves the SIEM events alone.
LEMMA PolicyPut ==
    ASSUME NEW s \in GatewayState, NEW p \in Policies
    PROVE  putPolicy(s, p) \in GatewayState /\ putPolicy(s, p).siem_events = s.siem_events
BY DEF putPolicy, GatewayState

\* A SIEM event continues the events before it.
LEMMA EventAppended ==
    ASSUME NEW s \in GatewayState, NEW of \in {"evaluation", "decision"}
    PROVE  /\ appendSiemEvent(s, of) \in GatewayState
           /\ Continues(appendSiemEvent(s, of).siem_events, s.siem_events)
<1>. DEFINE e == [of |-> of, policy_hash |-> s.policy]
<1>1. e \in SiemEvent /\ s.siem_events \in Seq(SiemEvent)
  BY DEF SiemEvent, GatewayState
<1>. HIDE DEF e
<1>2. Append(s.siem_events, e) \in Seq(SiemEvent) /\ Continues(Append(s.siem_events, e), s.siem_events)
  BY <1>1, ContinuesAppend
<1>3. appendSiemEvent(s, of) = [s EXCEPT !.siem_events = Append(s.siem_events, e)]
  BY DEF appendSiemEvent, e
<1>. QED  BY <1>2, <1>3 DEF GatewayState

-----------------------------------------------------------------------------
(* The invariants.                                                         *)

\* A process that is down has no save under way, one that starts has exactly
\* one, and the gateway's saves are one call.
Lifecycle ==
    /\ process = "down" => pending = 0 /\ saving = NoState
    /\ process = "starting" => (pending = 1 /\ saving = NoState) \/ (pending = 0 /\ saving # NoState)
    /\ service = "gateway" => saving = NoState

\* When no save waits, the one that runs writes what is in memory, and when
\* none runs the file holds it.
LastSaveCurrent ==
    process \in {"starting", "up"} /\ pending = 0 =>
        IF saving = NoState THEN file = written(memory) ELSE saving = written(memory)

\* The trail in memory continues the one being written, which continues the
\* one on disk.
TrailsGrow ==
    process # "down" => /\ Continues(trail(memory), OnDisk(file))
                        /\ saving # NoState => /\ Continues(trail(memory), trail(saving))
                                               /\ Continues(trail(saving), OnDisk(file))

\* Every copy of the witness log is a valid chain.
Chained ==
    service = "relay" => /\ file # Torn
                         /\ validateWitnessLog(OnDisk(file))
                         /\ saving # NoState => validateWitnessLog(saving.witnessLog)
                         /\ process # "down" => validateWitnessLog(memory.witnessLog)

\* Challenges live in memory only; their ids are drawn once and spent once.
ChallengesFresh ==
    service = "relay" =>
        /\ saving # NoState => saving.challenges = {}
        /\ file # NoState => file.challenges = {}
        /\ \A i \in spent : i < nextId
        /\ process # "down" => \A c \in memory.challenges :
               /\ c.id < nextId
               /\ c.id \notin spent
               /\ \A d \in memory.challenges : d.id = c.id => d = c

ServerInv == TypeOK /\ Lifecycle /\ LastSaveCurrent /\ TrailsGrow /\ Chained /\ ChallengesFresh

\* The process runs one of the two services, with its own state.
LEMMA ServiceCases ==
    ASSUME TypeOK
    PROVE  \/ service = "relay" /\ Snapshot = RelayState /\ \A s : trail(s) = s.witnessLog /\ written(s) = serializeRelayState(s)
           \/ service = "gateway" /\ Snapshot = GatewayState /\ \A s : trail(s) = s.siem_events /\ written(s) = s
BY ServicesAssumption DEF TypeOK, Snapshot, trail, written

\* A state's trail is a sequence, and a save writes the whole of it.
LEMMA TrailType == ASSUME TypeOK, NEW s \in Snapshot
                   PROVE  /\ \E S : trail(s) \in Seq(S)
                          /\ written(s) \in Snapshot
                          /\ trail(written(s)) = trail(s)
                          /\ s # NoState /\ s # Torn
                          /\ OnDisk(s) = trail(s)
<1>1. CASE service = "relay"
  <2>1. Snapshot = RelayState /\ (\A t : trail(t) = t.witnessLog) /\ written(s) = serializeRelayState(s)
    BY <1>1 DEF Snapshot, trail, written
  <2>2. s \in RelayState
    BY <2>1
  <2>3. s.witnessLog \in Seq(Checkpoint)
    BY <2>2 DEF RelayState
  <2>4. s # NoState /\ s # Torn
    BY <2>2, NotSentinels
  <2>. QED  BY <2>1, <2>2, <2>3, <2>4, Serialized DEF OnDisk
<1>2. CASE service = "gateway"
  <2>1. Snapshot = GatewayState /\ (\A t : trail(t) = t.siem_events) /\ written(s) = s
    BY <1>2 DEF Snapshot, trail, written
  <2>2. s \in GatewayState
    BY <2>1
  <2>3. s.siem_events \in Seq(SiemEvent)
    BY <2>2 DEF GatewayState
  <2>4. s # NoState /\ s # Torn
    BY <2>2, NotSentinels
  <2>. QED  BY <2>1, <2>2, <2>3, <2>4 DEF OnDisk
<1>. QED  BY <1>1, <1>2, ServicesAssumption DEF TypeOK

-----------------------------------------------------------------------------
(* Requests.                                                               *)

\* What every request does, whichever handler serves it.
RequestEffect ==
    /\ UNCHANGED <<service, process, saving, file, kills>>
    /\ process # "down"
    /\ memory \in Snapshot /\ memory' \in Snapshot
    /\ Continues(trail(memory'), trail(memory))
    /\ service = "relay" /\ validateWitnessLog(memory.witnessLog) => validateWitnessLog(memory'.witnessLog)
    /\ \/ pending' = pending + 1 /\ process \in {"up", "closing"}
       \/ pending' = pending /\ written(memory') = written(memory)
    /\ nextId' \in Nat \ {EmptyRoot} /\ answered' \subseteq Checkpoint /\ spent' \subseteq Nat

\* What every request of the relay does to challenges.
ChallengeEffect ==
    service = "relay" => \A c \in memory'.challenges :
        /\ c.id < nextId'
        /\ c.id \notin spent'
        /\ \A d \in memory'.challenges : d.id = c.id => d = c

\* A request that the relay serves finds a relay's state in memory.
LEMMA RelayServes ==
    ASSUME TypeOK, Serves("relay") \/ (service = "relay" /\ process # "down")
    PROVE  /\ service = "relay" /\ process # "down" /\ Snapshot = RelayState /\ memory \in RelayState
           /\ \A s : trail(s) = s.witnessLog /\ written(s) = serializeRelayState(s)
BY DEF TypeOK, Serves, Snapshot, trail, written

\* A request that the gateway serves finds a gateway's state in memory.
LEMMA GatewayServes ==
    ASSUME TypeOK, Serves("gateway")
    PROVE  /\ service = "gateway" /\ process # "down" /\ Snapshot = GatewayState /\ memory \in GatewayState
           /\ \A s : trail(s) = s.siem_events /\ written(s) = s
BY DEF TypeOK, Serves, Snapshot, trail, written

\* Every handler of both services has that effect.
LEMMA RequestFacts == ASSUME TypeOK, Request PROVE RequestEffect
<1>. nextId \in Nat /\ nextId + 1 \in Nat \ {EmptyRoot} /\ pending \in Nat
  BY DEF TypeOK, EmptyRoot
<1>1. ASSUME NEW k \in Keys, PairingChallenge(k) PROVE RequestEffect
  <2>1. Serves("relay")
    BY <1>1 DEF PairingChallenge
  <2>2. memory' = createPairingChallenge(memory, nextId, k)
    BY <1>1 DEF PairingChallenge
  <2>3. memory' \in RelayState /\ memory'.witnessLog = memory.witnessLog
    BY <2>1, <2>2, RelayServes, Challenged
  <2>4. Continues(memory'.witnessLog, memory.witnessLog)
    BY <2>3, ContinuesSelf
  <2>. QED  BY <1>1, <2>1, <2>3, <2>4, RelayServes DEF PairingChallenge, saveState, Serves, RequestEffect, TypeOK
<1>2. ASSUME ChallengeExpires PROVE RequestEffect
  <2>1. service = "relay" /\ process # "down"
    BY <1>2 DEF ChallengeExpires
  <2>2. PICK c \in memory.challenges : memory' = expireChallenge(memory, c)
    BY <1>2 DEF ChallengeExpires
  <2>3. /\ memory' \in RelayState /\ memory'.witnessLog = memory.witnessLog
        /\ serializeRelayState(memory') = serializeRelayState(memory)
    BY <2>1, <2>2, RelayServes, Expired
  <2>4. Continues(memory'.witnessLog, memory.witnessLog)
    BY <2>3, ContinuesSelf
  <2>. QED  BY <1>2, <2>1, <2>3, <2>4, RelayServes DEF ChallengeExpires, RequestEffect, TypeOK
<1>3. ASSUME PairingComplete PROVE RequestEffect
  <2>1. Serves("relay")
    BY <1>3 DEF PairingComplete
  <2>2. PICK c \in memory.challenges : memory' = completePairing(memory, c) /\ spent' = spent \cup {c.id}
    BY <1>3 DEF PairingComplete
  <2>3. memory' \in RelayState /\ memory'.witnessLog = memory.witnessLog /\ c.id \in Nat
    BY <2>1, <2>2, RelayServes, Completed
  <2>4. Continues(memory'.witnessLog, memory.witnessLog)
    BY <2>3, ContinuesSelf
  <2>. QED  BY <1>3, <2>1, <2>2, <2>3, <2>4, RelayServes DEF PairingComplete, saveState, Serves, RequestEffect, TypeOK
<1>4. ASSUME NEW r \in RecordIds, NEW h \in Payloads, RelayPush(r, h) PROVE RequestEffect
  <2>1. Serves("relay")
    BY <1>4 DEF RelayPush
  <2>2. memory' = pushRelayRecord(memory, r, h)
    BY <1>4 DEF RelayPush
  <2>3. memory' \in RelayState /\ memory'.witnessLog = memory.witnessLog
    BY <2>1, <2>2, RelayServes, Pushed
  <2>4. Continues(memory'.witnessLog, memory.witnessLog)
    BY <2>3, ContinuesSelf
  <2>. QED  BY <1>4, <2>1, <2>3, <2>4, RelayServes DEF RelayPush, saveState, Serves, RequestEffect, TypeOK
<1>5. ASSUME WitnessCheckpoint PROVE RequestEffect
  <2>1. Serves("relay") /\ nextId' = nextId + 1 /\ saveState /\ UNCHANGED <<service, process, saving, file, spent, kills>>
    BY <1>5 DEF WitnessCheckpoint
  <2>. DEFINE w == memory.witnessLog
  <2>2. w \in Seq(Checkpoint)
    BY <2>1, RelayServes DEF RelayState
  <2>3. nextEpoch(w) \in Nat
    <3>1. CASE w # <<>>
      <4>1. w[Len(w)] \in Checkpoint
        BY <2>2, <3>1, EmptySeq
      <4>. QED  BY <3>1, <4>1 DEF nextEpoch, Checkpoint
    <3>. QED  BY <3>1 DEF nextEpoch
  <2>4. PICK epoch \in 0..MaxEpoch \cup {nextEpoch(w)} :
            /\ acceptsEpoch(w, epoch)
            /\ memory' = [memory EXCEPT !.witnessLog = Append(@, createWitnessCheckpoint(w, nextId, epoch))]
            /\ answered' = answered \cup {createWitnessCheckpoint(w, nextId, epoch)}
    BY <1>5 DEF WitnessCheckpoint
  <2>5. epoch \in Nat
    BY <2>3, ServicesAssumption
  <2>. DEFINE c == createWitnessCheckpoint(w, nextId, epoch)
  <2>6. nextId \in Nat \ {EmptyRoot}
    BY DEF TypeOK
  <2>7. c \in Checkpoint
    <3>1. lastHash(w) \in Nat
      <4>1. CASE w # <<>>
        <5>1. w[Len(w)] \in Checkpoint
          BY <2>2, <4>1, EmptySeq
        <5>. QED  BY <4>1, <5>1 DEF lastHash, Checkpoint
      <4>. QED  BY <4>1 DEF lastHash, EmptyRoot
    <3>. QED  BY <2>5, <2>6, <3>1 DEF createWitnessCheckpoint, Checkpoint
  <2>8. validateWitnessLog(w) => validateWitnessLog(Append(w, c))
    BY <2>2, <2>4, <2>5, <2>6, ChainAppend
  <2>. HIDE DEF c
  <2>9. memory' \in RelayState /\ memory'.witnessLog = Append(w, c)
    BY <2>1, <2>4, <2>7, RelayServes, Witnessed DEF c
  <2>10. Continues(memory'.witnessLog, w)
    BY <2>2, <2>7, <2>9, ContinuesAppend
  <2>11. answered' \subseteq Checkpoint
    BY <2>4, <2>7 DEF TypeOK, c
  <2>12. validateWitnessLog(memory.witnessLog) => validateWitnessLog(memory'.witnessLog)
    BY <2>8, <2>9 DEF c
  <2>13. Continues(memory'.witnessLog, memory.witnessLog)
    BY <2>10
  <2>14. memory' \in RelayState
    BY <2>9
  <2>. HIDE DEF w
  <2>. QED  BY <2>1, <2>11, <2>12, <2>13, <2>14, RelayServes DEF saveState, Serves, RequestEffect, TypeOK
<1>6. ASSUME NEW q \in Policies, PutPolicy(q) PROVE RequestEffect
  <2>1. Serves("gateway") /\ memory' = putPolicy(memory, q)
    BY <1>6 DEF PutPolicy
  <2>2. memory' \in GatewayState /\ memory'.siem_events = memory.siem_events
    BY <2>1, GatewayServes, PolicyPut
  <2>3. Continues(memory'.siem_events, memory.siem_events)
    BY <2>2, ContinuesSelf
  <2>. QED  BY <1>6, <2>1, <2>2, <2>3, GatewayServes DEF PutPolicy, saveState, Serves, RequestEffect, TypeOK
<1>7. ASSUME NEW of \in {"evaluation", "decision"}, GatewayEvent(of) PROVE RequestEffect
  <2>1. Serves("gateway") /\ memory' = appendSiemEvent(memory, of)
    BY <1>7 DEF GatewayEvent
  <2>2. memory' \in GatewayState /\ Continues(memory'.siem_events, memory.siem_events)
    BY <2>1, GatewayServes, EventAppended
  <2>. QED  BY <1>7, <2>1, <2>2, GatewayServes DEF GatewayEvent, saveState, Serves, RequestEffect, TypeOK
<1>. QED  BY <1>1, <1>2, <1>3, <1>4, <1>5, <1>6, <1>7 DEF Request

\* Challenges stay fresh through every request of the relay.
LEMMA ChallengeFacts ==
    ASSUME TypeOK, ChallengesFresh, Request
    PROVE  service = "relay" => ChallengeEffect /\ \A i \in spent' : i < nextId'
<1>. SUFFICES ASSUME service = "relay" PROVE ChallengeEffect /\ \A i \in spent' : i < nextId'
  OBVIOUS
<1>. process # "down" /\ memory \in RelayState /\ nextId \in Nat
  BY RequestFacts DEF RequestEffect, Snapshot, TypeOK
<1>. DEFINE Fresh(cs, sp, n) == /\ \A i \in sp : i < n
                                /\ \A c \in cs : /\ c.id < n
                                                  /\ c.id \notin sp
                                                  /\ \A d \in cs : d.id = c.id => d = c
<1>. memory.challenges \subseteq Challenge /\ spent \subseteq Nat /\ \A c \in memory.challenges : c.id \in Nat
  BY DEF RelayState, Challenge, TypeOK
<1>. Fresh(memory.challenges, spent, nextId)
  BY DEF ChallengesFresh
<1>. SUFFICES Fresh(memory'.challenges, spent', nextId')
  BY DEF ChallengeEffect
<1>1. ASSUME NEW k \in Keys, PairingChallenge(k) PROVE Fresh(memory'.challenges, spent', nextId')
  <2>. DEFINE c == [id |-> nextId, publicKey |-> k, expired |-> FALSE]
  <2>1. memory'.challenges = memory.challenges \cup {c} /\ spent' = spent /\ nextId' = nextId + 1 /\ c.id = nextId
    BY <1>1, Challenged DEF PairingChallenge
  <2>. HIDE DEF c
  <2>. QED  BY <2>1
<1>2. ASSUME ChallengeExpires PROVE Fresh(memory'.challenges, spent', nextId')
  <2>1. PICK c \in memory.challenges : memory' = expireChallenge(memory, c)
    BY <1>2 DEF ChallengeExpires
  <2>. DEFINE e == [c EXCEPT !.expired = TRUE]
  <2>2. memory'.challenges = (memory.challenges \ {c}) \cup {e} /\ e.id = c.id /\ spent' = spent /\ nextId' = nextId
    BY <1>2, <2>1, Expired DEF ChallengeExpires
  <2>. HIDE DEF e
  <2>. QED  BY <2>2
<1>3. ASSUME PairingComplete PROVE Fresh(memory'.challenges, spent', nextId')
  <2>1. PICK c \in memory.challenges : memory' = completePairing(memory, c) /\ spent' = spent \cup {c.id}
    BY <1>3 DEF PairingComplete
  <2>2. memory'.challenges = memory.challenges \ {c} /\ nextId' = nextId
    BY <1>3, <2>1, Completed DEF PairingComplete
  <2>. QED  BY <2>1, <2>2
<1>4. ASSUME NEW r \in RecordIds, NEW h \in Payloads, RelayPush(r, h) PROVE Fresh(memory'.challenges, spent', nextId')
  <2>1. memory'.challenges = memory.challenges /\ spent' = spent /\ nextId' = nextId
    BY <1>4, Pushed DEF RelayPush
  <2>. QED  BY <2>1
<1>5. ASSUME WitnessCheckpoint PROVE Fresh(memory'.challenges, spent', nextId')
  <2>1. spent' = spent /\ nextId' = nextId + 1
    BY <1>5 DEF WitnessCheckpoint
  <2>2. memory'.challenges = memory.challenges
    BY <1>5 DEF WitnessCheckpoint, RelayState
  <2>. QED  BY <2>1, <2>2
<1>6. ~(\E q \in Policies : PutPolicy(q)) /\ ~(\E of \in {"evaluation", "decision"} : GatewayEvent(of))
  BY DEF PutPolicy, GatewayEvent, Serves
<1>. HIDE DEF Fresh
<1>. QED  BY <1>1, <1>2, <1>3, <1>4, <1>5, <1>6 DEF Request

-----------------------------------------------------------------------------
(* Every step keeps the invariants.                                        *)

\* No step changes the service.
LEMMA ServiceFixed == ASSUME TypeOK, [Next]_vars PROVE service' = service
BY RequestFacts DEF RequestEffect, Next, Save, SaveFails, vars, loadOrCreateState, writeTemp, renameRelayStateAtomically,
   saveGatewayStateToFile, relaySaveFails, gatewaySaveFails, serverClose, Kill

\* What a loaded or created state is, and what its trail continues.
LEMMA LoadFacts ==
    ASSUME TypeOK, Chained, ChallengesFresh, loadOrCreateState
    PROVE  /\ process = "down" /\ process' = "starting" /\ pending' = 1
           /\ UNCHANGED <<service, saving, file, nextId, answered, spent, kills>>
           /\ memory' \in Snapshot
           /\ Continues(trail(memory'), OnDisk(file))
           /\ service = "relay" => validateWitnessLog(memory'.witnessLog) /\ memory'.challenges = {}
<1>1. /\ process = "down" /\ process' = "starting" /\ pending' = 1
      /\ UNCHANGED <<service, saving, file, nextId, answered, spent, kills>>
  BY DEF loadOrCreateState
<1>2. CASE file = NoState /\ memory' = createState
  <2>1. OnDisk(file) = <<>>
    BY <1>2 DEF OnDisk
  <2>2. memory' \in Snapshot /\ trail(memory') = <<>>
    BY <1>2, RelayCreated, GatewayCreated, ServiceCases DEF createState
  <2>3. Continues(trail(memory'), OnDisk(file))
    BY <2>1, <2>2, ContinuesSelf
  <2>4. validateWitnessLog(<<>>)
    BY DEF validateWitnessLog
  <2>5. service = "relay" => memory'.witnessLog = <<>> /\ memory'.challenges = {}
    BY <1>2, RelayCreated DEF createState
  <2>. QED  BY <1>1, <2>2, <2>3, <2>4, <2>5
<1>3. CASE loadsStateFromFile(file) /\ memory' = file
  <2>1. file \in Snapshot
    BY <1>3 DEF loadsStateFromFile, TypeOK
  <2>2. Continues(trail(memory'), OnDisk(file))
    BY <1>3, <2>1, TrailType, ContinuesSelf
  <2>3. file # NoState /\ OnDisk(file) = trail(file)
    BY <2>1, TrailType
  <2>4. service = "relay" => validateWitnessLog(memory'.witnessLog) /\ memory'.challenges = {}
    BY <1>3, <2>3 DEF Chained, ChallengesFresh, trail
  <2>. QED  BY <1>1, <1>3, <2>1, <2>2, <2>4
<1>. QED  BY <1>2, <1>3 DEF loadOrCreateState

\* Every step keeps the type.
LEMMA TypeStep == ASSUME TypeOK, Lifecycle, Chained, ChallengesFresh, [Next]_vars PROVE TypeOK'
<1>. service' = service /\ Snapshot' = Snapshot
  BY ServiceFixed DEF Snapshot
<1>. NoState \notin Snapshot
  BY NotSentinels, ServiceCases
<1>1. CASE loadOrCreateState
  <2>1. process' = "starting" /\ pending' = 1 /\ memory' \in Snapshot
    BY <1>1, LoadFacts
  <2>2. UNCHANGED <<service, saving, file, nextId, answered, spent, kills>>
    BY <1>1, LoadFacts
  <2>. QED  BY <2>1, <2>2 DEF TypeOK
<1>2. CASE writeTemp
  <2>1. memory \in Snapshot
    BY <1>2 DEF writeTemp, Turn, Lifecycle, TypeOK
  <2>2. written(memory) \in Snapshot
    BY <2>1, TrailType
  <2>. QED  BY <1>2, <2>1, <2>2 DEF writeTemp, Turn, TypeOK
<1>3. CASE renameRelayStateAtomically
  BY <1>3 DEF renameRelayStateAtomically, SaveDone, TypeOK, Lifecycle
<1>4. CASE saveGatewayStateToFile
  <2>1. memory \in Snapshot
    BY <1>4 DEF saveGatewayStateToFile, Turn, Lifecycle, TypeOK
  <2>2. written(memory) \in Snapshot
    BY <2>1, TrailType
  <2>. QED  BY <1>4, <2>1, <2>2 DEF saveGatewayStateToFile, SaveDone, Turn, TypeOK
<1>5. CASE relaySaveFails
  BY <1>5 DEF relaySaveFails, SaveFailed, TypeOK, Lifecycle
<1>6. CASE gatewaySaveFails
  BY <1>6 DEF gatewaySaveFails, SaveFailed, Turn, TypeOK, Lifecycle
<1>7. CASE serverClose
  BY <1>7 DEF serverClose, Ends, TypeOK
<1>8. CASE Kill
  BY <1>8 DEF Kill, Ends, TypeOK
<1>9. CASE Request
  <2>1. RequestEffect
    BY <1>9, RequestFacts
  <2>. QED  BY <2>1 DEF RequestEffect, TypeOK
<1>10. CASE UNCHANGED vars
  BY <1>10 DEF vars, TypeOK
<1>. QED  BY <1>1, <1>2, <1>3, <1>4, <1>5, <1>6, <1>7, <1>8, <1>9, <1>10 DEF Next, Save, SaveFails

\* Every step keeps the saves of each phase.
LEMMA LifecycleStep == ASSUME TypeOK, Lifecycle, Chained, ChallengesFresh, [Next]_vars PROVE Lifecycle'
<1>1. CASE loadOrCreateState
  BY <1>1, LoadFacts DEF Lifecycle
<1>2. CASE writeTemp
  <2>1. memory \in Snapshot
    BY <1>2 DEF writeTemp, Turn, Lifecycle, TypeOK
  <2>2. saving' # NoState
    BY <1>2, <2>1, TrailType DEF writeTemp
  <2>. QED  BY <1>2, <2>2 DEF writeTemp, Turn, Lifecycle, TypeOK
<1>3. CASE renameRelayStateAtomically
  BY <1>3 DEF renameRelayStateAtomically, SaveDone, Lifecycle
<1>4. CASE saveGatewayStateToFile
  BY <1>4 DEF saveGatewayStateToFile, SaveDone, Turn, Lifecycle, TypeOK
<1>5. CASE relaySaveFails
  BY <1>5 DEF relaySaveFails, SaveFailed, Lifecycle
<1>6. CASE gatewaySaveFails
  BY <1>6 DEF gatewaySaveFails, SaveFailed, Turn, Lifecycle
<1>7. CASE serverClose
  BY <1>7 DEF serverClose, Ends, Lifecycle
<1>8. CASE Kill
  BY <1>8 DEF Kill, Ends, Lifecycle
<1>9. CASE Request
  <2>1. RequestEffect
    BY <1>9, RequestFacts
  <2>. QED  BY <2>1 DEF RequestEffect, Lifecycle, TypeOK
<1>10. CASE UNCHANGED vars
  BY <1>10 DEF vars, Lifecycle
<1>. QED  BY <1>1, <1>2, <1>3, <1>4, <1>5, <1>6, <1>7, <1>8, <1>9, <1>10 DEF Next, Save, SaveFails

\* The last save on the chain is always of what is in memory.
LEMMA LastSaveStep == ASSUME TypeOK, Lifecycle, Chained, ChallengesFresh, LastSaveCurrent, [Next]_vars PROVE LastSaveCurrent'
<1>. service' = service /\ \A s : written(s)' = written(s')
  BY ServiceFixed DEF written
<1>1. CASE loadOrCreateState
  BY <1>1, LoadFacts DEF LastSaveCurrent
<1>2. CASE writeTemp
  <2>1. memory \in Snapshot
    BY <1>2 DEF writeTemp, Turn, Lifecycle, TypeOK
  <2>2. saving' # NoState /\ saving' = written(memory) /\ memory' = memory
    BY <1>2, <2>1, TrailType DEF writeTemp
  <2>. QED  BY <2>2, ServiceFixed DEF LastSaveCurrent, written
<1>3. CASE renameRelayStateAtomically
  BY <1>3, ServiceFixed DEF renameRelayStateAtomically, SaveDone, LastSaveCurrent, Lifecycle, written
<1>4. CASE saveGatewayStateToFile
  BY <1>4, ServiceFixed DEF saveGatewayStateToFile, Turn, LastSaveCurrent, written
<1>5. CASE relaySaveFails
  BY <1>5 DEF relaySaveFails, SaveFailed, LastSaveCurrent
<1>6. CASE gatewaySaveFails
  BY <1>6 DEF gatewaySaveFails, SaveFailed, LastSaveCurrent
<1>7. CASE serverClose
  BY <1>7 DEF serverClose, Ends, LastSaveCurrent
<1>8. CASE Kill
  BY <1>8 DEF Kill, Ends, LastSaveCurrent
<1>9. CASE Request
  <2>1. RequestEffect
    BY <1>9, RequestFacts
  <2>2. CASE pending' = pending + 1
    BY <2>2 DEF LastSaveCurrent, TypeOK
  <2>3. CASE pending' = pending /\ written(memory') = written(memory)
    BY <2>1, <2>3, ServiceFixed DEF RequestEffect, LastSaveCurrent, written
  <2>. QED  BY <2>1, <2>2, <2>3 DEF RequestEffect
<1>10. CASE UNCHANGED vars
  BY <1>10 DEF vars, LastSaveCurrent, written
<1>. QED  BY <1>1, <1>2, <1>3, <1>4, <1>5, <1>6, <1>7, <1>8, <1>9, <1>10 DEF Next, Save, SaveFails

\* Memory, snapshot and file stay continuations of one another.
LEMMA TrailsStep == ASSUME TypeOK, Lifecycle, Chained, ChallengesFresh, TrailsGrow, [Next]_vars PROVE TrailsGrow'
<1>. DEFINE Grow(p, m, v, f) ==
                p # "down" => /\ Continues(trail(m), OnDisk(f))
                              /\ v # NoState => Continues(trail(m), trail(v)) /\ Continues(trail(v), OnDisk(f))
<1>. SUFFICES Grow(process', memory', saving', file')
  BY ServiceFixed DEF TrailsGrow, trail, OnDisk
<1>. Grow(process, memory, saving, file)
  BY DEF TrailsGrow
<1>. process # "down" => memory \in Snapshot
  BY DEF TypeOK
<1>1. CASE loadOrCreateState
  BY <1>1, LoadFacts DEF Lifecycle
<1>2. CASE writeTemp
  <2>1. process # "down"
    BY <1>2 DEF writeTemp, Turn, Lifecycle
  <2>2. trail(saving') = trail(memory)
    BY <1>2, <2>1, TrailType DEF writeTemp
  <2>3. Continues(trail(memory), trail(saving'))
    BY <2>2, ContinuesSelf
  <2>. QED  BY <1>2, <2>1, <2>2, <2>3 DEF writeTemp
<1>3. CASE renameRelayStateAtomically
  <2>1. process # "down" /\ saving # NoState /\ saving \in Snapshot
    BY <1>3 DEF renameRelayStateAtomically, Lifecycle, TypeOK
  <2>2. OnDisk(saving) = trail(saving)
    BY <2>1, TrailType
  <2>. QED  BY <1>3, <2>1, <2>2 DEF renameRelayStateAtomically
<1>4. CASE saveGatewayStateToFile
  <2>1. process # "down" /\ saving = NoState
    BY <1>4 DEF saveGatewayStateToFile, Turn, Lifecycle
  <2>2. OnDisk(written(memory)) = trail(memory)
    BY <2>1, TrailType
  <2>3. Continues(trail(memory), OnDisk(written(memory)))
    BY <2>2, ContinuesSelf
  <2>. QED  BY <1>4, <2>1, <2>3 DEF saveGatewayStateToFile
<1>5. CASE relaySaveFails
  <2>1. process # "down"
    BY <1>5 DEF relaySaveFails, Lifecycle
  <2>. QED  BY <1>5, <2>1 DEF relaySaveFails, SaveFailed
<1>6. CASE gatewaySaveFails
  <2>1. process # "down" /\ saving' = NoState /\ file' \in {file, Torn}
    BY <1>6 DEF gatewaySaveFails, Turn, Lifecycle
  <2>2. Continues(trail(memory), OnDisk(Torn))
    BY <2>1, TrailType, ContinuesEmpty DEF OnDisk
  <2>. QED  BY <1>6, <2>1, <2>2 DEF gatewaySaveFails, SaveFailed
<1>7. CASE serverClose
  BY <1>7 DEF serverClose, Ends
<1>8. CASE Kill
  BY <1>8 DEF Kill, Ends
<1>9. CASE Request
  <2>1. RequestEffect
    BY <1>9, RequestFacts
  <2>2. ASSUME NEW u, Continues(trail(memory), u), \E S : u \in Seq(S) PROVE Continues(trail(memory'), u)
    BY <2>1, <2>2 DEF RequestEffect, Continues
  <2>3. \E S : OnDisk(file) \in Seq(S)
    <3>1. CASE file \in {NoState, Torn}
      BY <3>1 DEF OnDisk
    <3>2. CASE file \in Snapshot
      BY <3>2, TrailType
    <3>. QED  BY <3>1, <3>2 DEF TypeOK
  <2>4. saving # NoState => \E S : trail(saving) \in Seq(S)
    BY TrailType DEF TypeOK
  <2>5. Continues(trail(memory'), OnDisk(file))
    BY <2>1, <2>2, <2>3 DEF RequestEffect
  <2>6. saving # NoState => Continues(trail(memory'), trail(saving)) /\ Continues(trail(saving), OnDisk(file))
    BY <2>1, <2>2, <2>4 DEF RequestEffect
  <2>. QED  BY <2>1, <2>5, <2>6 DEF RequestEffect
<1>10. CASE UNCHANGED vars
  BY <1>10 DEF vars
<1>. HIDE DEF Grow
<1>. QED  BY <1>1, <1>2, <1>3, <1>4, <1>5, <1>6, <1>7, <1>8, <1>9, <1>10 DEF Next, Save, SaveFails

\* Every copy of the witness log stays a valid chain.
LEMMA ChainedStep == ASSUME TypeOK, Lifecycle, Chained, ChallengesFresh, [Next]_vars PROVE Chained'
<1>. SUFFICES ASSUME service = "relay" PROVE Chained'
  BY ServiceFixed DEF Chained
<1>. service' = service
  BY ServiceFixed
<1>. DEFINE Valid(p, m, v, f) == /\ f # Torn /\ validateWitnessLog(OnDisk(f))
                                 /\ v # NoState => validateWitnessLog(v.witnessLog)
                                 /\ p # "down" => validateWitnessLog(m.witnessLog)
<1>. OnDisk(file)' = OnDisk(file')
  BY DEF OnDisk, trail
<1>. SUFFICES Valid(process', memory', saving', file')
  BY DEF Chained
<1>. Valid(process, memory, saving, file)
  BY DEF Chained
<1>. Snapshot = RelayState /\ \A s : trail(s) = s.witnessLog
  BY DEF Snapshot, trail
<1>1. CASE loadOrCreateState
  BY <1>1, LoadFacts DEF Lifecycle
<1>2. CASE writeTemp
  <2>1. process # "down" /\ memory \in Snapshot
    BY <1>2 DEF writeTemp, Turn, Lifecycle, TypeOK
  <2>2. saving'.witnessLog = memory.witnessLog
    BY <1>2, <2>1, TrailType DEF writeTemp
  <2>. QED  BY <1>2, <2>1, <2>2 DEF writeTemp
<1>3. CASE renameRelayStateAtomically
  <2>1. process # "down" /\ saving # NoState /\ saving \in Snapshot
    BY <1>3 DEF renameRelayStateAtomically, Lifecycle, TypeOK
  <2>2. OnDisk(saving) = saving.witnessLog /\ saving # Torn
    BY <2>1, TrailType
  <2>. QED  BY <1>3, <2>1, <2>2 DEF renameRelayStateAtomically
<1>4. CASE saveGatewayStateToFile
  BY <1>4 DEF saveGatewayStateToFile
<1>5. CASE relaySaveFails
  <2>1. process # "down"
    BY <1>5 DEF relaySaveFails, Lifecycle
  <2>. QED  BY <1>5, <2>1 DEF relaySaveFails, SaveFailed
<1>6. CASE gatewaySaveFails
  BY <1>6 DEF gatewaySaveFails
<1>7. CASE serverClose
  BY <1>7 DEF serverClose, Ends
<1>8. CASE Kill
  BY <1>8 DEF Kill, Ends
<1>9. CASE Request
  BY <1>9, RequestFacts DEF RequestEffect
<1>10. CASE UNCHANGED vars
  BY <1>10 DEF vars
<1>. HIDE DEF Valid
<1>. QED  BY <1>1, <1>2, <1>3, <1>4, <1>5, <1>6, <1>7, <1>8, <1>9, <1>10 DEF Next, Save, SaveFails

\* Challenges stay fresh through every step, restarts included.
LEMMA ChallengesStep == ASSUME TypeOK, Lifecycle, Chained, ChallengesFresh, [Next]_vars PROVE ChallengesFresh'
<1>. SUFFICES ASSUME service = "relay" PROVE ChallengesFresh'
  BY ServiceFixed DEF ChallengesFresh
<1>. Snapshot = RelayState /\ \A s : written(s) = serializeRelayState(s)
  BY DEF Snapshot, written
<1>1. CASE loadOrCreateState
  BY <1>1, LoadFacts DEF ChallengesFresh
<1>2. CASE writeTemp
  <2>1. process # "down" /\ memory \in RelayState
    BY <1>2 DEF writeTemp, Turn, Lifecycle, TypeOK
  <2>2. saving'.challenges = {}
    BY <1>2, <2>1, Serialized DEF writeTemp
  <2>. QED  BY <1>2, <2>2 DEF writeTemp, ChallengesFresh
<1>3. CASE renameRelayStateAtomically
  <2>1. process # "down"
    BY <1>3 DEF renameRelayStateAtomically, Lifecycle
  <2>. QED  BY <1>3, <2>1 DEF renameRelayStateAtomically, ChallengesFresh
<1>4. CASE saveGatewayStateToFile
  BY <1>4 DEF saveGatewayStateToFile
<1>5. CASE relaySaveFails
  <2>1. process # "down"
    BY <1>5 DEF relaySaveFails, Lifecycle
  <2>. QED  BY <1>5, <2>1 DEF relaySaveFails, SaveFailed, ChallengesFresh
<1>6. CASE gatewaySaveFails
  BY <1>6 DEF gatewaySaveFails
<1>7. CASE serverClose
  BY <1>7 DEF serverClose, Ends, ChallengesFresh
<1>8. CASE Kill
  BY <1>8 DEF Kill, Ends, ChallengesFresh
<1>9. CASE Request
  BY <1>9, RequestFacts, ChallengeFacts DEF RequestEffect, ChallengeEffect, ChallengesFresh
<1>10. CASE UNCHANGED vars
  BY <1>10 DEF vars, ChallengesFresh
<1>. QED  BY <1>1, <1>2, <1>3, <1>4, <1>5, <1>6, <1>7, <1>8, <1>9, <1>10 DEF Next, Save, SaveFails

\* There is no evidence on disk before the first start.
LEMMA DiskInit == Init => OnDisk(file) = <<>>
BY DemoRelayCreated, NotSentinels DEF Init, OnDisk, trail

\* The invariant holds before the first start.
LEMMA ServerInvInit == Init => ServerInv
<1>. SUFFICES ASSUME Init PROVE ServerInv
  OBVIOUS
<1>0. \/ file = NoState
      \/ service = "relay" /\ file \in Snapshot /\ file.witnessLog = <<>> /\ file.challenges = {}
  BY DemoRelayCreated DEF Init, Snapshot
<1>1. TypeOK
  BY <1>0 DEF Init, TypeOK, EmptyRoot
<1>2. Lifecycle /\ LastSaveCurrent /\ TrailsGrow
  BY DEF Init, Lifecycle, LastSaveCurrent, TrailsGrow
<1>3. OnDisk(file) = <<>> /\ file # Torn
  BY <1>0, NotSentinels DEF OnDisk, trail, Snapshot
<1>4. validateWitnessLog(<<>>)
  BY DEF validateWitnessLog
<1>5. Chained
  BY <1>3, <1>4 DEF Init, Chained
<1>6. ChallengesFresh
  BY <1>0 DEF Init, ChallengesFresh
<1>. QED  BY <1>1, <1>2, <1>5, <1>6 DEF ServerInv

\* Every step keeps the invariant.
LEMMA ServerInvStep == ServerInv /\ [Next]_vars => ServerInv'
BY TypeStep, LifecycleStep, LastSaveStep, TrailsStep, ChainedStep, ChallengesStep DEF ServerInv

\* The invariant holds of every behaviour.
LEMMA ServerInvariant == Spec => []ServerInv
BY ServerInvInit, ServerInvStep, PTL DEF Spec

\* What a step can do to the file.
LEMMA FileStep ==
    ASSUME ServerInv, [Next]_vars
    PROVE  \/ file' = file
           \/ service = "gateway" /\ file' = Torn
           \/ file' \in Snapshot /\ Continues(OnDisk(file'), OnDisk(file))
<1>. TypeOK /\ Lifecycle /\ TrailsGrow
  BY DEF ServerInv
<1>1. CASE renameRelayStateAtomically
  <2>1. process # "down" /\ saving # NoState /\ saving \in Snapshot /\ file' = saving
    BY <1>1 DEF renameRelayStateAtomically, Lifecycle, TypeOK
  <2>2. OnDisk(saving) = trail(saving)
    BY <2>1, TrailType
  <2>. QED  BY <2>1, <2>2 DEF TrailsGrow
<1>2. CASE saveGatewayStateToFile
  <2>1. process # "down" /\ memory \in Snapshot /\ file' = written(memory)
    BY <1>2 DEF saveGatewayStateToFile, Turn, Lifecycle, TypeOK
  <2>2. file' \in Snapshot /\ OnDisk(file') = trail(memory)
    BY <2>1, TrailType
  <2>. QED  BY <2>1, <2>2 DEF TrailsGrow
<1>3. CASE gatewaySaveFails \/ Kill
  BY <1>3 DEF gatewaySaveFails, Kill
<1>4. CASE Request
  BY <1>4, RequestFacts DEF RequestEffect
<1>. QED  BY <1>1, <1>2, <1>3, <1>4 DEF Next, Save, SaveFails, vars, loadOrCreateState, writeTemp, relaySaveFails, serverClose

-----------------------------------------------------------------------------
(* Theorems.                                                               *)

\* The server, its states, its saves and its file keep their types.
THEOREM ServerTypeCorrect == Spec => []TypeOK
BY ServerInvariant, PTL DEF ServerInv

\* createPersistentHttpServer: at no point of a running process is a change in
\* memory left without a save that will write it.
THEOREM ChangesSaved == Spec => []SavedOrPending
<1>1. ServerInv => SavedOrPending
  BY DEF ServerInv, TypeOK, LastSaveCurrent, SavedOrPending
<1>. QED  BY <1>1, ServerInvariant, PTL

\* completePairing: a challenge is completed at most once, through any number
\* of kills and restarts.
THEOREM PairingsOnce == Spec => []ChallengesSpentOnce
<1>1. ServerInv => ChallengesSpentOnce
  BY DEF ServerInv, TypeOK, ChallengesFresh, ChallengesSpentOnce
<1>. QED  BY <1>1, ServerInvariant, PTL

\* loadGatewayStateFromFile: no restart replaces a truncated file.
THEOREM TornFailsClosed == Spec => TornNotReset
<1>1. ServerInv /\ [Next]_vars => [file = Torn /\ process = "down" => UNCHANGED <<file, memory>>]_vars
  <2>. SUFFICES ASSUME ServerInv, [Next]_vars, file = Torn, process = "down" PROVE UNCHANGED <<file, memory>>
    OBVIOUS
  <2>. pending = 0 /\ saving = NoState
    BY DEF ServerInv, Lifecycle
  <2>1. ~loadOrCreateState
    BY NotSentinels DEF loadOrCreateState, loadsStateFromFile
  <2>2. ~Save /\ ~SaveFails
    BY DEF Save, SaveFails, writeTemp, renameRelayStateAtomically, saveGatewayStateToFile, relaySaveFails, gatewaySaveFails, Turn
  <2>3. ~serverClose /\ ~Kill
    BY DEF serverClose, Kill
  <2>4. ~Request
    BY RequestFacts DEF RequestEffect, ServerInv
  <2>. QED  BY <2>1, <2>2, <2>3, <2>4 DEF Next, vars
<1>. QED  BY <1>1, ServerInvariant, PTL DEF Spec, TornNotReset

\* saveRelayStateToFile and saveGatewayStateToFile: no save takes back a
\* checkpoint or a SIEM event that was on disk.
THEOREM EvidenceDurable == Spec => EvidenceKept
<1>1. ServerInv /\ [Next]_vars => [file' # Torn => Continues(OnDisk(file'), OnDisk(file))]_vars
  <2>. SUFFICES ASSUME ServerInv, [Next]_vars, file' # Torn PROVE Continues(OnDisk(file'), OnDisk(file))
    OBVIOUS
  <2>1. CASE file' = file
    BY <2>1, ContinuesSelf
  <2>. QED  BY <2>1, FileStep
<1>. QED  BY <1>1, ServerInvariant, PTL DEF Spec, EvidenceKept

\* The relay implements the abstract witness log: what is on disk is one valid
\* chain of checkpoints that only grows, through failed saves, kills and
\* restarts.
THEOREM RelayImplementsWitnessLog == Spec => DurableLogGrows
<1>. DEFINE disk == IF service = "relay" THEN OnDisk(file) ELSE <<>>
<1>1. Init => Durable!Init
  BY DiskInit DEF Init, Durable!Init
<1>2. ServerInv /\ ServerInv' /\ [Next]_vars => [Durable!Publish]_disk
  <2>. SUFFICES ASSUME ServerInv, ServerInv', [Next]_vars PROVE Durable!Publish \/ disk' = disk
    OBVIOUS
  <2>1. service' = service
    BY ServiceFixed DEF ServerInv
  <2>2. OnDisk(file)' = OnDisk(file')
    BY <2>1 DEF OnDisk, trail
  <2>3. CASE service = "gateway" \/ file' = file
    BY <2>1, <2>2, <2>3
  <2>4. CASE service = "relay" /\ Continues(OnDisk(file'), OnDisk(file))
    <3>1. validateWitnessLog(OnDisk(file'))
      BY <2>1, <2>2, <2>4 DEF ServerInv, Chained
    <3>2. disk' = OnDisk(file') /\ disk = OnDisk(file)
      BY <2>1, <2>2, <2>4
    <3>. QED  BY <2>4, <3>1, <3>2 DEF Durable!Publish, Durable!validateWitnessLog, Durable!Continues, Durable!EmptyRoot,
                 validateWitnessLog, Continues, EmptyRoot
  <2>5. service \in {"relay", "gateway"}
    BY ServicesAssumption DEF ServerInv, TypeOK
  <2>. QED  BY <2>3, <2>4, <2>5, FileStep
<1>. QED  BY <1>1, <1>2, ServerInvariant, PTL DEF Spec, DurableLogGrows, Durable!Spec
-----------------------------------------------------------------------------
(* Forks.  A hash is drawn once, so along every copy of the log the hashes  *)
(* grow and stay below the next one to be drawn.                           *)

HashesGrow(w, n) == \A i \in 1..Len(w) : w[i].hash < n /\ \A j \in 1..i - 1 : w[j].hash < w[i].hash

HashesFresh ==
    service = "relay" => /\ HashesGrow(OnDisk(file), nextId)
                         /\ saving # NoState => HashesGrow(saving.witnessLog, nextId)
                         /\ process # "down" => HashesGrow(memory.witnessLog, nextId)

\* What a request does to the log in memory and to what has been answered.
LogEffect ==
    \/ memory'.witnessLog = memory.witnessLog /\ answered' = answered /\ nextId' \in {nextId, nextId + 1}
    \/ \E c \in Checkpoint : /\ memory'.witnessLog = Append(memory.witnessLog, c)
                             /\ c.hash = nextId /\ c.prev = lastHash(memory.witnessLog)
                             /\ answered' = answered \cup {c}
                             /\ nextId' = nextId + 1

\* Only a checkpoint request adds to the log, and it answers what it adds.
LEMMA LogFacts ==
    ASSUME TypeOK, Request, service = "relay"
    PROVE  LogEffect
<1>1. ASSUME NEW k \in Keys, PairingChallenge(k) PROVE LogEffect
  <2>1. Serves("relay") /\ memory' = createPairingChallenge(memory, nextId, k) /\ nextId' = nextId + 1
        /\ answered' = answered
    BY <1>1 DEF PairingChallenge
  <2>2. memory'.witnessLog = memory.witnessLog
    BY <2>1, RelayServes, Challenged DEF TypeOK
  <2>. QED  BY <2>1, <2>2 DEF LogEffect
<1>2. ASSUME ChallengeExpires PROVE LogEffect
  <2>1. PICK c \in memory.challenges : memory' = expireChallenge(memory, c)
    BY <1>2 DEF ChallengeExpires
  <2>2. process # "down" /\ answered' = answered /\ nextId' = nextId
    BY <1>2 DEF ChallengeExpires
  <2>3. memory'.witnessLog = memory.witnessLog
    BY <2>1, <2>2, RelayServes, Expired
  <2>. QED  BY <2>2, <2>3 DEF LogEffect
<1>3. ASSUME PairingComplete PROVE LogEffect
  <2>1. PICK c \in memory.challenges : memory' = completePairing(memory, c)
    BY <1>3 DEF PairingComplete
  <2>2. Serves("relay") /\ answered' = answered /\ nextId' = nextId
    BY <1>3 DEF PairingComplete
  <2>3. memory'.witnessLog = memory.witnessLog
    BY <2>1, <2>2, RelayServes, Completed
  <2>. QED  BY <2>2, <2>3 DEF LogEffect
<1>4. ASSUME NEW r \in RecordIds, NEW h \in Payloads, RelayPush(r, h) PROVE LogEffect
  <2>1. Serves("relay") /\ memory' = pushRelayRecord(memory, r, h) /\ answered' = answered /\ nextId' = nextId
    BY <1>4 DEF RelayPush
  <2>2. memory'.witnessLog = memory.witnessLog
    BY <2>1, RelayServes, Pushed
  <2>. QED  BY <2>1, <2>2 DEF LogEffect
<1>5. ASSUME WitnessCheckpoint PROVE LogEffect
  <2>. DEFINE w == memory.witnessLog
  <2>1. Serves("relay") /\ nextId' = nextId + 1
    BY <1>5 DEF WitnessCheckpoint
  <2>2. memory \in RelayState /\ w \in Seq(Checkpoint)
    BY <2>1, RelayServes DEF RelayState
  <2>3. PICK epoch \in 0..MaxEpoch \cup {nextEpoch(w)} :
            /\ memory' = [memory EXCEPT !.witnessLog = Append(@, createWitnessCheckpoint(w, nextId, epoch))]
            /\ answered' = answered \cup {createWitnessCheckpoint(w, nextId, epoch)}
    BY <1>5 DEF WitnessCheckpoint
  <2>. DEFINE c == createWitnessCheckpoint(w, nextId, epoch)
  <2>4. c.hash = nextId /\ c.prev = lastHash(w)
    BY DEF createWitnessCheckpoint
  <2>5. answered' \subseteq Checkpoint
    BY RequestFacts DEF RequestEffect
  <2>6. c \in Checkpoint /\ answered' = answered \cup {c}
    BY <2>3, <2>5
  <2>. HIDE DEF c
  <2>7. memory'.witnessLog = Append(w, c)
    BY <2>2, <2>3, <2>6, Witnessed DEF c
  <2>. QED  BY <2>1, <2>4, <2>6, <2>7 DEF LogEffect
<1>6. ~(\E q \in Policies : PutPolicy(q)) /\ ~(\E of \in {"evaluation", "decision"} : GatewayEvent(of))
  BY DEF PutPolicy, GatewayEvent, Serves
<1>. QED  BY <1>1, <1>2, <1>3, <1>4, <1>5, <1>6 DEF Request

\* The hashes still grow after a fresh one, and below a larger bound.
LEMMA HashesAppend ==
    ASSUME NEW w \in Seq(Checkpoint), NEW n \in Nat, HashesGrow(w, n)
    PROVE  /\ HashesGrow(w, n + 1)
           /\ \A c \in Checkpoint : c.hash = n => HashesGrow(Append(w, c), n + 1)
<1>1. \A i \in 1..Len(w) : w[i].hash \in Nat /\ w[i].hash < n
  <2>1. \A c \in Checkpoint : c.hash \in Nat
    BY DEF Checkpoint
  <2>2. \A i \in 1..Len(w) : w[i] \in Checkpoint
    OBVIOUS
  <2>. QED  BY <2>1, <2>2 DEF HashesGrow
<1>2. HashesGrow(w, n + 1)
  BY <1>1 DEF HashesGrow
<1>3. ASSUME NEW c \in Checkpoint, c.hash = n PROVE HashesGrow(Append(w, c), n + 1)
  <2>. DEFINE a == Append(w, c)
  <2>1. /\ Len(a) = Len(w) + 1 /\ Len(w) \in Nat
        /\ \A i \in 1..Len(w) : a[i] = w[i]
        /\ a[Len(w) + 1] = c
    BY AppendProperties
  <2>. HIDE DEF a
  <2>2. ASSUME NEW i \in 1..Len(a)
        PROVE  a[i].hash < n + 1 /\ \A j \in 1..i - 1 : a[j].hash < a[i].hash
    <3>1. CASE i \in 1..Len(w)
      <4>1. \A j \in 1..i - 1 : j \in 1..Len(w)
        BY <2>1, <3>1
      <4>. QED  BY <1>1, <2>1, <3>1, <4>1 DEF HashesGrow
    <3>2. CASE i = Len(w) + 1
      <4>1. a[i] = c /\ \A j \in 1..i - 1 : j \in 1..Len(w)
        BY <2>1, <3>2
      <4>. QED  BY <1>1, <1>3, <2>1, <4>1
    <3>. QED  BY <2>1, <3>1, <3>2
  <2>. QED  BY <2>2 DEF HashesGrow, a
<1>. QED  BY <1>2, <1>3

\* Every step keeps the hashes fresh.
LEMMA HashesStep == ASSUME ServerInv, HashesFresh, [Next]_vars PROVE HashesFresh'
<1>. TypeOK /\ Lifecycle /\ Chained /\ ChallengesFresh
  BY DEF ServerInv
<1>. SUFFICES ASSUME service = "relay" PROVE HashesFresh'
  BY ServiceFixed DEF HashesFresh
<1>. service' = service
  BY ServiceFixed
<1>. DEFINE Valid(p, m, v, f, n) == /\ HashesGrow(OnDisk(f), n)
                                    /\ v # NoState => HashesGrow(v.witnessLog, n)
                                    /\ p # "down" => HashesGrow(m.witnessLog, n)
<1>. OnDisk(file)' = OnDisk(file')
  BY DEF OnDisk, trail
<1>. SUFFICES Valid(process', memory', saving', file', nextId')
  BY DEF HashesFresh
<1>. Valid(process, memory, saving, file, nextId)
  BY DEF HashesFresh
<1>. Snapshot = RelayState /\ \A s : trail(s) = s.witnessLog
  BY DEF Snapshot, trail
<1>1. CASE loadOrCreateState
  <2>1. UNCHANGED <<saving, file, nextId>>
    BY <1>1 DEF loadOrCreateState
  <2>2. CASE file = NoState /\ memory' = createState
    <3>1. memory'.witnessLog = <<>>
      BY <2>2, RelayCreated DEF createState
    <3>. QED  BY <2>1, <3>1 DEF HashesGrow
  <2>3. CASE loadsStateFromFile(file) /\ memory' = file
    <3>1. file \in Snapshot
      BY <2>3 DEF loadsStateFromFile, TypeOK
    <3>2. OnDisk(file) = file.witnessLog
      BY <3>1, TrailType
    <3>. QED  BY <2>1, <2>3, <3>2
  <2>. QED  BY <1>1, <2>2, <2>3 DEF loadOrCreateState
<1>2. CASE writeTemp
  <2>1. process # "down" /\ memory \in Snapshot
    BY <1>2 DEF writeTemp, Turn, Lifecycle, TypeOK
  <2>2. saving'.witnessLog = memory.witnessLog
    BY <1>2, <2>1, TrailType DEF writeTemp
  <2>. QED  BY <1>2, <2>1, <2>2 DEF writeTemp
<1>3. CASE renameRelayStateAtomically
  <2>1. process # "down" /\ saving # NoState /\ saving \in Snapshot
    BY <1>3 DEF renameRelayStateAtomically, Lifecycle, TypeOK
  <2>2. OnDisk(saving) = saving.witnessLog
    BY <2>1, TrailType
  <2>. QED  BY <1>3, <2>1, <2>2 DEF renameRelayStateAtomically
<1>4. CASE saveGatewayStateToFile \/ gatewaySaveFails
  BY <1>4 DEF saveGatewayStateToFile, gatewaySaveFails
<1>5. CASE relaySaveFails
  <2>1. process # "down"
    BY <1>5 DEF relaySaveFails, Lifecycle
  <2>. QED  BY <1>5, <2>1 DEF relaySaveFails, SaveFailed
<1>6. CASE serverClose
  BY <1>6 DEF serverClose, Ends
<1>7. CASE Kill
  BY <1>7 DEF Kill, Ends
<1>8. CASE Request
  <2>1. process # "down" /\ memory \in RelayState /\ UNCHANGED <<process, saving, file>>
    BY <1>8, RequestFacts DEF RequestEffect
  <2>2. LogEffect
    BY <1>8, LogFacts
  <2>3. nextId \in Nat /\ memory.witnessLog \in Seq(Checkpoint)
    BY <2>1 DEF TypeOK, RelayState
  <2>4. OnDisk(file) \in Seq(Checkpoint)
    <3>1. CASE file \in {NoState, Torn}
      BY <3>1 DEF OnDisk
    <3>2. CASE file \in RelayState
      BY <3>2, TrailType DEF RelayState
    <3>. QED  BY <3>1, <3>2 DEF TypeOK
  <2>5. saving # NoState => saving.witnessLog \in Seq(Checkpoint)
    BY DEF TypeOK, RelayState
  <2>6. nextId' \in {nextId, nextId + 1} /\ HashesGrow(memory'.witnessLog, nextId')
    BY <2>1, <2>2, <2>3, HashesAppend DEF LogEffect
  <2>7. HashesGrow(OnDisk(file), nextId')
    BY <2>3, <2>4, <2>6, HashesAppend
  <2>8. saving # NoState => HashesGrow(saving.witnessLog, nextId')
    BY <2>3, <2>5, <2>6, HashesAppend
  <2>. QED  BY <2>1, <2>6, <2>7, <2>8
<1>9. CASE UNCHANGED vars
  BY <1>9 DEF vars
<1>. HIDE DEF Valid
<1>. QED  BY <1>1, <1>2, <1>3, <1>4, <1>5, <1>6, <1>7, <1>8, <1>9 DEF Next, Save, SaveFails

\* No hash has been drawn at the start.
LEMMA HashesInit == Init => HashesFresh
<1>. SUFFICES ASSUME Init PROVE HashesFresh
  OBVIOUS
<1>1. OnDisk(file) = <<>> /\ saving = NoState /\ process = "down"
  BY DiskInit DEF Init
<1>. QED  BY <1>1 DEF HashesFresh, HashesGrow

\* Only a request answers a checkpoint.
LEMMA AnswerStep ==
    ASSUME TypeOK, [Next]_vars
    PROVE  answered' = answered \/ (Request /\ service = "relay")
<1>1. CASE Request /\ service # "relay"
  <2>1. ~(\E k \in Keys : PairingChallenge(k)) /\ ~ChallengeExpires /\ ~PairingComplete
        /\ ~(\E r \in RecordIds, h \in Payloads : RelayPush(r, h)) /\ ~WitnessCheckpoint
    BY <1>1 DEF PairingChallenge, ChallengeExpires, PairingComplete, RelayPush, WitnessCheckpoint, Serves
  <2>. QED  BY <1>1, <2>1 DEF Request, PutPolicy, GatewayEvent
<1>2. CASE ~Request
  BY <1>2 DEF Next, Save, SaveFails, vars, loadOrCreateState, writeTemp, renameRelayStateAtomically,
     saveGatewayStateToFile, relaySaveFails, gatewaySaveFails, serverClose, Kill
<1>. QED  BY <1>1, <1>2

\* POST /witness/checkpoint and saveRelayStateToFile: through any kills and
\* restarts, no checkpoint that is answered forks one that has been saved.
THEOREM SavedCheckpointsNeverForked == Spec => SavedNeverForked
<1>. DEFINE Unforked == \A c \in answered' \ answered :
                          \A i \in 1..Len(OnDisk(file)) : OnDisk(file)[i].prev # c.prev
<1>1. ServerInv /\ HashesFresh /\ [Next]_vars => Unforked
  <2>. SUFFICES ASSUME ServerInv, HashesFresh, [Next]_vars,
                       NEW c \in answered' \ answered, NEW i \in 1..Len(OnDisk(file))
                PROVE  OnDisk(file)[i].prev # c.prev
    OBVIOUS
  <2>. DEFINE d == OnDisk(file)
              m == memory.witnessLog
  <2>1. TypeOK /\ TrailsGrow /\ Chained
    BY DEF ServerInv
  <2>2. Request /\ service = "relay"
    BY <2>1, AnswerStep
  <2>3. c.prev = lastHash(m)
    BY <2>1, <2>2, LogFacts DEF LogEffect
  <2>4. process # "down" /\ memory \in RelayState
    BY <2>1, <2>2, RequestFacts DEF RequestEffect, Snapshot
  <2>5. m \in Seq(Checkpoint) /\ HashesGrow(m, nextId) /\ validateWitnessLog(m)
    BY <2>1, <2>2, <2>4 DEF RelayState, HashesFresh, Chained
  <2>6. Continues(m, d)
    BY <2>1, <2>2, <2>4 DEF TrailsGrow, trail
  <2>7. \E S : d \in Seq(S)
    <3>1. CASE file \in {NoState, Torn}
      BY <3>1 DEF OnDisk
    <3>2. CASE file \in Snapshot
      BY <2>1, <3>2, TrailType
    <3>. QED  BY <2>1, <3>1, <3>2 DEF TypeOK
  <2>. HIDE DEF d, m
  <2>8. Len(d) \in Nat /\ Len(m) \in Nat /\ i \in 1..Len(m) /\ d[i] = m[i] /\ m # <<>>
    BY <2>5, <2>6, <2>7 DEF Continues, d
  <2>9. lastHash(m) = m[Len(m)].hash /\ Len(m) \in 1..Len(m)
    BY <2>8 DEF lastHash
  <2>10. \A k \in 1..Len(m) : m[k].hash \in Nat /\ m[k].hash # EmptyRoot
    <3>1. \A x \in Checkpoint : x.hash \in Nat /\ x.hash # EmptyRoot
      BY DEF Checkpoint
    <3>2. \A k \in 1..Len(m) : m[k] \in Checkpoint
      BY <2>5
    <3>. QED  BY <3>1, <3>2
  <2>11. CASE i = 1
    <3>1. m[i].prev = EmptyRoot
      BY <2>5, <2>8, <2>11 DEF validateWitnessLog
    <3>. QED  BY <2>3, <2>8, <2>9, <2>10, <3>1 DEF d
  <2>12. CASE i > 1
    <3>1. m[i].prev = m[i - 1].hash /\ i - 1 \in 1..Len(m) - 1
      BY <2>5, <2>8, <2>12 DEF validateWitnessLog
    <3>2. m[i - 1].hash < m[Len(m)].hash
      BY <2>5, <2>9, <3>1 DEF HashesGrow
    <3>3. m[i - 1].hash \in Nat /\ m[Len(m)].hash \in Nat
      BY <2>8, <2>9, <2>10, <3>1
    <3>. QED  BY <2>3, <2>8, <2>9, <3>1, <3>2, <3>3 DEF d
  <2>. QED  BY <2>8, <2>11, <2>12
<1>2. ServerInv /\ HashesFresh /\ [Next]_vars => HashesFresh'
  BY HashesStep
<1>3. Spec => []HashesFresh
  BY <1>2, HashesInit, ServerInvariant, PTL DEF Spec
<1>4. ServerInv /\ HashesFresh /\ [Next]_vars => [Unforked]_vars
  BY <1>1
<1>. QED  BY <1>3, <1>4, ServerInvariant, PTL DEF Spec, SavedNeverForked
=============================================================================
