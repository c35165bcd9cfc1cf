---------------------------- MODULE RelayService ----------------------------
(***************************************************************************)
(* The state of the relay and what its handlers do to it                   *)
(* (apps/relay/src/server.mjs, packages/mesh/src/index.js).  A record      *)
(* keeps the hash of an encrypted payload.  A client pairs by completing a *)
(* challenge with its key, and names its pairing in every later request.   *)
(* Signatures are taken as unforgeable.                                    *)
(***************************************************************************)
EXTENDS WitnessChain

CONSTANTS Keys,       \* public keys of the clients
          RecordIds,  \* ids of relay records
          Payloads    \* hashes of encrypted payloads

ASSUME PayloadAssumption == "none" \notin Payloads

NoPayload == "none"

Challenge == [id : Nat, publicKey : Keys, expired : BOOLEAN]
Pairing == [challenge : Nat, publicKey : Keys]

RelayState == [schema : {"relay"}, records : [RecordIds -> Payloads \cup {NoPayload}],
               witnessLog : Seq(Checkpoint), pairings : SUBSET Pairing, challenges : SUBSET Challenge,
               allowUnauthenticated : BOOLEAN]

createRelayState == [schema |-> "relay", records |-> [r \in RecordIds |-> NoPayload],
                     witnessLog |-> <<>>, pairings |-> {}, challenges |-> {},
                     allowUnauthenticated |-> FALSE]

\* What a caller of createRelayState gets who asks for the local demo; the CLI
\* never does, but a state file made this way is loaded like any other.
createDemoRelayState == [createRelayState EXCEPT !.allowUnauthenticated = TRUE]

\* The snapshot that is written: challenges are not part of it.
serializeRelayStateAll(s) == s
serializeRelayState(s) == [s EXCEPT !.challenges = {}]

\* What hydrateRelayState accepts; it throws on any other snapshot.
hydrateRelayState(s) == validateWitnessLog(s.witnessLog)

createPairingChallenge(s, id, k) ==
    [s EXCEPT !.challenges = @ \cup {[id |-> id, publicKey |-> k, expired |-> FALSE]}]

\* The time to live of a challenge has passed.
expireChallenge(s, c) == [s EXCEPT !.challenges = (@ \ {c}) \cup {[c EXCEPT !.expired = TRUE]}]

completePairing(s, c) == [s EXCEPT !.pairings = @ \cup {[challenge |-> c.id, publicKey |-> c.publicKey]},
                                   !.challenges = @ \ {c}]

pushRelayRecord(s, r, p) == [s EXCEPT !.records[r] = p]

\* The handler's check of the epoch against the last one.
acceptsEpochEqual(w, epoch) == w # <<>> => epoch >= w[Len(w)].epoch
acceptsEpoch(w, epoch) == w # <<>> => epoch > w[Len(w)].epoch

\* Mutant: the previous hash is the first checkpoint's instead of the last one's.
createWitnessCheckpointFirst(w, hash, epoch) ==
    [hash |-> hash, prev |-> IF w = <<>> THEN EmptyRoot ELSE w[1].hash, epoch |-> epoch]

createWitnessCheckpoint(w, hash, epoch) == [hash |-> hash, prev |-> lastHash(w), epoch |-> epoch]
=============================================================================
