---------------------------- MODULE WitnessChain ----------------------------
(***************************************************************************)
(* Witness checkpoints (packages/mesh/src/index.js) and the chain they     *)
(* form (apps/relay/src/server.mjs).  A hash is a number drawn once for    *)
(* one checkpoint: SHA-256 is taken as collision free, and the time of     *)
(* issue tells two checkpoints apart.  The roots a checkpoint attests to   *)
(* do not matter to the chain and are left out.                            *)
(***************************************************************************)
EXTENDS Integers, Sequences

\* EMPTY_MERKLE_ROOT, the predecessor of the first checkpoint.
EmptyRoot == 0

Checkpoint == [hash : Nat \ {EmptyRoot}, prev : Nat, epoch : Nat]

lastHash(w) == IF w = <<>> THEN EmptyRoot ELSE w[Len(w)].hash

\* Without an epoch of the client's: one more than the last, or zero.
nextEpoch(w) == IF w = <<>> THEN 0 ELSE w[Len(w)].epoch + 1

\* Every link and every epoch of a log.
validateWitnessLog(w) ==
    \A i \in 1..Len(w) : /\ w[i].prev = IF i = 1 THEN EmptyRoot ELSE w[i - 1].hash
                         /\ i > 1 => w[i].epoch > w[i - 1].epoch

\* w is v, perhaps with more checkpoints after it.
Continues(w, v) == Len(v) =< Len(w) /\ \A i \in 1..Len(v) : w[i] = v[i]
=============================================================================
