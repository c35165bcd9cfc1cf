---------------------------- MODULE MCGovernance ----------------------------
(* Instances of CortexGovernance for TLC. *)
EXTENDS CortexGovernance, TLC

Symmetry == Permutations(Users) \cup Permutations(Mints) \cup Permutations(Nonces)
=============================================================================
