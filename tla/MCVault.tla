------------------------------- MODULE MCVault -------------------------------
(* The vault on small instances.  Memory ids are interchangeable, and so    *)
(* are contents: no guard compares them but for equality.                   *)
EXTENDS Vault, TLC

Symmetry == Permutations(MemoryIds) \cup Permutations(Contents)
=============================================================================
