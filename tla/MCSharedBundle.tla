-------------------------- MODULE MCSharedBundle --------------------------
(* Instances of SharedBundle for TLC. *)
EXTENDS SharedBundle, TLC

\* Processes, memory ids and contents are interchangeable.
Symmetry == Permutations(Procs) \cup Permutations(MemoryIds) \cup Permutations(Contents)
=============================================================================
