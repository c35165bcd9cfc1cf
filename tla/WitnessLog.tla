----------------------------- MODULE WitnessLog -----------------------------
(***************************************************************************)
(* What a witness promises: one log of signed checkpoints that only grows, *)
(* in which each checkpoint names the hash of the one before it and has a  *)
(* larger epoch.  It may grow by several checkpoints at once: what can be  *)
(* relied on is what has reached the disk, and one save carries every      *)
(* checkpoint signed since the save before.                                *)
(***************************************************************************)
EXTENDS WitnessChain

VARIABLE log

Init == log = <<>>

Publish == validateWitnessLog(log') /\ Continues(log', log)

Spec == Init /\ [][Publish]_log
=============================================================================
