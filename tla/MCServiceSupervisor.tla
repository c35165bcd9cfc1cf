------------------------- MODULE MCServiceSupervisor -------------------------
(***************************************************************************)
(* ServiceSupervisor with two calls of start, two restarts and two stops,  *)
(* all of which may overlap.                                               *)
(***************************************************************************)
EXTENDS ServiceSupervisor

CONSTANTS first, second, stop1, stop2
=============================================================================
