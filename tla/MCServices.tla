----------------------------- MODULE MCServices -----------------------------
(***************************************************************************)
(* PersistentServer with one client, one record and two payloads, or with  *)
(* two policies.                                                           *)
(***************************************************************************)
EXTENDS PersistentServer

CONSTANTS k1, r1, h1, h2, permissive, strict
=============================================================================
