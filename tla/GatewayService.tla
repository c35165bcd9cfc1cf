--------------------------- MODULE GatewayService ---------------------------
(***************************************************************************)
(* The state of the gateway and what its handlers do to it                 *)
(* (apps/gateway/src/server.mjs).  An evaluation and a decision are made   *)
(* under the policy in force and leave one SIEM event that names it.  What *)
(* the policy decides about a request is a pure function and is left out.  *)
(***************************************************************************)
EXTENDS Sequences

CONSTANTS Policies,      \* enterprise policies that validateGatewayPolicy accepts
          defaultPolicy  \* the one a new gateway starts with

ASSUME PolicyAssumption == defaultPolicy \in Policies

SiemEvent == [of : {"evaluation", "decision"}, policy_hash : Policies]

GatewayState == [schema : {"gateway"}, policy : Policies, siem_events : Seq(SiemEvent)]

createGatewayState == [schema |-> "gateway", policy |-> defaultPolicy, siem_events |-> <<>>]

putPolicy(s, p) == [s EXCEPT !.policy = p]

appendSiemEvent(s, of) == [s EXCEPT !.siem_events = Append(@, [of |-> of, policy_hash |-> s.policy])]
=============================================================================
