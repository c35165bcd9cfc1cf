--------------------------- MODULE RoyaltyRouter ---------------------------
(***************************************************************************)
(* The royalty_router program: receipts for royalties, which the two       *)
(* routing instructions pay out of the payer's budget by calling           *)
(* budget_escrow.  A receipt lies at payer, payee and content hash, so a   *)
(* later royalty for the same content replaces the earlier receipt.        *)
(***************************************************************************)
EXTENDS BudgetEscrow

CONSTANTS Payees,  \* wallets that royalties are paid to
          Works    \* content hashes royalties are paid for, up to the 8 bytes addresses use

VARIABLES receipts  \* Receipt accounts: their amount

ReceiptAddress == [payer : Owners, payee : Payees, content_hash : Works]

RouterTypeOK == /\ DOMAIN receipts \subseteq ReceiptAddress
                /\ \A r \in DOMAIN receipts : receipts[r] \in Nat

RouterInit == receipts = [r \in {} |-> 0]

write_receipt(r, amount) == receipts' = put(receipts, r, amount)

\* No payment is made here.
register_receipt(r, amount) ==
    /\ write_receipt(r, amount)
    /\ UNCHANGED <<registryVars, escrowVars>>

route_royalty(r, amount) ==
    /\ spend_budget(r.payer, amount)
    /\ write_receipt(r, amount)
    /\ UNCHANGED <<registryVars, tokenVars>>

\* The router's own check of the session, then the one of the called program.
route_royalty_with_session(a, r, amount) ==
    /\ r.payer = a.owner
    /\ delegable(a, "ROYALTY_ROUTE")
    /\ session_spend(a, amount)
    /\ write_receipt(r, amount)
    /\ UNCHANGED tokenVars

RouterStep == \/ \E r \in ReceiptAddress, x \in Amounts : register_receipt(r, x)
              \/ \E r \in ReceiptAddress, x \in Amounts : route_royalty(r, x)
              \/ \E a \in DOMAIN sessions, r \in ReceiptAddress, x \in Amounts :
                    route_royalty_with_session(a, r, x)

============================================================================
