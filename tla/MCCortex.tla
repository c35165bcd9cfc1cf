------------------------------ MODULE MCCortex ------------------------------
(***************************************************************************)
(* Instances of Cortex for TLC.                                            *)
(***************************************************************************)
EXTENDS Cortex, SequencesExt

CONSTANT MaxAccounts  \* bound: accounts on the ledger

\* A session with every bit, as the documents' node uses.
MCScopes == {Bits}

\* The daily limits allow two spends of the largest amount of a transaction.
MCLimits == {[max_spend_per_tx |-> 1, max_spend_per_day |-> 2, max_ops_per_day |-> 2]}

\* No instruction tells one owner from another.
MCSymmetry == Permutations(Owners)

\* A ledger with that many accounts is not extended any further.  The vault of
\* a token budget counts while it holds tokens.
Accounts == <<DOMAIN capabilities, DOMAIN sessions, DOMAIN ownerNonce, DOMAIN budgets,
              DOMAIN tokenBudgets, {b \in DOMAIN vault : vault[b] > 0}, DOMAIN receipts,
              DOMAIN memories>>

SmallLedger == FoldSeq(LAMBDA kind, n : Cardinality(kind) + n, 0, Accounts) <= MaxAccounts
=============================================================================
