------------------------------- MODULE Cortex -------------------------------
(***************************************************************************)
(* The session-wallet programs of cortex-v3 on one ledger: any owner and   *)
(* any session key submit instructions of capability_registry,             *)
(* budget_escrow, royalty_router and memory_registry in any order, and the *)
(* clock advances between them.                                            *)
(*                                                                         *)
(* Next has every instruction that can succeed.  FullNext adds the four    *)
(* that derive an address from a bump that was never stored: revoke,       *)
(* update_memory, set_shareable and delete_memory.  CortexProofs shows     *)
(* that FullSpec and Spec have the same behaviours.                        *)
(***************************************************************************)
EXTENDS RoyaltyRouter, MemoryRegistry, FiniteSetsExt

vars == <<registryVars, escrowVars, receipts, memories>>

TypeOK == RegistryTypeOK /\ EscrowTypeOK /\ RouterTypeOK /\ MemoryTypeOK

Init == RegistryInit /\ EscrowInit /\ RouterInit /\ MemoryInit

Registry == /\ Tick \/ CapabilityStep \/ OwnerStep
            /\ UNCHANGED <<escrowVars, receipts, memories>>

Escrow == (EscrowStep \/ TokenStep) /\ UNCHANGED <<receipts, memories>>

Router == RouterStep /\ UNCHANGED memories

Memories == MemoryStep /\ UNCHANGED <<escrowVars, receipts>>

Next == Registry \/ Escrow \/ Router \/ Memories

Spec == Init /\ [][Next]_vars

Unaddressable == \/ RevokeStep /\ UNCHANGED <<escrowVars, receipts, memories>>
                 \/ OwnerMemoryStep /\ UNCHANGED <<escrowVars, receipts>>

FullNext == Next \/ Unaddressable

FullSpec == Init /\ [][FullNext]_vars

-----------------------------------------------------------------------------

\* The number of delegated instructions a session has run so far.
used(u, a) == IF a \in DOMAIN u THEN Len(u[a]) ELSE 0

\* Only a session its owner created, and neither revoked nor paused since, runs
\* a delegated instruction, whatever was closed, created again or paused before.
OnlyAuthorisedAct ==
    [][\A a \in DOMAIN uses' : used(uses', a) > used(uses, a) => a \in authorised]_vars

\* What is left in a budget and what was spent from it, by the owner, by sessions
\* and by the router's calls, add up to what was put in.
BudgetConserved == \A o \in DOMAIN budgets : budgets[o].balance + budgets[o].spent = funded[o]

\* The balance of a token budget is backed by the tokens in its vault, so a
\* spend within the balance never fails in the token program.
TokensBacked == \A b \in DOMAIN tokenBudgets : tokenBudgets[b].balance <= vault[b]

\* The step takes from the budget of a's owner at most what the session a may
\* spend in one transaction, and nothing from any other budget.
BudgetWithin(a) ==
    \A o \in DOMAIN budgets :
      IF o = a.owner
      THEN budgets[o].balance - budgets'[o].balance <= sessions[a].limits.max_spend_per_tx
      ELSE budgets'[o] = budgets[o]

\* The step neither makes, changes nor removes an entry of another owner.
EntriesWithin(a) ==
    \A e \in DOMAIN memories \cup DOMAIN memories' :
      e.owner # a.owner => /\ e \in DOMAIN memories \cap DOMAIN memories'
                           /\ memories'[e] = memories[e]

\* A delegated instruction reaches the accounts of the session's owner only, and
\* takes from the budget at most what the session may spend in one transaction.
DelegationBounded ==
    [][\A a \in DOMAIN uses :
         used(uses', a) > used(uses, a) => BudgetWithin(a) /\ EntriesWithin(a)]_vars

-----------------------------------------------------------------------------
(* What the design documents say of these programs.                        *)

\* The delegated instructions a session ran in the window it was created in,
\* up to the i-th.
inFirstWindow(a, i) == {j \in 1 .. i : uses[a][j].at < sessions[a].window_start + DAY}

\* The daily limits bound the spending and the instructions of a session in a
\* window of one day.
DailyLimitsHold ==
    \A a \in DOMAIN sessions : \A i \in 1 .. Len(uses[a]) :
        LET window == inFirstWindow(a, i)
        IN  i \in window =>
              /\ MapThenSumSet(LAMBDA j : uses[a][j].amount, window)
                   <= uses[a][i].limits.max_spend_per_day
              /\ Cardinality(window) <= uses[a][i].limits.max_ops_per_day
=============================================================================
