--------------------------- MODULE BudgetEscrow ---------------------------
(***************************************************************************)
(* The budget_escrow program: an owner's SOL budget, which is a pair of    *)
(* counters, and token budgets, whose balance mirrors the tokens of a      *)
(* vault.  Both are also reachable through a session.                      *)
(*                                                                         *)
(* Left out: token decimals and the two token program variants, which      *)
(* differ in no check made here; mints that take a fee on transfer.        *)
(***************************************************************************)
EXTENDS CapabilityRegistry

CONSTANTS Mints,        \* token mints
          InitialTokens \* tokens of each wallet at the start

VARIABLES budgets,       \* Budget accounts
          funded,        \* history: what create_budget and deposit put into each budget
          tokenBudgets,  \* TokenBudget accounts
          vault,         \* tokens held for each token budget
          wallet         \* tokens held by owners and session keys

budgetVars == <<budgets, funded>>
tokenVars == <<tokenBudgets, vault, wallet>>
escrowVars == <<budgets, funded, tokenBudgets, vault, wallet>>

ASSUME EscrowAssumption == /\ InitialTokens \in 0 .. U64Max
                           /\ Owners \cap Keys = {}

Counters == [balance : 0 .. U64Max, spent : 0 .. U64Max]
Holders == (Owners \cup Keys) \X Mints

EscrowTypeOK ==
    /\ DOMAIN budgets \subseteq Owners
    /\ \A o \in DOMAIN budgets : budgets[o] \in Counters
    /\ funded \in [Owners -> Nat]
    /\ DOMAIN tokenBudgets \subseteq Owners \X Mints
    /\ \A b \in DOMAIN tokenBudgets : tokenBudgets[b] \in Counters
    /\ vault \in [Owners \X Mints -> Nat]
    /\ wallet \in [Holders -> Nat]

EscrowInit ==
    /\ budgets = [o \in {} |-> 0]
    /\ funded = [o \in Owners |-> 0]
    /\ tokenBudgets = [b \in {} |-> 0]
    /\ vault = [b \in Owners \X Mints |-> 0]
    /\ wallet = [h \in Holders |-> InitialTokens]

-----------------------------------------------------------------------------
(* SOL budgets.                                                            *)

\* init_if_needed: a second create_budget starts the counters again.
create_budget(o, amount) ==
    /\ budgets' = put(budgets, o, [balance |-> amount, spent |-> 0])
    /\ funded' = [funded EXCEPT ![o] = amount]
    /\ UNCHANGED <<registryVars, tokenVars>>

\* Mutant: an addition that is not checked for overflow.
depositUnchecked(o, amount) ==
    /\ o \in DOMAIN budgets
    /\ budgets' = [budgets EXCEPT ![o].balance = @ + amount]
    /\ funded' = [funded EXCEPT ![o] = @ + amount]
    /\ UNCHANGED <<registryVars, tokenVars>>

deposit(o, amount) ==
    /\ o \in DOMAIN budgets
    /\ budgets[o].balance + amount <= U64Max
    /\ budgets' = [budgets EXCEPT ![o].balance = @ + amount]
    /\ funded' = [funded EXCEPT ![o] = @ + amount]
    /\ UNCHANGED <<registryVars, tokenVars>>

\* Mutant: the balance is not taken down.
spend_budgetKeepsBalance(o, amount) ==
    /\ o \in DOMAIN budgets
    /\ budgets[o].balance >= amount
    /\ budgets[o].spent + amount <= U64Max
    /\ budgets' = [budgets EXCEPT ![o].spent = @ + amount]
    /\ UNCHANGED funded

spend_budget(o, amount) ==
    /\ o \in DOMAIN budgets
    /\ budgets[o].balance >= amount
    /\ budgets[o].spent + amount <= U64Max
    /\ budgets' = [budgets EXCEPT ![o].balance = @ - amount, ![o].spent = @ + amount]
    /\ UNCHANGED funded

spend(o, amount) ==
    /\ spend_budget(o, amount)
    /\ UNCHANGED <<registryVars, tokenVars>>

\* The session and budget accounts of spend_with_session.
session_spend(a, amount) ==
    LET touched == touch_session(sessions[a])
    IN  /\ delegable(a, "BUDGET_SPEND")
        /\ check_spend(touched, amount)
        /\ delegate("budget_escrow", a, record_spend(touched, amount), amount)
        /\ spend_budget(a.owner, amount)

spend_with_session(a, amount) ==
    /\ session_spend(a, amount)
    /\ UNCHANGED tokenVars

-----------------------------------------------------------------------------
(* Token budgets.                                                          *)

empty == [balance |-> 0, spent |-> 0]

\* The token budget at b, freshly initialised when it does not exist yet.
budgetAt(b) == IF b \in DOMAIN tokenBudgets THEN tokenBudgets[b] ELSE empty

create_token_budget(o, m) ==
    /\ <<o, m>> \notin DOMAIN tokenBudgets
    /\ tokenBudgets' = put(tokenBudgets, <<o, m>>, empty)
    /\ UNCHANGED <<registryVars, budgetVars, vault, wallet>>

\* A transfer of tokens from wallet w into the vault of b, then the balance.
transferIn(w, b, amount) ==
    /\ wallet[<<w, b[2]>>] >= amount
    /\ wallet' = [wallet EXCEPT ![<<w, b[2]>>] = @ - amount]
    /\ vault' = [vault EXCEPT ![b] = @ + amount]

depositInto(w, b, amount) ==
    /\ transferIn(w, b, amount)
    /\ budgetAt(b).balance + amount <= U64Max
    /\ tokenBudgets' = put(tokenBudgets, b, [budgetAt(b) EXCEPT !.balance = @ + amount])

deposit_token(o, m, amount) ==
    /\ amount > 0
    /\ depositInto(o, <<o, m>>, amount)
    /\ UNCHANGED <<registryVars, budgetVars>>

\* Mutant: the tokens leave the vault and the balance stays.
spend_tokenKeepsBalance(o, m, amount) ==
    LET b == <<o, m>>
    IN  /\ amount > 0
        /\ b \in DOMAIN tokenBudgets
        /\ tokenBudgets[b].balance >= amount
        /\ vault[b] >= amount
        /\ vault' = [vault EXCEPT ![b] = @ - amount]
        /\ wallet' = [wallet EXCEPT ![b] = @ + amount]
        /\ tokenBudgets[b].spent + amount <= U64Max
        /\ tokenBudgets' = [tokenBudgets EXCEPT ![b].spent = @ + amount]
        /\ UNCHANGED <<registryVars, budgetVars>>

spend_token(o, m, amount) ==
    LET b == <<o, m>>
    IN  /\ amount > 0
        /\ b \in DOMAIN tokenBudgets
        /\ tokenBudgets[b].balance >= amount
        /\ vault[b] >= amount
        /\ vault' = [vault EXCEPT ![b] = @ - amount]
        /\ wallet' = [wallet EXCEPT ![b] = @ + amount]
        /\ tokenBudgets[b].spent + amount <= U64Max
        /\ tokenBudgets' = [tokenBudgets EXCEPT ![b].balance = @ - amount, ![b].spent = @ + amount]
        /\ UNCHANGED <<registryVars, budgetVars>>

\* Scope 0: any active session may deposit; the tokens are the session key's.
deposit_token_with_session(a, m, amount) ==
    /\ delegable(a, "0")
    /\ delegate("budget_escrow", a, touch_session(sessions[a]), 0)
    /\ depositInto(a.session_key, <<a.owner, m>>, amount)
    /\ UNCHANGED budgetVars

\* Anyone may send tokens to a vault without telling the program.
Donate(w, b, amount) ==
    /\ transferIn(w, b, amount)
    /\ UNCHANGED <<registryVars, budgetVars, tokenBudgets>>

-----------------------------------------------------------------------------

EscrowStep == \/ \E o \in Owners, x \in Amounts : create_budget(o, x)
              \/ \E o \in Owners, x \in Amounts : deposit(o, x)
              \/ \E o \in Owners, x \in Amounts : spend(o, x)
              \/ \E a \in DOMAIN sessions, x \in Amounts : spend_with_session(a, x)

TokenStep == \/ \E o \in Owners, m \in Mints : create_token_budget(o, m)
             \/ \E o \in Owners, m \in Mints, x \in Amounts : deposit_token(o, m, x)
             \/ \E o \in Owners, m \in Mints, x \in Amounts : spend_token(o, m, x)
             \/ \E a \in DOMAIN sessions, m \in Mints, x \in Amounts :
                   deposit_token_with_session(a, m, x)
             \/ \E w \in Owners \cup Keys, o \in Owners, m \in Mints, x \in Amounts :
                   Donate(w, <<o, m>>, x)

===========================================================================
