---------------------------- MODULE CortexProofs ----------------------------
(***************************************************************************)
(* Theorems of Cortex, for every set of owners, keys, mints and amounts.   *)
(*                                                                         *)
(* Each program owns a group of variables.  The three Steps lemmas say     *)
(* what a step may do to one group, whatever else it does, and every       *)
(* invariant is then proved against the group it speaks of.                *)
(***************************************************************************)
EXTENDS Cortex, TLAPS

-----------------------------------------------------------------------------
(* What a step does to each group of variables.                            *)

\* What a delegated instruction does to the registry: the session account keeps
\* its value, because the programs that touch it do not own it.
Delegated(a) ==
    /\ a \in DOMAIN sessions
    /\ a.owner \in DOMAIN ownerNonce
    /\ sessions[a].owner_nonce = ownerNonce[a.owner]
    /\ sessions' = [sessions EXCEPT ![a] = @]
    /\ \E u \in Use : uses' = [uses EXCEPT ![a] = Append(@, u)]
    /\ a \in DOMAIN uses
    /\ UNCHANGED <<now, capabilities, ownerNonce, authorised>>

\* A delegated instruction stores the session as it was and counts one use.
LEMMA DelegateFacts ==
    ASSUME RegistryTypeOK,
           NEW a, NEW bit, NEW session, NEW amount \in Nat,
           NEW program \in {"budget_escrow", "memory_registry"},
           session.limits \in Limit,
           delegable(a, bit), delegate(program, a, session, amount)
    PROVE  Delegated(a)
<1>1. /\ a \in DOMAIN sessions
      /\ a.owner \in DOMAIN ownerNonce
      /\ sessions[a].owner_nonce = ownerNonce[a.owner]
  BY DEF delegable, require_session_active
<1>2. sessions' = [sessions EXCEPT ![a] = @]
  <2>1. \A stored : exit(program, stored, session) = stored
    BY DEF exit
  <2>. QED  BY <2>1 DEF delegate
<1>3. [amount |-> amount, at |-> now, limits |-> session.limits] \in Use
  BY DEF RegistryTypeOK, Use
<1>. QED  BY <1>1, <1>2, <1>3 DEF Delegated, delegate

\* touch_session and record_spend leave the session's limits alone.
LEMMA TouchLimits ==
    ASSUME RegistryTypeOK, NEW a \in DOMAIN sessions, NEW amount
    PROVE  /\ touch_session(sessions[a]).limits \in Limit
           /\ touch_session(sessions[a]).limits = sessions[a].limits
           /\ record_spend(touch_session(sessions[a]), amount).limits \in Limit
<1>. sessions[a] \in Session
  BY DEF RegistryTypeOK
<1>. sessions[a].limits \in Limit
  BY DEF Session
<1>1. windowed(sessions[a]).limits = sessions[a].limits
  BY DEF windowed, Session
<1>2. touch_session(sessions[a]).limits = windowed(sessions[a]).limits
  BY DEF touch_session, windowed, Session
<1>3. record_spend(touch_session(sessions[a]), amount).limits = touch_session(sessions[a]).limits
  BY DEF record_spend, touch_session, windowed, Session
<1>. QED  BY <1>1, <1>2, <1>3

-----------------------------------------------------------------------------

\* Every delegated instruction of the escrow, the router and the registry.
LEMMA SessionSpendDelegates ==
    ASSUME RegistryTypeOK, NEW a, NEW amount \in Amounts, session_spend(a, amount)
    PROVE  Delegated(a)
<1>1. a \in DOMAIN sessions /\ delegable(a, "BUDGET_SPEND")
  BY DEF session_spend, delegable
<1>2. record_spend(touch_session(sessions[a]), amount).limits \in Limit
  BY <1>1, TouchLimits
<1>3. delegate("budget_escrow", a, record_spend(touch_session(sessions[a]), amount), amount)
  BY DEF session_spend
<1>4. amount \in Nat
  BY RegistryAssumption
<1>. QED  BY <1>1, <1>2, <1>3, <1>4, DelegateFacts

\* A delegated instruction that spends nothing does the same.
LEMMA TouchDelegates ==
    ASSUME RegistryTypeOK, NEW a, NEW bit,
           NEW program \in {"budget_escrow", "memory_registry"},
           delegable(a, bit), delegate(program, a, touch_session(sessions[a]), 0)
    PROVE  Delegated(a)
<1>1. a \in DOMAIN sessions
  BY DEF delegable
<1>2. touch_session(sessions[a]).limits \in Limit
  BY <1>1, TouchLimits
<1>. QED  BY <1>2, DelegateFacts

\* A step leaves the registry alone, is one of its own instructions, or delegates.
LEMMA RegistrySteps ==
    ASSUME RegistryTypeOK, Next
    PROVE  \/ UNCHANGED registryVars
           \/ Tick
           \/ CapabilityStep
           \/ OwnerStep
           \/ \E a \in DOMAIN sessions : Delegated(a)
<1>1. CASE Registry
  BY <1>1 DEF Registry
<1>2. CASE Escrow
  <2>1. CASE EscrowStep
    <3>1. CASE \E a \in DOMAIN sessions, x \in Amounts : spend_with_session(a, x)
      BY <3>1, SessionSpendDelegates DEF spend_with_session
    <3>2. CASE ~ \E a \in DOMAIN sessions, x \in Amounts : spend_with_session(a, x)
      BY <2>1, <3>2 DEF EscrowStep, create_budget, deposit, spend
    <3>. QED  BY <3>1, <3>2
  <2>2. CASE TokenStep
    <3>1. ASSUME NEW a \in DOMAIN sessions, NEW m \in Mints, NEW x \in Amounts,
                 deposit_token_with_session(a, m, x)
          PROVE  Delegated(a)
      BY <3>1, TouchDelegates DEF deposit_token_with_session
    <3>2. CASE ~ \E a \in DOMAIN sessions, m \in Mints, x \in Amounts :
                    deposit_token_with_session(a, m, x)
      BY <2>2, <3>2 DEF TokenStep, create_token_budget, deposit_token, spend_token, Donate
    <3>. QED  BY <3>1, <3>2
  <2>. QED  BY <1>2, <2>1, <2>2 DEF Escrow
<1>3. CASE Router
  <2>1. CASE \E a \in DOMAIN sessions, r \in ReceiptAddress, x \in Amounts :
                route_royalty_with_session(a, r, x)
    BY <2>1, SessionSpendDelegates DEF route_royalty_with_session
  <2>2. CASE ~ \E a \in DOMAIN sessions, r \in ReceiptAddress, x \in Amounts :
                  route_royalty_with_session(a, r, x)
    BY <1>3, <2>2 DEF Router, RouterStep, register_receipt, route_royalty
  <2>. QED  BY <2>1, <2>2
<1>4. CASE Memories
  <2>1. ASSUME NEW a \in DOMAIN sessions, NEW bit, delegated(a, bit)
        PROVE  Delegated(a)
    BY <2>1, TouchDelegates DEF delegated
  <2>. QED  BY <1>4, <2>1 DEF Memories, MemoryStep, register_memory, create_memory_with_session,
                              update_memory_with_session, delete_memory_with_session
<1>. QED  BY <1>1, <1>2, <1>3, <1>4 DEF Next

\* A step leaves the SOL budgets alone or changes one of them in one of three ways.
LEMMA BudgetSteps ==
    ASSUME RegistryTypeOK, Next
    PROVE  \/ UNCHANGED budgetVars
           \/ \E o \in Owners, x \in Amounts :
                 create_budget(o, x) \/ deposit(o, x) \/ spend_budget(o, x)
<1>. \A a \in DOMAIN sessions : a.owner \in Owners
  BY DEF RegistryTypeOK, SessionAddress
<1>1. CASE Registry
  BY <1>1 DEF Registry, escrowVars, budgetVars
<1>2. CASE Escrow
  <2>1. CASE EscrowStep
    BY <2>1 DEF EscrowStep, spend, spend_with_session, session_spend
  <2>2. CASE TokenStep
    BY <2>2 DEF TokenStep, create_token_budget, deposit_token, spend_token,
                deposit_token_with_session, Donate
  <2>. QED  BY <1>2, <2>1, <2>2 DEF Escrow
<1>3. CASE Router
  <2>. \A r \in ReceiptAddress : r.payer \in Owners
    BY DEF ReceiptAddress
  <2>. QED  BY <1>3 DEF Router, RouterStep, register_receipt, route_royalty,
                        route_royalty_with_session, session_spend, escrowVars, budgetVars
<1>4. CASE Memories
  BY <1>4 DEF Memories, escrowVars, budgetVars
<1>. QED  BY <1>1, <1>2, <1>3, <1>4 DEF Next

\* A step leaves the token budgets alone or is one of their instructions.
LEMMA TokenSteps ==
    ASSUME RegistryTypeOK, Next
    PROVE  \/ UNCHANGED tokenVars
           \/ \E o \in Owners, m \in Mints : create_token_budget(o, m)
           \/ \E w \in Owners \cup Keys, b \in Owners \X Mints, x \in Amounts : depositInto(w, b, x)
           \/ \E o \in Owners, m \in Mints, x \in Amounts : spend_token(o, m, x)
           \/ \E w \in Owners \cup Keys, b \in Owners \X Mints, x \in Amounts : Donate(w, b, x)
<1>. \A a \in DOMAIN sessions : a.owner \in Owners /\ a.session_key \in Keys
  BY DEF RegistryTypeOK, SessionAddress
<1>1. CASE Registry
  BY <1>1 DEF Registry, escrowVars, tokenVars
<1>2. CASE Escrow
  <2>1. CASE EscrowStep
    BY <2>1 DEF EscrowStep, create_budget, deposit, spend, spend_with_session
  <2>2. CASE TokenStep
    BY <2>2 DEF TokenStep, deposit_token, deposit_token_with_session
  <2>. QED  BY <1>2, <2>1, <2>2 DEF Escrow
<1>3. CASE Router
  BY <1>3 DEF Router, RouterStep, register_receipt, route_royalty,
              route_royalty_with_session, escrowVars, tokenVars
<1>4. CASE Memories
  BY <1>4 DEF Memories, escrowVars, tokenVars
<1>. QED  BY <1>1, <1>2, <1>3, <1>4 DEF Next

-----------------------------------------------------------------------------
(* The registry.                                                           *)

\* The registry starts empty.
LEMMA RegistryInitType == RegistryInit => RegistryTypeOK
BY DEF RegistryInit, RegistryTypeOK

\* An owner's nonce is a number, also before its first session.
LEMMA NonceOfType ==
    ASSUME RegistryTypeOK, NEW o
    PROVE  nonceOf(o) \in Nat
BY DEF nonceOf, RegistryTypeOK

\* What create_session writes is a session.
LEMMA NewSessionType ==
    ASSUME RegistryTypeOK, NEW o \in Owners, NEW k \in Keys, NEW scope \in ScopeSets,
           NEW limits \in Limits, NEW expires \in Expiries
    PROVE  newSession(o, k, scope, limits, expires) \in Session
<1>1. now \in Nat /\ nonceOf(o) \in Nat
  BY NonceOfType DEF RegistryTypeOK
<1>2. scope \in SUBSET Bits /\ limits \in Limit /\ expires \in Nat
  BY RegistryAssumption
<1>. QED  BY <1>1, <1>2 DEF newSession, Session

\* create_session keeps the registry's type.
LEMMA CreateSessionType ==
    ASSUME RegistryTypeOK, NEW o \in Owners, NEW k \in Keys, NEW scope \in ScopeSets,
           NEW limits \in Limits, NEW expires \in Expiries,
           create_session(o, k, scope, limits, expires)
    PROVE  RegistryTypeOK'
<1> DEFINE a == [owner |-> o, session_key |-> k, nonce |-> nonceOf(o)]
           s == newSession(o, k, scope, limits, expires)
<1>1. nonceOf(o) \in Nat /\ s \in Session
  BY NonceOfType, NewSessionType
<1>2. a \in SessionAddress
  BY <1>1 DEF SessionAddress
<1>3. /\ sessions' = put(sessions, a, s)
      /\ ownerNonce' = put(ownerNonce, o, nonceOf(o))
      /\ authorised' = authorised \cup {a}
      /\ uses' = put(uses, a, <<>>)
      /\ UNCHANGED <<now, capabilities>>
  BY DEF create_session
<1>. HIDE DEF a, s
<1>4. DOMAIN sessions' \subseteq SessionAddress /\ \A x \in DOMAIN sessions' : sessions'[x] \in Session
  BY <1>1, <1>2, <1>3 DEF RegistryTypeOK, put
<1>5. DOMAIN ownerNonce' \subseteq Owners /\ \A x \in DOMAIN ownerNonce' : ownerNonce'[x] \in Nat
  BY <1>1, <1>3 DEF RegistryTypeOK, put
<1>6. DOMAIN uses' \subseteq SessionAddress /\ \A x \in DOMAIN uses' : uses'[x] \in Seq(Use)
  <2>1. <<>> \in Seq(Use)
    OBVIOUS
  <2>. QED  BY <1>2, <1>3, <2>1 DEF RegistryTypeOK, put
<1>. QED  BY <1>2, <1>3, <1>4, <1>5, <1>6 DEF RegistryTypeOK

\* extend_session keeps the registry's type.
LEMMA ExtendSessionType ==
    ASSUME RegistryTypeOK, NEW a, NEW scope \in SUBSET Bits, NEW perTx \in Nat, NEW perDay \in Nat,
           NEW ops \in Nat, NEW expires \in Nat,
           extend_session(a, scope, perTx, perDay, ops, expires)
    PROVE  RegistryTypeOK'
<1> DEFINE l == [max_spend_per_tx |-> perTx, max_spend_per_day |-> perDay, max_ops_per_day |-> ops]
<1>1. l \in Limit
  BY DEF Limit
<1>2. a \in DOMAIN sessions /\ sessions[a] \in Session
  BY DEF extend_session, seedsMatch, RegistryTypeOK
<1>3. sessions' = [sessions EXCEPT ![a] =
                     [sessions[a] EXCEPT !.scope = scope, !.limits = l, !.expires_at = expires]]
  BY DEF extend_session
<1>. HIDE DEF l
<1>4. [sessions[a] EXCEPT !.scope = scope, !.limits = l, !.expires_at = expires] \in Session
  BY <1>1, <1>2 DEF Session
<1>. QED  BY <1>3, <1>4 DEF RegistryTypeOK, extend_session

\* Every instruction of an owner keeps the registry's type.
LEMMA OwnerStepType ==
    ASSUME RegistryTypeOK, OwnerStep
    PROVE  RegistryTypeOK'
<1>1. CASE \E o \in Owners, k \in Keys, scope \in ScopeSets, l \in Limits, t \in Expiries :
              create_session(o, k, scope, l, t)
  BY <1>1, CreateSessionType
<1>2. CASE \E a \in DOMAIN sessions, t \in Expiries :
             \E scope \in {sessions[a].scope} \cup ScopeSets,
                perTx \in {sessions[a].limits.max_spend_per_tx} \cup {l.max_spend_per_tx : l \in Limits},
                perDay \in {sessions[a].limits.max_spend_per_day} \cup {l.max_spend_per_day : l \in Limits},
                ops \in {sessions[a].limits.max_ops_per_day} \cup {l.max_ops_per_day : l \in Limits} :
                extend_session(a, scope, perTx, perDay, ops, t)
  <2>1. PICK a \in DOMAIN sessions, t \in Expiries :
             \E scope \in {sessions[a].scope} \cup ScopeSets,
                perTx \in {sessions[a].limits.max_spend_per_tx} \cup {l.max_spend_per_tx : l \in Limits},
                perDay \in {sessions[a].limits.max_spend_per_day} \cup {l.max_spend_per_day : l \in Limits},
                ops \in {sessions[a].limits.max_ops_per_day} \cup {l.max_ops_per_day : l \in Limits} :
                extend_session(a, scope, perTx, perDay, ops, t)
    BY <1>2
  <2>2. sessions[a] \in Session
    BY DEF RegistryTypeOK
  <2>3. sessions[a].scope \in SUBSET Bits /\ sessions[a].limits \in Limit
    BY <2>2 DEF Session
  <2>4. \A l \in {sessions[a].limits} \cup Limits :
           /\ l.max_spend_per_tx \in Nat
           /\ l.max_spend_per_day \in Nat
           /\ l.max_ops_per_day \in Nat
    BY <2>3, RegistryAssumption DEF Limit
  <2>5. \A scope \in {sessions[a].scope} \cup ScopeSets : scope \in SUBSET Bits
    BY <2>3, RegistryAssumption
  <2>6. t \in Nat
    BY RegistryAssumption
  <2>. QED  BY <2>1, <2>4, <2>5, <2>6, ExtendSessionType
<1>3. CASE \E a \in DOMAIN sessions : revoke_session(a)
  BY <1>3 DEF revoke_session, RegistryTypeOK, close
<1>4. CASE \E o \in Owners : pause_all_sessions(o)
  BY <1>4 DEF pause_all_sessions, RegistryTypeOK
<1>. QED  BY <1>1, <1>2, <1>3, <1>4 DEF OwnerStep

\* Every delegated instruction keeps the registry's type.
LEMMA DelegatedType ==
    ASSUME RegistryTypeOK, NEW a \in DOMAIN sessions, Delegated(a)
    PROVE  RegistryTypeOK'
<1>1. PICK u \in Use : uses' = [uses EXCEPT ![a] = Append(@, u)]
  BY DEF Delegated
<1>2. a \in DOMAIN uses /\ uses[a] \in Seq(Use)
  BY DEF Delegated, RegistryTypeOK
<1>3. Append(uses[a], u) \in Seq(Use)
  BY <1>2
<1>4. \A x \in DOMAIN uses' : uses'[x] \in Seq(Use)
  BY <1>1, <1>3 DEF RegistryTypeOK
<1>5. DOMAIN sessions' = DOMAIN sessions /\ \A x \in DOMAIN sessions : sessions'[x] = sessions[x]
  BY DEF Delegated
<1>. QED  BY <1>1, <1>4, <1>5 DEF Delegated, RegistryTypeOK

\* Every instruction of the capability registry keeps its type.
LEMMA CapabilityStepType ==
    ASSUME RegistryTypeOK, CapabilityStep
    PROVE  RegistryTypeOK'
<1>1. PICK o \in Owners, k \in Keys, label \in Labels, t \in Expiries : grant(o, k, label, t)
  BY DEF CapabilityStep
<1> DEFINE c == [owner |-> o, granted_to |-> k, scope |-> label]
           r == [expires_at |-> t, bump |-> UnsetBump]
<1>2. c \in CapabilityAddress /\ r \in [expires_at : Nat, bump : Nat]
  BY RegistryAssumption DEF CapabilityAddress, UnsetBump
<1>3. capabilities' = put(capabilities, c, r) /\ UNCHANGED <<now, sessions, ownerNonce, authorised, uses>>
  BY <1>1 DEF grant
<1>. HIDE DEF c, r
<1>. QED  BY <1>2, <1>3 DEF RegistryTypeOK, put

\* Every step of the programs together keeps the registry's type.
LEMMA RegistryNextType == RegistryTypeOK /\ [Next]_vars => RegistryTypeOK'
<1>. SUFFICES ASSUME RegistryTypeOK, [Next]_vars PROVE RegistryTypeOK'
  OBVIOUS
<1>1. CASE UNCHANGED registryVars
  BY <1>1 DEF registryVars, RegistryTypeOK
<1>2. CASE Tick
  BY <1>2 DEF Tick, RegistryTypeOK
<1>. QED  BY <1>1, <1>2, CapabilityStepType, OwnerStepType, DelegatedType, RegistrySteps DEF vars

-----------------------------------------------------------------------------
(* The escrow.                                                             *)

\* The escrow starts empty.
LEMMA EscrowInitType == EscrowInit => EscrowTypeOK
BY EscrowAssumption, RegistryAssumption DEF EscrowInit, EscrowTypeOK, Holders

\* Budgets stay within u64 and, together, with what was put in.
BudgetInv == /\ DOMAIN budgets \subseteq Owners
             /\ \A o \in DOMAIN budgets : budgets[o] \in Counters
             /\ funded \in [Owners -> Nat]
             /\ BudgetConserved

\* Every instruction on SOL budgets keeps their sums.
LEMMA BudgetPreserved ==
    ASSUME RegistryTypeOK, BudgetInv, [Next]_vars
    PROVE  BudgetInv'
<1>. U64Max \in Nat /\ \A x \in Amounts : x \in 0 .. U64Max
  BY RegistryAssumption
<1>1. CASE UNCHANGED budgetVars
  BY <1>1 DEF budgetVars, BudgetInv, BudgetConserved
<1>2. ASSUME NEW o \in Owners, NEW x \in Amounts, create_budget(o, x)
      PROVE  BudgetInv'
  <2>1. [balance |-> x, spent |-> 0] \in Counters
    BY DEF Counters
  <2>. QED  BY <1>2, <2>1 DEF create_budget, BudgetInv, BudgetConserved, put
<1>3. ASSUME NEW o \in Owners, NEW x \in Amounts, deposit(o, x)
      PROVE  BudgetInv'
  <2>1. o \in DOMAIN budgets /\ budgets[o] \in Counters /\ funded[o] \in Nat
    BY <1>3 DEF deposit, BudgetInv
  <2>2. [budgets[o] EXCEPT !.balance = budgets[o].balance + x] \in Counters
    BY <1>3, <2>1 DEF deposit, Counters
  <2>3. budgets' = [budgets EXCEPT ![o] = [budgets[o] EXCEPT !.balance = budgets[o].balance + x]]
    BY <1>3 DEF deposit
  <2>4. /\ budgets'[o].balance = budgets[o].balance + x
        /\ budgets'[o].spent = budgets[o].spent
    BY <2>1, <2>3 DEF Counters
  <2>5. budgets'[o].balance + budgets'[o].spent = funded'[o]
    BY <1>3, <2>1, <2>4 DEF deposit, BudgetInv, BudgetConserved, Counters
  <2>6. \A p \in DOMAIN budgets : p # o => budgets'[p] = budgets[p] /\ funded'[p] = funded[p]
    BY <1>3, <2>3 DEF deposit, BudgetInv
  <2>7. funded' \in [Owners -> Nat]
    BY <1>3, <2>1 DEF deposit, BudgetInv
  <2>. QED  BY <2>2, <2>3, <2>5, <2>6, <2>7 DEF BudgetInv, BudgetConserved
<1>4. ASSUME NEW o \in Owners, NEW x \in Amounts, spend_budget(o, x)
      PROVE  BudgetInv'
  <2>1. o \in DOMAIN budgets /\ budgets[o] \in Counters
    BY <1>4 DEF spend_budget, BudgetInv
  <2> DEFINE c == [budgets[o] EXCEPT !.balance = budgets[o].balance - x,
                                     !.spent = budgets[o].spent + x]
  <2>2. c \in Counters
    BY <1>4, <2>1 DEF spend_budget, Counters
  <2>3. budgets' = [budgets EXCEPT ![o] = c]
    BY <1>4 DEF spend_budget
  <2>4. c.balance = budgets[o].balance - x /\ c.spent = budgets[o].spent + x
    BY <2>1 DEF Counters
  <2>5. c.balance + c.spent = funded[o]
    BY <2>1, <2>4 DEF BudgetInv, BudgetConserved, Counters
  <2>. HIDE DEF c
  <2>. QED  BY <1>4, <2>1, <2>2, <2>3, <2>5 DEF spend_budget, BudgetInv, BudgetConserved
<1>. QED  BY <1>1, <1>2, <1>3, <1>4, BudgetSteps DEF vars, escrowVars, budgetVars

TokenInv == /\ DOMAIN tokenBudgets \subseteq Owners \X Mints
            /\ \A b \in DOMAIN tokenBudgets : tokenBudgets[b] \in Counters
            /\ vault \in [Owners \X Mints -> Nat]
            /\ wallet \in [Holders -> Nat]
            /\ TokensBacked

\* Every instruction on token budgets keeps their sums and their vaults.
LEMMA TokenPreserved ==
    ASSUME RegistryTypeOK, TokenInv, [Next]_vars
    PROVE  TokenInv'
<1>. U64Max \in Nat /\ \A x \in Amounts : x \in 0 .. U64Max
  BY RegistryAssumption
<1>. empty \in Counters /\ empty.balance = 0
  BY DEF empty, Counters
<1>1. CASE UNCHANGED tokenVars
  BY <1>1 DEF tokenVars, TokenInv, TokensBacked
<1>2. ASSUME NEW o \in Owners, NEW m \in Mints, create_token_budget(o, m)
      PROVE  TokenInv'
  <2>1. <<o, m>> \in Owners \X Mints /\ vault[<<o, m>>] \in Nat
    BY DEF TokenInv
  <2>. QED  BY <1>2, <2>1 DEF create_token_budget, TokenInv, TokensBacked, put
<1>3. ASSUME NEW w \in Owners \cup Keys, NEW b \in Owners \X Mints, NEW x \in Amounts,
             transferIn(w, b, x)
      PROVE  /\ wallet' \in [Holders -> Nat]
             /\ vault' = [vault EXCEPT ![b] = vault[b] + x]
             /\ vault' \in [Owners \X Mints -> Nat]
             /\ vault[b] \in Nat /\ x \in Nat
  <2>1. <<w, b[2]>> \in Holders
    BY DEF Holders
  <2>. QED  BY <1>3, <2>1 DEF transferIn, TokenInv
<1>4. ASSUME NEW w \in Owners \cup Keys, NEW b \in Owners \X Mints, NEW x \in Amounts,
             depositInto(w, b, x)
      PROVE  TokenInv'
  <2>1. transferIn(w, b, x)
    BY <1>4 DEF depositInto
  <2>2. budgetAt(b) \in Counters
    BY DEF budgetAt, TokenInv
  <2>3. budgetAt(b).balance <= vault[b]
    BY <1>3, <2>1 DEF budgetAt, TokenInv, TokensBacked
  <2> DEFINE c == [budgetAt(b) EXCEPT !.balance = budgetAt(b).balance + x]
  <2>4. c \in Counters /\ c.balance = budgetAt(b).balance + x
    BY <1>4, <2>2 DEF depositInto, Counters
  <2>5. tokenBudgets' = put(tokenBudgets, b, c)
    BY <1>4 DEF depositInto
  <2>6. c.balance <= vault'[b]
    <3>1. budgetAt(b).balance \in Nat
      BY <2>2 DEF Counters
    <3>. QED  BY <1>3, <2>1, <2>3, <2>4, <3>1 DEF TokenInv
  <2>. HIDE DEF c
  <2>7. \A d \in DOMAIN tokenBudgets : d # b => vault'[d] = vault[d]
    BY <1>3, <2>1 DEF TokenInv
  <2>. QED  BY <1>3, <2>1, <2>4, <2>5, <2>6, <2>7 DEF TokenInv, TokensBacked, put
<1>5. ASSUME NEW o \in Owners, NEW m \in Mints, NEW x \in Amounts, spend_token(o, m, x)
      PROVE  TokenInv'
  <2> DEFINE b == <<o, m>>
  <2>1. /\ b \in DOMAIN tokenBudgets /\ tokenBudgets[b] \in Counters
        /\ b \in Owners \X Mints /\ b \in Holders
        /\ tokenBudgets[b].balance >= x /\ vault[b] >= x
        /\ tokenBudgets[b].spent + x <= U64Max
    BY <1>5 DEF spend_token, TokenInv, Holders
  <2>. HIDE DEF b
  <2> DEFINE c == [tokenBudgets[b] EXCEPT !.balance = tokenBudgets[b].balance - x,
                                          !.spent = tokenBudgets[b].spent + x]
  <2>2. /\ vault' = [vault EXCEPT ![b] = vault[b] - x]
        /\ wallet' = [wallet EXCEPT ![b] = wallet[b] + x]
        /\ tokenBudgets' = [tokenBudgets EXCEPT ![b] = c]
    BY <1>5 DEF spend_token, b
  <2>3. c \in Counters /\ c.balance = tokenBudgets[b].balance - x
    <3>1. /\ tokenBudgets[b].balance - x \in 0 .. U64Max
          /\ tokenBudgets[b].spent + x \in 0 .. U64Max
      BY <2>1 DEF Counters
    <3>. QED  BY <2>1, <3>1 DEF Counters
  <2>4. vault[b] \in Nat /\ wallet[b] \in Nat /\ x \in Nat
        /\ tokenBudgets[b].balance \in Nat /\ tokenBudgets[b].balance <= vault[b]
    BY <2>1 DEF TokenInv, TokensBacked, Counters
  <2>. HIDE DEF c
  <2>5. vault' \in [Owners \X Mints -> Nat] /\ wallet' \in [Holders -> Nat]
    BY <2>1, <2>2, <2>4 DEF TokenInv
  <2>6. c.balance <= vault'[b]
    BY <2>1, <2>2, <2>3, <2>4 DEF TokenInv
  <2>. QED  BY <2>1, <2>2, <2>3, <2>5, <2>6 DEF TokenInv, TokensBacked
<1>6. ASSUME NEW w \in Owners \cup Keys, NEW b \in Owners \X Mints, NEW x \in Amounts, Donate(w, b, x)
      PROVE  TokenInv'
  <2>1. transferIn(w, b, x) /\ UNCHANGED tokenBudgets
    BY <1>6 DEF Donate
  <2>2. \A d \in DOMAIN tokenBudgets : tokenBudgets[d].balance \in Nat /\ vault[d] \in Nat
    BY DEF TokenInv, Counters
  <2>3. \A d \in DOMAIN tokenBudgets : tokenBudgets[d].balance <= vault'[d]
    BY <1>3, <2>1, <2>2 DEF TokenInv, TokensBacked
  <2>. QED  BY <1>3, <2>1, <2>3 DEF TokenInv, TokensBacked
<1>. QED  BY <1>1, <1>2, <1>4, <1>5, <1>6, TokenSteps DEF vars, escrowVars, tokenVars

-----------------------------------------------------------------------------
(* The router and the memory registry.                                     *)

\* Royalty receipts keep their type.
LEMMA RouterPreserved ==
    ASSUME RouterTypeOK, [Next]_vars
    PROVE  RouterTypeOK'
<1>. \A x \in Amounts : x \in Nat
  BY RegistryAssumption
<1>1. CASE UNCHANGED receipts
  BY <1>1 DEF RouterTypeOK
<1>2. ASSUME NEW r \in ReceiptAddress, NEW x \in Amounts, write_receipt(r, x)
      PROVE  RouterTypeOK'
  BY <1>2 DEF write_receipt, put, RouterTypeOK
<1>3. CASE Router
  BY <1>2, <1>3 DEF Router, RouterStep, register_receipt, route_royalty, route_royalty_with_session
<1>. QED  BY <1>1, <1>3 DEF Next, Registry, Escrow, Memories, vars

\* No entry of the memory registry ever gets its bump.
MemoryInv == MemoryTypeOK /\ \A e \in DOMAIN memories : memories[e].bump = UnsetBump

\* A new entry, or one created again, is well formed.
LEMMA InitMemoryPreserves ==
    ASSUME MemoryInv, NEW o \in Owners, NEW h \in Hashes, init_memory(o, h)
    PROVE  MemoryInv'
<1> DEFINE e == [owner |-> o, at |-> h]
           stored == IF e \in DOMAIN memories THEN memories[e].bump ELSE UnsetBump
           r == [content_hash |-> h, shareable |-> FALSE, royalty_bps |-> 0, bump |-> stored]
<1>1. e \in MemoryAddress
  BY DEF MemoryAddress
<1>2. stored = UnsetBump
  BY DEF MemoryInv
<1>3. memories' = put(memories, e, r)
  BY DEF init_memory
<1>. HIDE DEF e, stored
<1>4. r \in Memory /\ r.bump = UnsetBump
  BY <1>2 DEF Memory, UnsetBump
<1>. HIDE DEF r
<1>. QED  BY <1>1, <1>3, <1>4 DEF put, MemoryInv, MemoryTypeOK

\* Every instruction of the memory registry keeps its entries well formed.
LEMMA MemoryPreserved ==
    ASSUME RegistryTypeOK, MemoryInv, [Next]_vars
    PROVE  MemoryInv'
<1>. \A a \in DOMAIN sessions : a.owner \in Owners
  BY DEF RegistryTypeOK, SessionAddress
<1>1. CASE UNCHANGED memories
  BY <1>1 DEF MemoryInv, MemoryTypeOK
<1>2. ASSUME NEW e \in DOMAIN memories, NEW h \in Hashes,
             memories' = [memories EXCEPT ![e].content_hash = h]
      PROVE  MemoryInv'
  <2>1. memories[e] \in Memory /\ memories[e].bump = UnsetBump
    BY DEF MemoryInv, MemoryTypeOK
  <2> DEFINE r == [memories[e] EXCEPT !.content_hash = h]
  <2>2. r \in Memory /\ r.bump = UnsetBump
    BY <2>1 DEF Memory
  <2>3. memories' = [memories EXCEPT ![e] = r]
    BY <1>2
  <2>. HIDE DEF r
  <2>. QED  BY <2>2, <2>3 DEF MemoryInv, MemoryTypeOK
<1>3. ASSUME NEW e \in DOMAIN memories, memories' = close(memories, e)
      PROVE  MemoryInv'
  BY <1>3 DEF close, MemoryInv, MemoryTypeOK
<1>4. CASE Memories
  BY <1>2, <1>3, <1>4, InitMemoryPreserves
     DEF Memories, MemoryStep, register_memory, create_memory_with_session,
         update_memory_with_session, delete_memory_with_session
<1>. QED  BY <1>1, <1>4 DEF Next, Registry, Escrow, Router, vars

-----------------------------------------------------------------------------
(* Sessions.                                                               *)

\* A session's nonce is never ahead of its owner's, and a session whose nonce is
\* still the owner's is authorised: the comparison of the two nonces is enough.
AuthInv == \A a \in DOMAIN sessions :
              /\ a.owner \in DOMAIN ownerNonce
              /\ sessions[a].owner_nonce <= ownerNonce[a.owner]
              /\ sessions[a].owner_nonce = ownerNonce[a.owner] => a \in authorised

\* Every step keeps the two nonces telling who is authorised.
LEMMA AuthPreserved ==
    ASSUME RegistryTypeOK, AuthInv, [Next]_vars
    PROVE  AuthInv'
<1>. \A a \in DOMAIN sessions : sessions[a].owner_nonce \in Nat
  BY DEF RegistryTypeOK, Session
<1>. \A o \in DOMAIN ownerNonce : ownerNonce[o] \in Nat
  BY DEF RegistryTypeOK
<1>1. CASE UNCHANGED <<sessions, ownerNonce, authorised>>
  BY <1>1 DEF AuthInv
<1>2. ASSUME NEW a \in DOMAIN sessions, Delegated(a)
      PROVE  AuthInv'
  BY <1>2 DEF Delegated, AuthInv
<1>3. CASE OwnerStep
  <2>1. ASSUME NEW o \in Owners, NEW k \in Keys, NEW scope \in ScopeSets, NEW l \in Limits,
               NEW t \in Expiries, create_session(o, k, scope, l, t)
        PROVE  AuthInv'
    <3> DEFINE a == [owner |-> o, session_key |-> k, nonce |-> nonceOf(o)]
               s == newSession(o, k, scope, l, t)
    <3>1. /\ sessions' = put(sessions, a, s)
          /\ ownerNonce' = put(ownerNonce, o, nonceOf(o))
          /\ authorised' = authorised \cup {a}
      BY <2>1 DEF create_session
    <3>2. a.owner = o /\ s.owner_nonce = nonceOf(o) /\ nonceOf(o) \in Nat
      BY NonceOfType DEF newSession
    <3>. HIDE DEF a, s
    <3>3. \A p \in DOMAIN ownerNonce : p \in DOMAIN ownerNonce' /\ ownerNonce'[p] = ownerNonce[p]
      BY <3>1 DEF put, nonceOf
    <3>4. o \in DOMAIN ownerNonce' /\ ownerNonce'[o] = nonceOf(o)
      BY <3>1 DEF put
    <3>. QED  BY <3>1, <3>2, <3>3, <3>4 DEF put, AuthInv
  <2>2. ASSUME NEW a, NEW scope, NEW perTx, NEW perDay, NEW ops, NEW t,
               extend_session(a, scope, perTx, perDay, ops, t)
        PROVE  AuthInv'
    <3>1. /\ DOMAIN sessions' = DOMAIN sessions
          /\ UNCHANGED <<ownerNonce, authorised>>
      BY <2>2 DEF extend_session
    <3>2. \A x \in DOMAIN sessions : sessions'[x].owner_nonce = sessions[x].owner_nonce
      BY <2>2 DEF extend_session, RegistryTypeOK, Session
    <3>. QED  BY <3>1, <3>2 DEF AuthInv
  <2>3. ASSUME NEW a \in DOMAIN sessions, revoke_session(a)
        PROVE  AuthInv'
    BY <2>3 DEF revoke_session, close, AuthInv
  <2>4. ASSUME NEW o \in Owners, pause_all_sessions(o)
        PROVE  AuthInv'
    BY <2>4 DEF pause_all_sessions, AuthInv
  <2>. QED  BY <1>3, <2>1, <2>2, <2>3, <2>4 DEF OwnerStep
<1>. QED  BY <1>1, <1>2, <1>3, RegistrySteps DEF vars, registryVars, Tick, CapabilityStep, grant

\* Only a delegated instruction adds to the instructions a session has run, and
\* then the session is the one it is delegated to.
LEMMA WhoActs ==
    ASSUME RegistryTypeOK, NEW a \in DOMAIN uses', used(uses', a) > used(uses, a)
    PROVE  /\ ~UNCHANGED uses
           /\ ~OwnerStep
           /\ \A d \in DOMAIN sessions : Delegated(d) => a = d
<1>. \A x \in DOMAIN uses : uses[x] \in Seq(Use)
  BY DEF RegistryTypeOK
<1>0. used(uses, a) \in Nat
  BY DEF used
<1>1. ~UNCHANGED uses
  BY <1>0
<1>2. ASSUME NEW d \in DOMAIN sessions, Delegated(d) PROVE a = d
  <2>1. DOMAIN uses' = DOMAIN uses /\ \A x \in DOMAIN uses : x # d => uses'[x] = uses[x]
    BY <1>2 DEF Delegated
  <2>. QED  BY <1>0, <2>1 DEF used
<1>3. ASSUME NEW o \in Owners, NEW k \in Keys, NEW scope \in ScopeSets, NEW l \in Limits,
             NEW t \in Expiries, create_session(o, k, scope, l, t)
      PROVE  FALSE
  <2> DEFINE c == [owner |-> o, session_key |-> k, nonce |-> nonceOf(o)]
  <2>1. uses' = put(uses, c, <<>>)
    BY <1>3 DEF create_session
  <2>. HIDE DEF c
  <2>2. CASE a = c
    <3>1. used(uses', a) = 0
      BY <2>1, <2>2 DEF used, put
    <3>. QED  BY <1>0, <3>1
  <2>3. CASE a # c
    <3>1. a \in DOMAIN uses /\ uses'[a] = uses[a]
      BY <2>1, <2>3 DEF put
    <3>2. used(uses', a) = used(uses, a)
      BY <3>1 DEF used
    <3>. QED  BY <1>0, <3>2
  <2>. QED  BY <2>2, <2>3
<1>4. ~OwnerStep
  BY <1>1, <1>3 DEF OwnerStep, extend_session, revoke_session, pause_all_sessions
<1>. QED  BY <1>1, <1>2, <1>4

\* A step in which a session runs an instruction is one that the session delegates.
LEMMA ActsAuthorised ==
    ASSUME RegistryTypeOK, AuthInv, [Next]_vars,
           NEW a \in DOMAIN uses', used(uses', a) > used(uses, a)
    PROVE  a \in authorised
<1>1. ASSUME NEW d \in DOMAIN sessions, Delegated(d)
      PROVE  a \in authorised
  BY <1>1, WhoActs DEF Delegated, AuthInv
<1>2. ~UNCHANGED uses /\ ~OwnerStep
  BY WhoActs
<1>. QED  BY <1>1, <1>2, RegistrySteps DEF vars, registryVars, Tick, CapabilityStep, grant

\* No capability ever gets its bump.
BumpInv == \A c \in DOMAIN capabilities : capabilities[c].bump = UnsetBump

\* No step stores the bump of a capability.
LEMMA BumpPreserved ==
    ASSUME RegistryTypeOK, BumpInv, [Next]_vars
    PROVE  BumpInv'
<1>1. CASE UNCHANGED capabilities
  BY <1>1 DEF BumpInv
<1>2. CASE CapabilityStep
  <2>1. PICK o \in Owners, k \in Keys, label \in Labels, t \in Expiries : grant(o, k, label, t)
    BY <1>2 DEF CapabilityStep
  <2> DEFINE c == [owner |-> o, granted_to |-> k, scope |-> label]
  <2>2. capabilities' = put(capabilities, c, [expires_at |-> t, bump |-> UnsetBump])
    BY <2>1 DEF grant
  <2>. HIDE DEF c
  <2>. QED  BY <2>2 DEF put, BumpInv
<1>. QED  BY <1>1, <1>2, RegistrySteps DEF vars, registryVars, Tick, OwnerStep, create_session,
              extend_session, revoke_session, pause_all_sessions, Delegated

-----------------------------------------------------------------------------
(* The theorems.                                                           *)

\* The inductive invariant: every group's, and the registry's relation between
\* sessions, nonces and authorisation.
IInv == /\ RegistryTypeOK
        /\ BudgetInv
        /\ TokenInv
        /\ RouterTypeOK
        /\ MemoryInv
        /\ AuthInv
        /\ BumpInv

\* The invariant holds at the start.
LEMMA InitIInv == Init => IInv
<1>. SUFFICES ASSUME Init PROVE IInv
  OBVIOUS
<1>1. RegistryTypeOK /\ AuthInv /\ BumpInv
  BY RegistryInitType DEF Init, RegistryInit, AuthInv, BumpInv
<1>2. BudgetInv /\ TokenInv
  BY EscrowInitType DEF Init, EscrowInit, EscrowTypeOK, BudgetInv, TokenInv, BudgetConserved, TokensBacked
<1>3. RouterTypeOK /\ MemoryInv
  BY DEF Init, RouterInit, MemoryInit, RouterTypeOK, MemoryInv, MemoryTypeOK
<1>. QED  BY <1>1, <1>2, <1>3 DEF IInv

\* Every step of every program keeps the invariant.
LEMMA NextIInv == IInv /\ [Next]_vars => IInv'
BY RegistryNextType, BudgetPreserved, TokenPreserved, RouterPreserved, MemoryPreserved,
   AuthPreserved, BumpPreserved DEF IInv

\* No capability and no entry has the bump the four instructions ask for.
LEMMA NothingAddressable == IInv => ~Unaddressable
<1>. SUFFICES ASSUME IInv PROVE ~Unaddressable
  OBVIOUS
<1>1. UnsetBump # CanonicalBump
  BY DEF UnsetBump, CanonicalBump
<1>2. \A c \in DOMAIN capabilities : ~can_revoke(c)
  BY <1>1 DEF IInv, BumpInv, can_revoke
<1>3. \A e \in DOMAIN memories : ~ownerAddresses(e)
  BY <1>1 DEF IInv, MemoryInv, ownerAddresses
<1>4. ~RevokeStep
  BY <1>2 DEF RevokeStep, revoke
<1>5. ~OwnerMemoryStep
  <2>1. ASSUME NEW e \in DOMAIN memories, NEW h
        PROVE  ~update_memory(e, h)
    BY <1>3 DEF update_memory
  <2>2. ASSUME NEW e \in DOMAIN memories, NEW share, NEW bps
        PROVE  ~set_shareable(e, share, bps)
    BY <1>3 DEF set_shareable
  <2>3. ASSUME NEW e \in DOMAIN memories
        PROVE  ~delete_memory(e)
    BY <1>3 DEF delete_memory
  <2>. QED  BY <2>1, <2>2, <2>3 DEF OwnerMemoryStep
<1>. QED  BY <1>4, <1>5 DEF Unaddressable

\* The inductive invariant holds in every state of every behaviour.
THEOREM Invariance == Spec => []IInv
BY InitIInv, NextIInv, PTL DEF Spec

\* capability_registry::revoke and the three owner instructions of memory_registry
\* never succeed: with them, the programs behave as without them.
THEOREM FourNeverSucceed == FullSpec => Spec
<1>1. IInv /\ [FullNext]_vars => [Next]_vars
  BY NothingAddressable DEF FullNext
<1>. QED  BY <1>1, InitIInv, NextIInv, PTL DEF FullSpec, Spec

\* Every account the programs write is well formed, and no counter leaves u64.
THEOREM CortexTypeCorrect == Spec => []TypeOK
<1>1. IInv => TypeOK
  BY DEF IInv, TypeOK, BudgetInv, TokenInv, MemoryInv, EscrowTypeOK
<1>. QED  BY <1>1, Invariance, PTL

\* Budgets balance, whoever spends and through whichever program.
THEOREM BudgetsBalance == Spec => []BudgetConserved
<1>1. IInv => BudgetConserved
  BY DEF IInv, BudgetInv
<1>. QED  BY <1>1, Invariance, PTL

\* Token budgets are backed by the tokens in their vaults.
THEOREM VaultsBack == Spec => []TokensBacked
<1>1. IInv => TokensBacked
  BY DEF IInv, TokenInv
<1>. QED  BY <1>1, Invariance, PTL

\* A session acts only while it is authorised: a pause or a revocation is final.
THEOREM PauseIsFinal == Spec => OnlyAuthorisedAct
<1>1. IInv /\ [Next]_vars =>
        [\A a \in DOMAIN uses' : used(uses', a) > used(uses, a) => a \in authorised]_vars
  BY ActsAuthorised DEF IInv
<1>. QED  BY <1>1, Invariance, PTL DEF Spec, OnlyAuthorisedAct

-----------------------------------------------------------------------------
(* What a delegated instruction reaches.                                   *)

\* A step that leaves the budgets alone is within every bound.
LEMMA KeptBudgetsWithin ==
    ASSUME RegistryTypeOK, EscrowTypeOK, NEW a \in DOMAIN sessions, UNCHANGED budgets
    PROVE  BudgetWithin(a)
<1>1. sessions[a].limits.max_spend_per_tx \in Nat
  BY DEF RegistryTypeOK, Session, Limit
<1>2. \A o \in DOMAIN budgets : budgets[o].balance \in Nat
  BY RegistryAssumption DEF EscrowTypeOK, Counters
<1>3. \A o \in DOMAIN budgets : budgets[o].balance - budgets'[o].balance = 0
  BY <1>2
<1>. QED  BY <1>1, <1>3 DEF BudgetWithin

\* A delegated spend takes at most the limit, from its owner's budget.
LEMMA SpendWithin ==
    ASSUME RegistryTypeOK, EscrowTypeOK, NEW a \in DOMAIN sessions, NEW x \in Amounts,
           session_spend(a, x)
    PROVE  BudgetWithin(a)
<1> DEFINE o == a.owner
<1>1. x \in Nat /\ x <= sessions[a].limits.max_spend_per_tx
  BY TouchLimits, RegistryAssumption DEF session_spend, check_spend
<1>2. o \in DOMAIN budgets /\ budgets[o] \in Counters /\ budgets[o].balance \in Nat
  BY RegistryAssumption DEF session_spend, spend_budget, EscrowTypeOK, Counters
<1>3. budgets' = [budgets EXCEPT ![o].balance = @ - x, ![o].spent = @ + x]
  BY DEF session_spend, spend_budget
<1>4. budgets'[o].balance = budgets[o].balance - x
  BY <1>2, <1>3 DEF Counters
<1>5. budgets[o].balance - budgets'[o].balance = x
  BY <1>1, <1>2, <1>4
<1>6. \A p \in DOMAIN budgets : p # o => budgets'[p] = budgets[p]
  BY <1>3
<1>. QED  BY <1>1, <1>5, <1>6 DEF BudgetWithin

\* A delegated memory instruction reaches its owner's entries only.
LEMMA MemoryWithin ==
    ASSUME NEW a \in DOMAIN sessions,
           \/ \E h \in Hashes : create_memory_with_session(a, h)
           \/ \E e \in DOMAIN memories, h \in Hashes : update_memory_with_session(a, e, h)
           \/ \E e \in DOMAIN memories : delete_memory_with_session(a, e)
    PROVE  EntriesWithin(a)
<1>1. ASSUME NEW h \in Hashes, create_memory_with_session(a, h) PROVE EntriesWithin(a)
  BY <1>1 DEF create_memory_with_session, init_memory, put, EntriesWithin
<1>2. ASSUME NEW e \in DOMAIN memories, NEW h \in Hashes, update_memory_with_session(a, e, h)
      PROVE  EntriesWithin(a)
  BY <1>2 DEF update_memory_with_session, EntriesWithin
<1>3. ASSUME NEW e \in DOMAIN memories, delete_memory_with_session(a, e) PROVE EntriesWithin(a)
  BY <1>3 DEF delete_memory_with_session, close, EntriesWithin
<1>. QED  BY <1>1, <1>2, <1>3

\* A step in which a session runs an instruction stays within the session's reach.
LEMMA ActsWithin ==
    ASSUME RegistryTypeOK, EscrowTypeOK, Next,
           NEW a \in DOMAIN uses', used(uses', a) > used(uses, a)
    PROVE  BudgetWithin(a) /\ EntriesWithin(a)
<1>0. /\ ~UNCHANGED uses
      /\ ~OwnerStep
      /\ \A d \in DOMAIN sessions : Delegated(d) => a = d
  BY WhoActs
<1>1. CASE Registry
  BY <1>0, <1>1 DEF Registry, Tick, CapabilityStep, grant
<1>2. CASE Escrow
  <2>1. UNCHANGED memories
    BY <1>2 DEF Escrow
  <2>2. EntriesWithin(a)
    BY <2>1 DEF EntriesWithin
  <2>3. ASSUME NEW d \in DOMAIN sessions, NEW x \in Amounts, spend_with_session(d, x)
        PROVE  BudgetWithin(a)
    BY <1>0, <2>3, SessionSpendDelegates, SpendWithin DEF spend_with_session
  <2>4. ASSUME NEW d \in DOMAIN sessions, NEW m \in Mints, NEW x \in Amounts,
               deposit_token_with_session(d, m, x)
        PROVE  BudgetWithin(a)
    <3>1. a = d
      BY <1>0, <2>4, TouchDelegates DEF deposit_token_with_session
    <3>. QED  BY <2>4, <3>1, KeptBudgetsWithin DEF deposit_token_with_session, budgetVars
  <2>. QED  BY <1>0, <1>2, <2>2, <2>3, <2>4
            DEF Escrow, EscrowStep, TokenStep, registryVars, create_budget, deposit, spend,
                create_token_budget, deposit_token, spend_token, Donate
<1>3. CASE Router
  <2>1. UNCHANGED memories
    BY <1>3 DEF Router
  <2>2. EntriesWithin(a)
    BY <2>1 DEF EntriesWithin
  <2>3. ASSUME NEW d \in DOMAIN sessions, NEW r \in ReceiptAddress, NEW x \in Amounts,
               route_royalty_with_session(d, r, x)
        PROVE  BudgetWithin(a)
    BY <1>0, <2>3, SessionSpendDelegates, SpendWithin DEF route_royalty_with_session
  <2>. QED  BY <1>0, <1>3, <2>2, <2>3
            DEF Router, RouterStep, registryVars, register_receipt, route_royalty
<1>4. CASE Memories
  <2>1. ASSUME NEW d \in DOMAIN sessions, NEW bit, delegated(d, bit)
        PROVE  a = d
    BY <1>0, <2>1, TouchDelegates DEF delegated
  <2>2. PICK d \in DOMAIN sessions :
           \/ \E h \in Hashes : create_memory_with_session(d, h)
           \/ \E e \in DOMAIN memories, h \in Hashes : update_memory_with_session(d, e, h)
           \/ \E e \in DOMAIN memories : delete_memory_with_session(d, e)
    BY <1>0, <1>4 DEF Memories, MemoryStep, register_memory, registryVars
  <2>3. a = d
    BY <2>1, <2>2 DEF create_memory_with_session, update_memory_with_session,
                      delete_memory_with_session
  <2>4. UNCHANGED budgets
    BY <1>4 DEF Memories, escrowVars
  <2>. QED  BY <2>2, <2>3, <2>4, MemoryWithin, KeptBudgetsWithin
<1>. QED  BY <1>1, <1>2, <1>3, <1>4 DEF Next

\* A session reaches the budget and the entries of its own owner only, and takes
\* at most the limit of one transaction, for any number of owners and sessions.
THEOREM SessionsStayWithin == Spec => DelegationBounded
<1>1. IInv /\ [Next]_vars =>
        [\A a \in DOMAIN uses : used(uses', a) > used(uses, a) =>
            BudgetWithin(a) /\ EntriesWithin(a)]_vars
  <2>. SUFFICES ASSUME IInv, Next, NEW a \in DOMAIN uses, used(uses', a) > used(uses, a)
                PROVE  BudgetWithin(a) /\ EntriesWithin(a)
    OBVIOUS
  <2>1. RegistryTypeOK /\ EscrowTypeOK
    BY DEF IInv, BudgetInv, TokenInv, EscrowTypeOK
  <2>2. a \in DOMAIN uses'
    <3>1. CASE a \in DOMAIN uses'
      BY <3>1
    <3>2. CASE a \notin DOMAIN uses'
      <4>1. used(uses', a) = 0 /\ used(uses, a) \in Nat
        BY <2>1, <3>2 DEF used, RegistryTypeOK
      <4>. QED  BY <4>1
    <3>. QED  BY <3>1, <3>2
  <2>. QED  BY <2>1, <2>2, ActsWithin
<1>. QED  BY <1>1, Invariance, PTL DEF Spec, DelegationBounded
=============================================================================
