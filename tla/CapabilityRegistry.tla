------------------------ MODULE CapabilityRegistry ------------------------
(***************************************************************************)
(* The capability_registry program (cortex-v3/programs): the capabilities  *)
(* an owner grants, the sessions that let a node sign for the owner, and   *)
(* the owner nonce that invalidates all of them at once.                   *)
(*                                                                         *)
(* Accounts.  A set of accounts is a function whose domain is the set of   *)
(* addresses where an account exists.  An address is the tuple of seeds it *)
(* is derived from.  An instruction either runs to its end or, when a      *)
(* constraint or a require! fails, changes nothing; so every check of an   *)
(* instruction is a guard of its action.                                   *)
(*                                                                         *)
(* Left out: created_at and updated_at, which nothing reads;               *)
(* categories_hash, which is stored and never read; rent and lamports; the *)
(* bump of every account whose creator stores it, so that the check of it  *)
(* succeeds.  A bump that is never stored is kept: it is what the check of *)
(* the address compares.                                                   *)
(***************************************************************************)
EXTENDS Integers, Sequences

CONSTANTS Owners,       \* wallets that own accounts
          Keys,         \* session keys, and wallets that capabilities are granted to
          ScopeSets,    \* the scope bitmaps sessions are created with, as sets of bits
          Limits,       \* the spending limits sessions are created with
          Labels,       \* scope strings of capabilities, of at most 64 bytes
          Expiries,     \* values of expires_at passed to instructions
          Amounts,      \* amounts passed to instructions
          DAY,          \* length of the rate-limit window
          U64Max,       \* largest value of a u64
          MaxTime,      \* bound: the clock stops here
          MaxNonce,     \* bound: pauses of one owner
          MaxUses       \* bound: delegated instructions through one session

Bits == {"MEMORY_CREATE", "MEMORY_UPDATE", "MEMORY_DELETE", "BUDGET_SPEND", "ROYALTY_ROUTE"}

Limit == [max_spend_per_tx : Nat, max_spend_per_day : Nat, max_ops_per_day : Nat]

ASSUME RegistryAssumption == /\ ScopeSets \subseteq SUBSET Bits
                             /\ Limits \subseteq Limit
                             /\ Amounts \subseteq 0 .. U64Max
                             /\ Expiries \subseteq Nat
                             /\ U64Max \in Nat
                             /\ DAY \in Nat \ {0}
                             /\ {MaxTime, MaxNonce, MaxUses} \subseteq Nat

VARIABLES now,           \* Clock::unix_timestamp
          capabilities,  \* Capability accounts
          sessions,      \* Session accounts
          ownerNonce,    \* OwnerNonce accounts: their nonce
          authorised,    \* history: sessions created and neither revoked nor paused since
          uses           \* history: the delegated instructions of each session

registryVars == <<now, capabilities, sessions, ownerNonce, authorised, uses>>

SessionAddress == [owner : Owners, session_key : Keys, nonce : Nat]
CapabilityAddress == [owner : Owners, granted_to : Keys, scope : Labels]

Session == [owner : Owners, session_key : Keys, nonce : Nat, owner_nonce : Nat,
            scope : SUBSET Bits, limits : Limit, spent_today : Nat, ops_today : Nat,
            window_start : Nat, expires_at : Nat, revoked : BOOLEAN]

Use == [amount : Nat, at : Nat, limits : Limit]

\* The accounts of f with r stored at a.
put(f, a, r) == [x \in DOMAIN f \cup {a} |-> IF x = a THEN r ELSE f[x]]

\* The accounts of f with the one at a closed.
close(f, a) == [x \in DOMAIN f \ {a} |-> f[x]]

\* The bump of a derived address.  It is searched for from 255 downwards and
\* is never 0 in practice, the value of a field that nobody assigned.
CanonicalBump == 255
UnsetBump == 0

\* An Anchor program writes a changed account back when its instruction ends
\* only if the program owns the account; otherwise the change is lost.
exit(program, stored, changed) == IF program = "capability_registry" THEN changed ELSE stored

RegistryTypeOK ==
    /\ now \in Nat
    /\ DOMAIN capabilities \subseteq CapabilityAddress
    /\ \A c \in DOMAIN capabilities : capabilities[c] \in [expires_at : Nat, bump : Nat]
    /\ DOMAIN sessions \subseteq SessionAddress
    /\ \A a \in DOMAIN sessions : sessions[a] \in Session
    /\ DOMAIN ownerNonce \subseteq Owners
    /\ \A o \in DOMAIN ownerNonce : ownerNonce[o] \in Nat
    /\ authorised \subseteq SessionAddress
    /\ DOMAIN uses \subseteq SessionAddress
    /\ \A a \in DOMAIN uses : uses[a] \in Seq(Use)

RegistryInit ==
    /\ now = 0
    /\ capabilities = [c \in {} |-> 0]
    /\ sessions = [a \in {} |-> 0]
    /\ ownerNonce = [o \in {} |-> 0]
    /\ authorised = {}
    /\ uses = [a \in {} |-> <<>>]

-----------------------------------------------------------------------------
(* mod session: what the delegated instructions call.                      *)

\* Mutant: the owner nonce is not compared.
require_session_activeAnyNonce(session, owner_nonce, owner, session_key, bit) ==
    /\ session.owner = owner
    /\ session.session_key = session_key
    /\ ~session.revoked
    /\ session.expires_at > now
    /\ bit # "0" => bit \in session.scope

require_session_active(session, owner_nonce, owner, session_key, bit) ==
    /\ session.owner = owner
    /\ session.session_key = session_key
    /\ ~session.revoked
    /\ session.expires_at > now
    /\ bit # "0" => bit \in session.scope
    /\ session.owner_nonce = owner_nonce

\* The session after the window is restarted when a day has passed.
windowed(session) ==
    IF now >= session.window_start + DAY
    THEN [session EXCEPT !.window_start = now, !.spent_today = 0, !.ops_today = 0]
    ELSE session

can_touch(session) == windowed(session).ops_today < session.limits.max_ops_per_day

touch_session(session) == [windowed(session) EXCEPT !.ops_today = @ + 1]

\* Mutant: the limit of one transaction is not checked.
check_spendDailyOnly(session, amount) ==
    /\ session.spent_today + amount <= U64Max
    /\ session.spent_today + amount <= session.limits.max_spend_per_day

check_spend(session, amount) ==
    /\ amount <= session.limits.max_spend_per_tx
    /\ session.spent_today + amount <= U64Max
    /\ session.spent_today + amount <= session.limits.max_spend_per_day

record_spend(session, amount) == [session EXCEPT !.spent_today = @ + amount]

-----------------------------------------------------------------------------
(* Instructions of the owner.                                              *)

\* grant never assigns capability.bump.
grant(o, k, label, expires) ==
    LET c == [owner |-> o, granted_to |-> k, scope |-> label]
    IN  /\ capabilities' = put(capabilities, c, [expires_at |-> expires, bump |-> UnsetBump])
        /\ UNCHANGED <<now, sessions, ownerNonce, authorised, uses>>

\* RevokeCapability: the address is derived again with the stored bump.
can_revoke(c) == c \in DOMAIN capabilities /\ capabilities[c].bump = CanonicalBump

revoke(c) ==
    /\ can_revoke(c)
    /\ capabilities' = close(capabilities, c)
    /\ UNCHANGED <<now, sessions, ownerNonce, authorised, uses>>

\* The nonce of an owner whose OwnerNonce account was just created is 0.
nonceOf(o) == IF o \in DOMAIN ownerNonce THEN ownerNonce[o] ELSE 0

\* The account lies at the owner's nonce, yet session.nonce is always 0.
newSession(o, k, scope, limits, expires) ==
    [owner |-> o, session_key |-> k, nonce |-> 0, owner_nonce |-> nonceOf(o),
     scope |-> scope, limits |-> limits, spent_today |-> 0, ops_today |-> 0,
     window_start |-> now, expires_at |-> expires, revoked |-> FALSE]

create_session(o, k, scope, limits, expires) ==
    LET a == [owner |-> o, session_key |-> k, nonce |-> nonceOf(o)]
    IN  /\ a \notin DOMAIN sessions
        /\ sessions' = put(sessions, a, newSession(o, k, scope, limits, expires))
        /\ ownerNonce' = put(ownerNonce, o, nonceOf(o))
        /\ authorised' = authorised \cup {a}
        /\ uses' = put(uses, a, <<>>)
        /\ UNCHANGED <<now, capabilities>>

\* The seeds of ExtendSession and RevokeSession are read from the account.
seedsMatch(a) == /\ a \in DOMAIN sessions
                 /\ a.session_key = sessions[a].session_key
                 /\ a.nonce = sessions[a].nonce

\* Every optional argument is a new value or leaves the field as it is.
extend_session(a, scope, perTx, perDay, ops, expires) ==
    /\ seedsMatch(a)
    /\ sessions[a].owner = a.owner
    /\ sessions' = [sessions EXCEPT ![a].scope = scope,
                      ![a].limits = [max_spend_per_tx |-> perTx, max_spend_per_day |-> perDay,
                                     max_ops_per_day |-> ops],
                      ![a].expires_at = expires]
    /\ UNCHANGED <<now, capabilities, ownerNonce, authorised, uses>>

revoke_session(a) ==
    /\ seedsMatch(a)
    /\ sessions[a].owner = a.owner
    /\ sessions' = close(sessions, a)
    /\ authorised' = authorised \ {a}
    /\ UNCHANGED <<now, capabilities, ownerNonce, uses>>

\* checked_add(1) would panic at the largest u64; the bound comes first.
pause_all_sessions(o) ==
    /\ o \in DOMAIN ownerNonce
    /\ ownerNonce[o] < MaxNonce
    /\ ownerNonce' = [ownerNonce EXCEPT ![o] = @ + 1]
    /\ authorised' = {a \in authorised : a.owner # o}
    /\ UNCHANGED <<now, capabilities, sessions, uses>>

\* The cluster's clock.
Tick == /\ now < MaxTime
        /\ now' = now + 1
        /\ UNCHANGED <<capabilities, sessions, ownerNonce, authorised, uses>>

-----------------------------------------------------------------------------
(* What the account constraints and the first calls of every delegated     *)
(* instruction check, and what becomes of the session account afterwards.  *)

delegable(a, bit) ==
    /\ a \in DOMAIN sessions
    /\ sessions[a].nonce = a.nonce
    /\ a.owner \in DOMAIN ownerNonce
    /\ require_session_active(sessions[a], ownerNonce[a.owner], a.owner, a.session_key, bit)
    /\ can_touch(sessions[a])

delegate(program, a, session, amount) ==
    /\ a \in DOMAIN uses /\ Len(uses[a]) < MaxUses
    /\ sessions' = [sessions EXCEPT ![a] = exit(program, @, session)]
    /\ uses' = [uses EXCEPT ![a] = Append(@, [amount |-> amount, at |-> now,
                                              limits |-> session.limits])]
    /\ UNCHANGED <<now, capabilities, ownerNonce, authorised>>

-----------------------------------------------------------------------------

CapabilityStep == \E o \in Owners, k \in Keys, label \in Labels, t \in Expiries : grant(o, k, label, t)

RevokeStep == \E c \in DOMAIN capabilities : revoke(c)

OwnerStep ==
    \/ \E o \in Owners, k \in Keys, scope \in ScopeSets, l \in Limits, t \in Expiries :
          create_session(o, k, scope, l, t)
    \/ \E a \in DOMAIN sessions, t \in Expiries :
          \E scope \in {sessions[a].scope} \cup ScopeSets,
             perTx \in {sessions[a].limits.max_spend_per_tx} \cup {l.max_spend_per_tx : l \in Limits},
             perDay \in {sessions[a].limits.max_spend_per_day} \cup {l.max_spend_per_day : l \in Limits},
             ops \in {sessions[a].limits.max_ops_per_day} \cup {l.max_ops_per_day : l \in Limits} :
             extend_session(a, scope, perTx, perDay, ops, t)
    \/ \E a \in DOMAIN sessions : revoke_session(a)
    \/ \E o \in Owners : pause_all_sessions(o)

===========================================================================
