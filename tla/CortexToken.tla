---------------------------- MODULE CortexToken ----------------------------
(***************************************************************************)
(* The cortex_token program (cortex-v3/programs/cortex_token/src/lib.rs):  *)
(* minting, transfers, stakes, locks of stakes as veSAL, proposals and     *)
(* votes weighted by veSAL.                                                *)
(*                                                                         *)
(* As in CapabilityRegistry, a set of accounts is a function from the      *)
(* addresses where one exists, an address is the tuple of its seeds, and   *)
(* every check of an instruction is a guard of its action.  Every account  *)
(* of this program stores its bump, so bumps are left out.                 *)
(***************************************************************************)
EXTENDS TokenLedger

CONSTANTS Nonces,       \* nonces of stakes
          ProposalIds,  \* ids of proposals
          Durations,    \* values of duration_secs
          I64Max,       \* largest value of an i64
          MaxTime       \* bound: the clock stops here

I64 == -I64Max - 1 .. I64Max

ASSUME TokenAssumption == I64Max \in Nat /\ Durations \subseteq I64 /\ MaxTime \in Nat

VARIABLES now,        \* Clock::unix_timestamp
          stakes,     \* StakeEntry accounts
          vesals,     \* VeSal accounts, one at most for each stake
          proposals,  \* Proposal accounts
          votes       \* VoteReceipt accounts

tokenVars == <<now, stakes, vesals, proposals, votes>>

StakeAddress == [owner : Users, nonce : Nonces]
ProposalAddress == [proposer : Users, id : ProposalIds]
VoteAddress == [proposal : ProposalAddress, voter : Users]

StakeEntry == [mint : Mints, amount : Nat]
VeSal == [amount : Nat, lock_end : I64]
Proposal == [yes_votes : 0 .. U64Max, no_votes : 0 .. U64Max]
VoteReceipt == [weight : Nat, side : {0, 1}]

TokenTypeOK == /\ now \in 0 .. MaxTime
               /\ DOMAIN stakes \subseteq StakeAddress
               /\ \A s \in DOMAIN stakes : stakes[s] \in StakeEntry
               /\ DOMAIN vesals \subseteq DOMAIN stakes
               /\ \A s \in DOMAIN vesals : vesals[s] \in VeSal
               /\ DOMAIN proposals \subseteq ProposalAddress
               /\ \A p \in DOMAIN proposals : proposals[p] \in Proposal
               /\ DOMAIN votes \subseteq [proposal : DOMAIN proposals, voter : Users]
               /\ \A v \in DOMAIN votes : votes[v] \in VoteReceipt

TokenInit == /\ now = 0
             /\ stakes = <<>>
             /\ vesals = <<>>
             /\ proposals = <<>>
             /\ votes = <<>>

\* The accounts f with the account x at address a, new or changed.
put(f, a, x) == [b \in DOMAIN f \cup {a} |-> IF b = a THEN x ELSE f[b]]

-----------------------------------------------------------------------------

Tick == /\ now < MaxTime
        /\ now' = now + 1
        /\ UNCHANGED <<ledgerVars, stakes, vesals, proposals, votes>>

\* The treasury account is any token account of the mint.
mint_to_treasury(m, treasury, amount) ==
    /\ mint_to(m, treasury, amount)
    /\ UNCHANGED tokenVars

\* The signer's own account pays; the recipient is any holder.
transfer_tokens(m, from, to, amount) ==
    /\ transfer(m, Wallet(from), to, amount)
    /\ UNCHANGED tokenVars

\* Mutant: the account may exist already.
stake_for_vesal_again(owner, nonce, m, amount) ==
    /\ transfer(m, Wallet(owner), StakeVault, amount)
    /\ stakes' = put(stakes, [owner |-> owner, nonce |-> nonce], [mint |-> m, amount |-> amount])
    /\ UNCHANGED <<now, vesals, proposals, votes>>

\* Mutant: the tokens stay with their owner.
stake_for_vesal_unbacked(owner, nonce, m, amount) ==
    LET s == [owner |-> owner, nonce |-> nonce]
    IN /\ s \notin DOMAIN stakes
       /\ balances[m][Wallet(owner)] >= amount
       /\ stakes' = put(stakes, s, [mint |-> m, amount |-> amount])
       /\ UNCHANGED <<ledgerVars, now, vesals, proposals, votes>>

\* A stake is a new account (init), and nothing ever takes its tokens back.
stake_for_vesal(owner, nonce, m, amount) ==
    LET s == [owner |-> owner, nonce |-> nonce]
    IN /\ s \notin DOMAIN stakes
       /\ transfer(m, Wallet(owner), StakeVault, amount)
       /\ stakes' = put(stakes, s, [mint |-> m, amount |-> amount])
       /\ UNCHANGED <<now, vesals, proposals, votes>>

\* Mutant: the stake account is closed when it is locked.
lock_vesal_closing(s, duration_secs) ==
    /\ s \in DOMAIN stakes
    /\ now + duration_secs \in I64
    /\ vesals' = put(vesals, s, [amount |-> stakes[s].amount, lock_end |-> now + duration_secs])
    /\ stakes' = [t \in DOMAIN stakes \ {s} |-> stakes[t]]
    /\ UNCHANGED <<ledgerVars, now, proposals, votes>>

\* The owner locks the whole stake, once: the VeSal account is new (init).
\* The end of the lock is a checked i64 sum.
lock_vesal(s, duration_secs) ==
    /\ s \in DOMAIN stakes
    /\ s \notin DOMAIN vesals
    /\ now + duration_secs \in I64
    /\ vesals' = put(vesals, s, [amount |-> stakes[s].amount, lock_end |-> now + duration_secs])
    /\ UNCHANGED <<ledgerVars, now, stakes, proposals, votes>>

create_proposal(proposer, id) ==
    LET p == [proposer |-> proposer, id |-> id]
    IN /\ p \notin DOMAIN proposals
       /\ proposals' = put(proposals, p, [yes_votes |-> 0, no_votes |-> 0])
       /\ UNCHANGED <<ledgerVars, now, stakes, vesals, votes>>

\* The receipt is found or made (init_if_needed); a new one has weight 0, and a
\* receipt of weight 0 counts as none.
weightOf(v) == IF v \in DOMAIN votes THEN votes[v].weight ELSE 0

\* The proposal with the weight added to one of its tallies.
tallied(proposal, side, weight) ==
    IF side = 1 THEN [proposal EXCEPT !.yes_votes = @ + weight]
                ELSE [proposal EXCEPT !.no_votes = @ + weight]

\* Mutant: an earlier vote of the same voter is not looked for.
voteEachStake(s, p, side) ==
    LET v == [proposal |-> p, voter |-> s.owner]
        weight == vesals[s].amount
    IN /\ s \in DOMAIN vesals /\ p \in DOMAIN proposals
       /\ vesals[s].lock_end > now
       /\ tallied(proposals[p], side, weight) \in Proposal
       /\ proposals' = put(proposals, p, tallied(proposals[p], side, weight))
       /\ votes' = put(votes, v, [weight |-> weight, side |-> side])
       /\ UNCHANGED <<ledgerVars, now, stakes, vesals>>

\* The voter is the owner of the stake s; the tally is a checked u64 sum.
vote(s, p, side) ==
    LET v == [proposal |-> p, voter |-> s.owner]
        weight == vesals[s].amount
    IN /\ s \in DOMAIN vesals /\ p \in DOMAIN proposals
       /\ weightOf(v) = 0
       /\ vesals[s].lock_end > now
       /\ tallied(proposals[p], side, weight) \in Proposal
       /\ proposals' = put(proposals, p, tallied(proposals[p], side, weight))
       /\ votes' = put(votes, v, [weight |-> weight, side |-> side])
       /\ UNCHANGED <<ledgerVars, now, stakes, vesals>>

TokenStep ==
    \/ Tick
    \/ \E m \in Mints, amount \in Amounts :
         \/ \E h \in Holders : mint_to_treasury(m, h, amount)
         \/ \E u \in Users, h \in Holders : transfer_tokens(m, u, h, amount)
         \/ \E u \in Users, n \in Nonces : stake_for_vesal(u, n, m, amount)
    \/ \E s \in DOMAIN stakes, d \in Durations : lock_vesal(s, d)
    \/ \E u \in Users, id \in ProposalIds : create_proposal(u, id)
    \/ \E s \in DOMAIN vesals, p \in DOMAIN proposals, side \in {0, 1} : vote(s, p, side)
=============================================================================
