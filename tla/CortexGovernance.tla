-------------------------- MODULE CortexGovernance --------------------------
(***************************************************************************)
(* cortex_token and cortex_treasury on one token ledger: any wallet        *)
(* submits instructions of both in any order, and the clock advances.      *)
(***************************************************************************)
EXTENDS CortexToken, CortexTreasury

vars == <<ledgerVars, tokenVars, treasuries>>

TypeOK == LedgerTypeOK /\ TokenTypeOK /\ TreasuryTypeOK

Init == LedgerInit /\ TokenInit /\ TreasuryInit

Next == \/ TokenStep /\ UNCHANGED treasuries
        \/ TreasuryStep /\ UNCHANGED tokenVars

Spec == Init /\ [][Next]_vars

-----------------------------------------------------------------------------

stakedAmounts == [s \in DOMAIN stakes |-> stakes[s].amount]

stakedOf(m) == SumFunctionOnSet(stakedAmounts, {s \in DOMAIN stakes : stakes[s].mint = m})

\* The stake vault holds at least what the stakes of its mint record: no
\* transfer, deposit or withdrawal touches staked tokens.
StakesBacked == \A m \in Mints : stakedOf(m) <= balances[m][StakeVault]

voteWeights == [v \in DOMAIN votes |-> votes[v].weight]

votesOf(p, side) ==
    SumFunctionOnSet(voteWeights, {v \in DOMAIN votes : v.proposal = p /\ votes[v].side = side})

\* The tallies of a proposal are the sums of the vote receipts on each side,
\* although a receipt of weight 0 may be overwritten by a second vote.
VotesTallied == \A p \in DOMAIN proposals : /\ proposals[p].yes_votes = votesOf(p, 1)
                                            /\ proposals[p].no_votes = votesOf(p, 0)

\* A proposal never gathers more votes than there are staked tokens: a wallet
\* with several stakes votes with one of them only, and a stake votes once.
VotesBackedByStake ==
    \A p \in DOMAIN proposals :
      proposals[p].yes_votes + proposals[p].no_votes <= SumFunction([m \in Mints |-> stakedOf(m)])

\* A vote that counted is final, and so is the mint a treasury is bound to.
BindingsFinal ==
    [][/\ \A v \in DOMAIN votes : votes[v].weight > 0 => v \in DOMAIN votes' /\ votes'[v] = votes[v]
       /\ \A a \in DOMAIN treasuries :
            a \in DOMAIN treasuries' /\ treasuries'[a] = treasuries[a]]_vars
=============================================================================
