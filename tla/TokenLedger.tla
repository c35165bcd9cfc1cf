---------------------------- MODULE TokenLedger ----------------------------
(***************************************************************************)
(* The SPL token program as cortex_token and cortex_treasury call it:      *)
(* mint_to and transfer between associated token accounts.  An associated  *)
(* token account is determined by its mint and the wallet or program       *)
(* address that holds it.                                                  *)
(***************************************************************************)
EXTENDS Integers, FiniteSetsExt

CONSTANTS Users,    \* wallets
          Mints,    \* mints whose authority is cortex_token's mint_authority address
          Amounts,  \* amounts passed to instructions
          U64Max    \* largest value of a u64

ASSUME LedgerAssumption == U64Max \in Nat /\ Amounts \subseteq 0 .. U64Max

\* Wallets and mints are 32-byte keys: there are finitely many.
ASSUME KeysAssumption == IsFiniteSet(Users) /\ IsFiniteSet(Mints)

VARIABLES balances,  \* amount of each token account
          supply     \* supply of each mint

ledgerVars == <<balances, supply>>

\* stake_vault_authority of cortex_token, and the treasury of each authority.
StakeVault == <<"stake_vault_authority">>
Wallet(u) == <<"wallet", u>>
TreasuryOf(u) == <<"treasury", u>>

Holders == {StakeVault} \cup {Wallet(u) : u \in Users} \cup {TreasuryOf(u) : u \in Users}

LedgerTypeOK == /\ balances \in [Mints -> [Holders -> 0 .. U64Max]]
                /\ supply \in [Mints -> 0 .. U64Max]

LedgerInit == /\ balances = [m \in Mints |-> [h \in Holders |-> 0]]
              /\ supply = [m \in Mints |-> 0]

\* mint_to: the balance and the supply are checked u64 sums.
mint_to(m, to, amount) ==
    /\ balances[m][to] + amount <= U64Max
    /\ supply[m] + amount <= U64Max
    /\ balances' = [balances EXCEPT ![m][to] = @ + amount]
    /\ supply' = [supply EXCEPT ![m] = @ + amount]

\* transfer, transfer_checked: both balances are checked sums, and an account may
\* transfer to itself.
transfer(m, from, to, amount) ==
    /\ balances[m][from] >= amount
    /\ from # to => balances[m][to] + amount <= U64Max
    /\ balances' = [balances EXCEPT ![m] =
                      [h \in Holders |-> @[h] - (IF h = from THEN amount ELSE 0)
                                              + (IF h = to THEN amount ELSE 0)]]
    /\ UNCHANGED supply
=============================================================================
