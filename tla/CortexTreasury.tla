--------------------------- MODULE CortexTreasury ---------------------------
(***************************************************************************)
(* The cortex_treasury program                                             *)
(* (cortex-v3/programs/cortex_treasury/src/lib.rs): one treasury for each  *)
(* authority, bound to a mint by the first initialize.  The vault is the   *)
(* treasury's associated account of that mint, so the vault checks and the *)
(* mint checks say the same.                                               *)
(***************************************************************************)
EXTENDS TokenLedger

VARIABLE treasuries  \* Treasury accounts: the mint of each

TreasuryTypeOK == /\ DOMAIN treasuries \subseteq Users
                  /\ \A a \in DOMAIN treasuries : treasuries[a] \in Mints

TreasuryInit == treasuries = <<>>

\* init_if_needed: the first call binds the mint, a later one must name it.
initialize(authority, m) ==
    /\ authority \in DOMAIN treasuries => treasuries[authority] = m
    /\ treasuries' = [a \in DOMAIN treasuries \cup {authority} |->
                        IF a = authority THEN m ELSE treasuries[a]]
    /\ UNCHANGED ledgerVars

deposit(authority, amount) ==
    /\ authority \in DOMAIN treasuries
    /\ amount > 0
    /\ transfer(treasuries[authority], Wallet(authority), TreasuryOf(authority), amount)
    /\ UNCHANGED treasuries

\* The recipient is any holder of an account of the mint.
withdraw(authority, recipient, amount) ==
    /\ authority \in DOMAIN treasuries
    /\ amount > 0
    /\ balances[treasuries[authority]][TreasuryOf(authority)] >= amount
    /\ transfer(treasuries[authority], TreasuryOf(authority), recipient, amount)
    /\ UNCHANGED treasuries

TreasuryStep ==
    \E u \in Users : \/ \E m \in Mints : initialize(u, m)
                     \/ \E amount \in Amounts :
                          deposit(u, amount) \/ \E h \in Holders : withdraw(u, h, amount)
=============================================================================
