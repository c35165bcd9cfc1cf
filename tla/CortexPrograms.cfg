\* Two owners and one session key on every session-wallet program.
SPECIFICATION Spec
CONSTANTS
    Owners = {o1, o2}
    Keys = {k1}
    ScopeSets <- MCScopes
    Limits <- MCLimits
    Labels = {p1}
    Expiries = {1, 2}
    Amounts = {1, 2}
    DAY = 1
    U64Max = 2
    MaxTime = 1
    MaxNonce = 1
    MaxUses = 1
    Mints = {sal}
    InitialTokens = 1
    Payees = {p1}
    Works = {p1}
    Hashes = {h1, h2}
    RoyaltyBps = {500}
    MaxAccounts = 4
SYMMETRY MCSymmetry
CONSTRAINT SmallLedger
INVARIANTS TypeOK BudgetConserved TokensBacked
PROPERTIES OnlyAuthorisedAct DelegationBounded
