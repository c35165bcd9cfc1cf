\* The documented daily limits of a session.
SPECIFICATION FullSpec
CONSTANTS
    Owners = {o1}
    Keys = {k1}
    ScopeSets <- MCScopes
    Limits <- MCLimits
    Labels = {}
    Expiries = {3}
    Amounts = {1}
    DAY = 2
    U64Max = 3
    MaxTime = 2
    MaxNonce = 1
    MaxUses = 3
    Mints = {}
    InitialTokens = 2
    Payees = {}
    Works = {}
    Hashes = {}
    RoyaltyBps = {500}
    MaxAccounts = 4
INVARIANTS
    DailyLimitsHold
