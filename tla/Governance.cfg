\* Two wallets with two stakes each: stakes, locks, votes and treasuries.
SPECIFICATION Spec
CONSTANTS
    Users = {u1, u2}
    Mints = {sal}
    Amounts = {0, 1}
    U64Max = 1
    Nonces = {n1, n2}
    ProposalIds = {1}
    Durations = {1, 2}
    I64Max = 2
    MaxTime = 1
INVARIANTS TypeOK StakesBacked VotesTallied VotesBackedByStake
PROPERTY BindingsFinal
SYMMETRY Symmetry
CHECK_DEADLOCK FALSE
