\* One process that is killed once, at any point.
SPECIFICATION FairSpec
CONSTANTS
    Procs = {p1}
    MemoryIds = {m1, m2}
    Contents = {c1, c2}
    PackLimit = 1
    BatchLimit = 2
    MaxReceipts = 7
    MaxCrashes = 1
INVARIANTS AnsweredDeletesHold AnsweredMemoriesServed
PROPERTY Recovers
CHECK_DEADLOCK FALSE
