\* Two processes: what an answered delete promises.
SPECIFICATION Spec
CONSTANTS
    Procs = {p1, p2}
    MemoryIds = {m1}
    Contents = {c1}
    PackLimit = 1
    BatchLimit = 1
    MaxReceipts = 6
    MaxCrashes = 0
INVARIANT AnsweredDeletesHold
CHECK_DEADLOCK FALSE
