\* Two processes, one of which is killed once, at any point.
SPECIFICATION Spec
CONSTANTS
    Procs = {p1, p2}
    MemoryIds = {m1, m2}
    Contents = {c1, c2}
    PackLimit = 2
    BatchLimit = 2
    MaxReceipts = 5
    MaxCrashes = 1
INVARIANTS TypeOK LoadableVerifies ImportsWhole
PROPERTY DamagedNeedsOverwrite
SYMMETRY Symmetry
CHECK_DEADLOCK FALSE
