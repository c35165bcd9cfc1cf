\* Two memories with two contents each; one operation throws half way.
SPECIFICATION Spec
CONSTANTS
    MemoryIds = {m1, m2}
    Contents = {c1, c2}
    MaxReceipts = 5
    MaxThrows = 1
INVARIANTS TypeOK ReceiptChainVerifies DeletedStaysTombstoned ReadsWereActive ActiveRebuildable ImportRestores
PROPERTY NoResurrection
SYMMETRY Symmetry
CHECK_DEADLOCK FALSE
