\* Every bundle the vault exports can be imported again.
SPECIFICATION Spec
CONSTANTS
    MemoryIds = {m1}
    Contents = {c1, c2}
    MaxReceipts = 4
    MaxThrows = 0
INVARIANT ExportsImport
SYMMETRY Symmetry
CHECK_DEADLOCK FALSE
