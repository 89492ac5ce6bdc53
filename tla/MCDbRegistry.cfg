CONSTANTS
    Threads = {t1, t2}
    Keys = {k1, k2}
    Ids = {zero, a, e}
    NullId = zero
    Empty = {e}
    MaxRecords = 1
    MaxTables = 3
    NULL = NULL
    NoAnswer = NoAnswer
SYMMETRY Alike
SPECIFICATION Spec
INVARIANTS TypeOK NoTableLost
PROPERTY ImplementsStore
CHECK_DEADLOCK FALSE
