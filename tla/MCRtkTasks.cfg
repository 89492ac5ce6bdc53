CONSTANTS
    Callers = {c1}
    MAX_THREADS = 2
    MaxTasks = 3
    MaxHalts = 2
    NULL = NULL
SPECIFICATION Spec
INVARIANTS TypeOK HandleNamesTask HaltEndsAll AbortedOnlyEarly
CHECK_DEADLOCK FALSE
PROPERTY HaltReturns
