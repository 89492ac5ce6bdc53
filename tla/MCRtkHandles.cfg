CONSTANTS
    Threads = {t1, t2}
    MAX_QS = 2
    MAX_MUTEXS = 2
    MaxQueues = 3
    NULL = NULL
SYMMETRY Alike
SPECIFICATION Spec
INVARIANTS TypeOK HandlesSeparate
CHECK_DEADLOCK FALSE
