CONSTANTS
    Senders = {s1, s2}
    Blocking = {r1}
    Timed = {r2, r3}
    Messages = {m1, m2}
    Cells = {c1, c2}
    Garbage = Garbage
    None = None
SPECIFICATION Spec
INVARIANTS TypeOK CellsAccounted UndefinedNeedsRival NoLostWake
PROPERTIES Delivered ImplementsFifo
CHECK_DEADLOCK FALSE
