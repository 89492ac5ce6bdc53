CONSTANTS
    AliveInterval = 1
    BiteInterval = 10
    Never = Never
SPECIFICATION Spec
INVARIANTS TypeOK EndedIsUnwatched OnlyBusyIsBitten
PROPERTY StuckIsBitten
CHECK_DEADLOCK FALSE
