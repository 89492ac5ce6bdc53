CONSTANTS
    Posted <- FromOutside
    MaxWork = 3
    Nothing = Nothing
SPECIFICATION Spec
INVARIANTS TypeOK StoppingIsQuiet HandOverKept
PROPERTIES TimerStartsNothing HandOverTakesPlace
