CONSTANTS
    Posted <- UntilLocked
    MaxWork = 1
    Nothing = Nothing
SPECIFICATION Spec
PROPERTY FrequencyDwellEnds
