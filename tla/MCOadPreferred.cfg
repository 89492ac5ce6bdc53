CONSTANTS
    Posted <- PreferredOnly
    MaxWork = 1
    Nothing = Nothing
SPECIFICATION Spec
PROPERTY PreferredDwellEnds
