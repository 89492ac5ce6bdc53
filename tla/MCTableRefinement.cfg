CONSTANTS
    MaxElements = 2
    Keys <- ThreeKeys
    Values = {v1, v2}
    Threads = {t1, t2}
    SortingCriteria <- TwoLevels
    NoThread = NoThread
    NoData = NoData
    Unused = Unused
    NoCall = NoCall
    NoAnswer = NoAnswer
SYMMETRY Alike
SPECIFICATION Spec
INVARIANTS TypeOK NoLeakNoAlias LoneUpdateSucceeds
PROPERTY ImplementsMap
