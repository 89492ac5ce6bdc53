CONSTANTS
    MaxElements = 4
    Keys <- OrderKeys
    Values = {v1}
    Threads = {t1}
    SortingCriteria <- PrimaryAndSecondary
    NoThread = NoThread
    NoData = NoData
    Unused = Unused
    NoCall = NoCall
    NoAnswer = NoAnswer
SPECIFICATION Spec
INVARIANTS StrictlySorted WindowSound AnswersExact
PROPERTY MutexReleased
