SPECIFICATION FairSpec
CONSTANTS
    Items <- TwoItems
    Errors <- TwoErrors
    Capacities <- UpToTwo
    MaxChanges = 2
    MaxFailures = 3
INVARIANTS
    TypeOK
    HistoryTrue
    SettledIsReplicated
    NoRepeatedFailure
PROPERTIES
    HistoryBounded
    EventuallyReplicated
CHECK_DEADLOCK FALSE
