SPECIFICATION FairSpec
CONSTANTS
    Objects <- TwoLinks
    Existing <- None
    Omitted = ""
    MaxFailures = 1
    MaxToggles = 1
INVARIANTS
    TypeOK
    KnownReferenceProtects
    ReadyAfterParent
PROPERTIES
    BecomesReady
    DeletionCompletes
CHECK_DEADLOCK FALSE
