SPECIFICATION FairSpec
CONSTANTS
    Objects <- Chain
    ConfigObjects <- TwoConfigs
    Specs <- ChainSpecs
    d1 = d1
    d2 = d2
    Data = {d1, d2}
    InitialData <- SameData
    Applicable = {d1, d2}
    None = None
    ContextCacheSize = 1
    MaxChanges = 1
    MaxFailures = 1
INVARIANTS
    TypeOK
    OnlyPropagated
    ContextHasData
PROPERTIES
    EventuallyEffective
CHECK_DEADLOCK FALSE
