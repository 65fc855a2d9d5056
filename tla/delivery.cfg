SPECIFICATION FairSpec
CONSTANTS
    n = n
    r1 = r1
    shared = shared
    own = own
    None = None
    Versions = {1, 2}
    Nested = {n}
    Reference <- SecondRefers
    Contents <- ThreeContents
    InitialContent <- FirstPublished
    Resources = {r1}
    ReferencePath <- OneDirect
    SkipVerify = {}
    SessionKeys = {shared}
    ComponentKey <- SharedKey
    ResourceKey <- AllShared
    DeployerKey <- AllShared
    CacheSize = 1
    MaxPublished = 2
    MaxFaults = 1
INVARIANTS
    TypeOK
    AppliedHasDigest
PROPERTIES
    ReportedWasPublished
    EventuallyDeployed
CHECK_DEADLOCK FALSE
