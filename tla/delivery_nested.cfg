SPECIFICATION FairSpec
CONSTANTS
    n = n
    r1 = r1
    shared = shared
    own = own
    None = None
    Versions = {1, 2}
    Nested = {n}
    Reference <- FirstRefers
    Contents <- ThreeContents
    InitialContent <- BothPublished
    Resources = {r1}
    ReferencePath <- OneNested
    SkipVerify = {}
    SessionKeys = {shared}
    ComponentKey <- SharedKey
    ResourceKey <- AllShared
    DeployerKey <- AllShared
    CacheSize = 1
    MaxPublished = 0
    MaxFaults = 0




PROPERTIES
    EventuallyDeployed
CHECK_DEADLOCK FALSE
