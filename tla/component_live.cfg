SPECIFICATION FairSpec
CONSTANTS
    Versions = {1, 2}
    Digests = {d1, d2}
    None = None
    Specs <- FollowLatest
    Downgradable <- AllowedDown
    InitialVersions = {1}
    MaxChanges = 2
    MaxRemovals = 0
    MaxFailures = 1
    MaxSharing = 1
    MaxStale = 1
PROPERTIES
    EventuallyCurrent
CHECK_DEADLOCK FALSE
