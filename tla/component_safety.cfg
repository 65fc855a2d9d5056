SPECIFICATION Spec
CONSTANTS
    Versions = {1, 2, 3}
    Digests = {d1, d2}
    None = None
    Specs <- EveryPolicy
    Downgradable <- AllowedDown
    InitialVersions = {3}
    MaxChanges = 2
    MaxRemovals = 1
    MaxFailures = 1
    MaxSharing = 1
    MaxStale = 1
SYMMETRY DigestSymmetry
INVARIANTS
    TypeOK
PROPERTIES
    ReportedDigestLive
    NoUnwantedDowngrade
CHECK_DEADLOCK FALSE
