SPECIFICATION MCFairSpec
CONSTANTS
    Parents = {p1}
    GVKs = {g1}
    Namespaces = {n1, n2}
    Workers = {w1, w2}
    Informers = {i1, i2}
    Registrations = {r1, r2}
    RegisterChannelBufferSize = 1
    UnregisterChannelBufferSize = 1
    None = None
    MaxRequests = 4
INVARIANTS
    TypeOK
    InstalledTaskAttached
    ShutdownStopsWatches
PROPERTIES
    ShutdownCompletes
CHECK_DEADLOCK FALSE
