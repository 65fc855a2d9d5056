SPECIFICATION MCFairSpec
CONSTANTS
    Parents = {p1, p2}
    GVKs = {g1}
    Namespaces = {n1}
    Workers = {w1}
    Informers = {i1, i2}
    Registrations = {r1, r2, r3}
    RegisterChannelBufferSize = 1
    UnregisterChannelBufferSize = 1
    None = None
    MaxRequests = 4
INVARIANTS
    SyncedWatchDelivers
    NoLeakedHandler
    NoIdleInformer
PROPERTIES
    OperationFinishes
    WatchSyncs
CHECK_DEADLOCK FALSE
