SPECIFICATION DeployerFairSpec
CONSTANTS
    p1 = p1
    g1 = g1
    n1 = n1
    n2 = n2
    d1 = d1
    d2 = d2
    Parents = {p1}
    GVKs = {g1}
    Namespaces = {n1}
    Workers = {w1}
    Informers = {i1}
    Registrations = {r1}
    RegisterChannelBufferSize = 1
    UnregisterChannelBufferSize = 1
    None = None
    Deployers = {d1}
    Objects <- OneObject
    MaxDrifts = 1
    MaxToggles = 0
    MaxFaults = 1
PROPERTIES
    BecomesReady
    DeletionCompletes
    DriftRepaired
CHECK_DEADLOCK FALSE
