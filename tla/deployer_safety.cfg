SYMMETRY Symmetric
SPECIFICATION DeployerSpec
CONSTANTS
    p1 = p1
    g1 = g1
    n1 = n1
    n2 = n2
    d1 = d1
    d2 = d2
    Parents = {p1}
    GVKs = {g1}
    Namespaces = {n1, n2}
    Workers = {w1}
    Informers = {i1, i2}
    Registrations = {r1, r2}
    RegisterChannelBufferSize = 1
    UnregisterChannelBufferSize = 1
    None = None
    Deployers = {d1}
    Objects <- TwoObjects
    MaxDrifts = 0
    MaxToggles = 1
    MaxFaults = 2
INVARIANTS
    ReadyDeployerWatched
CHECK_DEADLOCK FALSE
