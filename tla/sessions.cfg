SPECIFICATION MCSpec
CONSTANTS
    Configs = {h1, h2}
    Repositories = {q1, q2}
    Reconcilers = {c1, c2}
    Contexts = {x1, x2, x3}
    Sessions = {s1, s2, s3}
    Secrets = {v1}
    PublicKeys = {p1}
    ContextCacheSize = 1
    SessionCacheSize = 1
    None = None
    MaxCalls = 3
    MaxReplacements = 1
INVARIANTS
    TypeOK
    SessionOfContext
    VerificationKeyCurrent
PROPERTY
    ImplementsPool
CHECK_DEADLOCK FALSE
