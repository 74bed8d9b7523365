SPECIFICATION Spec
CONSTANTS
    None = None
    Clusters = {c1}
    Tokens = {t1, t2, t3}
    Hosts = {h1}
    Requests = {r1, r2}
    Capacity = 2
    TTL = 1
SYMMETRY Symmetry
INVARIANTS
    OwnClient
    CachesBounded
PROPERTY
    JustUsedIsKept
