SPECIFICATION Spec
CONSTANTS
    s1 = s1
    s2 = s2
    s3 = s3
    c1 = c1
    c2 = c2
    None = None
    Shards = {s1, s2}
    Clusters = {c1, c2}
    Home <- HomeOfTwo
    Requests = {r1, r2}
    ClientCap = 1
SYMMETRY Symmetry
INVARIANTS
    RoutedHome
    CacheBounded
