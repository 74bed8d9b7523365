SPECIFICATION CalmSpec
CONSTANTS
    c1 = c1
    w1 = w1
    t1 = t1
    h1 = h1
    h2 = h2
    i1 = i1
    n1 = n1
    None = None
    Connections = {c1}
    Warehouses = {w1}
    Tables = {t1}
    Hosts = {h1, h2}
    WarehouseIDs = {i1}
    TableNames = {n1}
    Provisioned <- AllProvisioned
    TableKind <- AllQueryable
    HostAnswers = {"ok"}
    TokenStates = {TRUE}
    Deletable = {}
    MapMayFail = FALSE
    TenantSpecs <- HostSpecs
    MaxGeneration <- ConnectionTwice
    MaxUID <- OneEach
INVARIANTS
    AllowlistIsOfHost
