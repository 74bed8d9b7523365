SPECIFICATION FairSpec
CONSTANTS
    c1 = c1
    w1 = w1
    t1 = t1
    h1 = h1
    h2 = h2
    h3 = h3
    i1 = i1
    n1 = n1
    n2 = n2
    None = None
    Connections = {c1}
    Warehouses = {w1}
    Tables = {t1}
    Hosts = {h1}
    WarehouseIDs = {i1}
    TableNames = {n1}
    Provisioned <- AllProvisioned
    TableKind <- AllQueryable
    HostAnswers = {"ok", "denied"}
    TokenStates = {TRUE, FALSE}
    Deletable = {}
    MapMayFail = TRUE
    TenantSpecs <- AuthSpecs
    MaxGeneration <- OneEach
    MaxUID <- OneEach
PROPERTIES
    EventuallyReady
    EventuallyWithdrawn
