SPECIFICATION QuerySpec
CONSTANTS
    c1 = c1
    w1 = w1
    t1 = t1
    h1 = h1
    i1 = i1
    n1 = n1
    n2 = n2
    None = None
    Connections = {c1}
    Warehouses = {w1}
    Tables = {t1}
    Hosts = {h1}
    WarehouseIDs = {i1}
    TableNames = {n1, n2}
    Provisioned <- AllProvisioned
    TableKind <- AllQueryable
    HostAnswers = {"ok", "unavailable"}
    TokenStates = {TRUE, FALSE}
    Deletable = {t1}
    MapMayFail = FALSE
    TenantSpecs <- TableSpecs
    MaxGeneration <- TableTwice
    MaxUID <- OneEach
INVARIANTS
    ReadsAreAuthorized
    TargetIsVouched
    AnswerMatchesCause
