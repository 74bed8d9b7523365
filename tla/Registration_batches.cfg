SPECIFICATION Spec
CONSTANTS
    w = w
    s = s
    d = d
    t1 = t1
    t2 = t2
    w1 = w1
    c1 = c1
    c2 = c2
    None = None
    Callers = {w, s, d}
    Wizards = {w}
    Slots <- MCSlots
    KindOf <- MCKindOf
    ConnectionRef <- MCConnectionRef
    WarehouseRef <- MCWarehouseRef
    Items <- MCItems
    Batches <- MCBatches
    Connections = {c1}
    Ids <- MCIds
    Specs <- MCSpecs
    Writable <- MCWritable
    InitObjs <- MCInitObjs
    Revocable <- MCRevocable
    MaxItems = 2
    MaxChanges = 1
    MaxFaults = 1
INVARIANTS TypeOK WorkIsVouched ShownIsTrue
PROPERTIES ImplementsContract SubmissionEnds RetryConverges
CHECK_DEADLOCK FALSE
