SPECIFICATION Spec
CONSTANTS
    Listings <- MCListings
    MaxPages = 4
    Tokens <- MCTokens
    Entries <- MCEntries
    Requests <- MCRequests
    Bad = Bad
    Responses <- MCResponses
    Inventories <- MCInventories
    MaxColumns = 2
    MaxRows = 2
    MaxTables = 3
    MaxBytes = 30
    MetaBytes = 2
    RefBytes = 3
    PlaceholderBytes = 5
    ColumnBytes = 3
    FlagBytes = 3
    EnvelopeBytes = 4
    ReserveBytes = 6
    NoToken = NoToken
    Null = Null
INVARIANTS TypeOK WalkIsBounded VerdictIsJustified StatementIsAsked AnswerIsLargest TruncationIsReported FitsTheWire
PROPERTIES CallEnds
