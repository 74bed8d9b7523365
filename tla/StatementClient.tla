-------------------------- MODULE StatementClient --------------------------
(***************************************************************************)
(* The calls backend.StatementClient and importapi.Client make to a        *)
(* Databricks workspace, and what the layers above make of an answer:      *)
(* validating a Connection, a Warehouse and a Table, discovering what can  *)
(* be registered, making the statement of a query, and running a query     *)
(* whose result is cut to its limits by the backend, by the tenant         *)
(* executor and by the front end that sends it, the action handler or the  *)
(* MCP server; and list_tables, whose answer is cut in the same way.       *)
(*                                                                         *)
(* One call is made at a time: calls share nothing.  Each HTTP exchange    *)
(* and each round of a loop is a step.  The workspace may answer anything: *)
(* an error, a listing that is sorted out page by page or one whose tokens *)
(* come back, rows that are shorter or longer than the schema, columns     *)
(* that have the same name.                                                *)
(***************************************************************************)
EXTENDS Naturals, Sequences, FiniteSets, FiniteSetsExt, Functions, SequencesExt

CONSTANTS
    Listings,       \* what a catalog may hold: [honest, pages, at, type]
    MaxPages,       \* pages getTableSummary asks for at most
    Tokens,         \* page tokens
    Entries,        \* what discovery may meet: pages of [resource, entries]
    Requests,       \* query requests: [columns, limit, schema]
    Bad,            \* a column name that is no identifier
    Responses,      \* results of statements: [columns, rows, cut]
    Inventories,    \* the tenant's Tables, in order: sequences of [ok, bytes]
    MaxColumns, MaxRows, MaxTables,
    MaxBytes,       \* MaxQueryBytes
    MetaBytes,      \* a result without reference, columns and rows
    RefBytes,       \* the name of a Table
    PlaceholderBytes, \* the reference the backend uses in its place
    ColumnBytes, FlagBytes,
    EnvelopeBytes,  \* an action's envelope around its result
    ReserveBytes,   \* what the MCP server sets aside for its framing
    NoToken, Null

ASSUME LimitsAssumption ==
    /\ MaxPages \in Nat \ {0} /\ MaxBytes \in Nat
    /\ MaxColumns \in Nat /\ MaxRows \in Nat /\ MaxTables \in Nat

\* The pages of an honest listing have numbers, and having no token is not one
\* of them.
ASSUME ListingsAssumption ==
    /\ NoToken \notin Nat
    /\ \A l \in Listings : l.honest => l.pages \in Nat \ {0} /\ l.at \in 0..l.pages

\* Columns, entries, rows and Tables come in sequences, and have lengths.
ASSUME InputsAssumption ==
    /\ \A q \in Requests : q.columns \in Seq(ToSet(q.columns)) /\ q.limit \in Nat
    /\ \A page \in Entries : page.entries \in Seq(ToSet(page.entries))
    /\ \A x \in Responses :
          /\ x.columns \in Seq(ToSet(x.columns)) /\ x.cut \in BOOLEAN
          /\ x.rows \in Seq([width : Nat, bytes : Nat])
    /\ \A v \in Inventories : v \in Seq([ok : BOOLEAN, bytes : Nat])

\* The backend's placeholder is no longer than a reference in its envelope, an
\* empty result fits either wire, and an envelope is at most half as long as the
\* limit and the reserve together.
ASSUME BytesAssumption ==
    /\ {MetaBytes, RefBytes, PlaceholderBytes, ColumnBytes, FlagBytes, EnvelopeBytes,
        ReserveBytes} \subseteq Nat
    /\ PlaceholderBytes <= RefBytes + EnvelopeBytes
    /\ 2 * (MetaBytes + RefBytes + FlagBytes) + ReserveBytes <= MaxBytes
    /\ MetaBytes + RefBytes + FlagBytes + EnvelopeBytes <= MaxBytes
    /\ 2 * EnvelopeBytes <= MaxBytes + ReserveBytes

VARIABLE call       \* the call that is being made

Ops == {"connection", "warehouse", "table", "discovery", "select", "action", "mcp", "list"}

\* An HTTP exchange: an answer that can be used, a refusal by status (401 or
\* 403, 404, 408 or 429 or 5xx, any other), a network failure, and an answer
\* that is not JSON, too long or not SUCCEEDED.
Statuses == {"ok", "denied", "notFound", "busy", "refused", "network", "garbled"}

Verdicts == {"None", "Ready", "AccessDenied", "ResourceNotFound",
             "DatabricksUnavailable", "UnsupportedTableType", "ValidationFailed",
             "InvalidControls", "NoSchema", "NotInSchema"}

\* ClassifyValidationError.
Classify(status) ==
    CASE status = "denied"              -> "AccessDenied"
      [] status = "notFound"            -> "ResourceNotFound"
      [] status \in {"busy", "network"} -> "DatabricksUnavailable"
      [] OTHER                          -> "ValidationFailed"

Empty == [columns |-> <<>>, rows |-> <<>>, truncated |-> FALSE]

\* `input' is what the call is given or meets, `asked' the page tokens sent so
\* far, `met' the statuses met so far; `pass' counts the layers that have
\* dealt with the request or bounded the result.
Idle == [op |-> "none", stage |-> "idle", input |-> Null, asked |-> <<>>, met |-> {},
         verdict |-> "None", pass |-> 0, limit |-> 0, result |-> Empty]

At(stage) == call.stage = stage

Goto(stage) == call' = [call EXCEPT !.stage = stage]

Conclude(status, verdict) ==
    call' = [call EXCEPT !.stage = "done", !.met = @ \cup {status}, !.verdict = verdict]
-----------------------------------------------------------------------------
(***************************************************************************)
(* Validation.                                                             *)
(***************************************************************************)
\* ValidateConnection: the second current-user endpoint is tried only where
\* the first one does not exist.
StartConnection ==
    /\ At("idle")
    /\ call' = [Idle EXCEPT !.op = "connection", !.stage = "user"]

CurrentUser(status) ==
    /\ At("user")
    /\ IF status = "notFound" /\ call.pass = 0
       THEN call' = [call EXCEPT !.pass = 1, !.met = @ \cup {status}]
       ELSE Conclude(status, IF status = "ok" THEN "Ready" ELSE Classify(status))

\* ValidateWarehouse.
StartWarehouse ==
    /\ At("idle")
    /\ call' = [Idle EXCEPT !.op = "warehouse", !.stage = "warehouse"]

WarehouseAnswers(status) ==
    /\ At("warehouse")
    /\ Conclude(status, IF status = "ok" THEN "Ready" ELSE Classify(status))

\* ValidateTable: getTableSummary's first page.
StartTable(listing) ==
    /\ At("idle")
    /\ call' = [Idle EXCEPT !.op = "table", !.stage = "page", !.input = listing,
                            !.asked = <<NoToken>>]

\* What a page may hold: whether the table is on it, and the next token.  The
\* pages of an honest listing follow one another by number; any other one
\* answers what it likes.
Pages(listing, token) ==
    LET page == IF token = NoToken THEN 1 ELSE token IN
    IF listing.honest
    THEN {[hit |-> page = listing.at,
           next |-> IF page < listing.pages THEN page + 1 ELSE NoToken]}
    ELSE [hit : BOOLEAN, next : Tokens \cup {NoToken}]

\* Slip: the listing is taken to end at the page limit.
PageGivesUp(page) ==
    /\ At("page")
    /\ page \in Pages(call.input, Last(call.asked))
    /\ IF page.hit
       THEN IF call.input.type = "METRIC_VIEW"
            THEN Conclude("ok", "UnsupportedTableType") ELSE Goto("probe")
       ELSE IF page.next = NoToken \/ Len(call.asked) = MaxPages
       THEN Conclude("ok", "ResourceNotFound")
       ELSE IF page.next \in ToSet(call.asked)
       THEN Conclude("ok", "ValidationFailed")
       ELSE call' = [call EXCEPT !.asked = Append(@, page.next)]

\* Slip: only the token just used is recognised when it comes back.
PageForgets(page) ==
    /\ At("page")
    /\ page \in Pages(call.input, Last(call.asked))
    /\ IF page.hit
       THEN IF call.input.type = "METRIC_VIEW"
            THEN Conclude("ok", "UnsupportedTableType") ELSE Goto("probe")
       ELSE IF page.next = NoToken
       THEN Conclude("ok", "ResourceNotFound")
       ELSE IF page.next = Last(call.asked) \/ Len(call.asked) = MaxPages
       THEN Conclude("ok", "ValidationFailed")
       ELSE call' = [call EXCEPT !.asked = Append(@, page.next)]

Page(page) ==
    /\ At("page")
    /\ page \in Pages(call.input, Last(call.asked))
    /\ IF page.hit
       THEN IF call.input.type = "METRIC_VIEW"
            THEN Conclude("ok", "UnsupportedTableType") ELSE Goto("probe")
       ELSE IF page.next = NoToken
       THEN Conclude("ok", "ResourceNotFound")
       ELSE IF page.next \in ToSet(call.asked) \/ Len(call.asked) = MaxPages
       THEN Conclude("ok", "ValidationFailed")
       ELSE call' = [call EXCEPT !.asked = Append(@, page.next)]

PageFails(status) ==
    /\ At("page") /\ status # "ok"
    /\ Conclude(status, Classify(status))

\* The zero-row SELECT and columnsFromStatementManifest, which skips columns
\* without a name or a type.
Probe(status, columns) ==
    /\ At("probe")
    /\ Conclude(status, IF status # "ok" THEN Classify(status)
                        ELSE IF columns = 0 THEN "ValidationFailed" ELSE "Ready")
-----------------------------------------------------------------------------
(***************************************************************************)
(* Discovery: ListWarehouses, ListCatalogs, ListSchemas and ListTables.    *)
(***************************************************************************)
\* A field of an entry as the workspace fills it in: with nothing, with more
\* than MaxIdentifierLength characters, with a control character, or with a name
\* a statement can quote.
Fields == {"missing", "long", "control", "plain"}

\* ValidateIdentifier.
ValidIdentifier(field) == field = "plain"

Mark(resource, e) ==
    LET missing == IF e.name = "missing" THEN "name"
                   ELSE IF resource = "tables" /\ e.catalog = "missing" THEN "catalog"
                   ELSE IF resource = "tables" /\ e.schema = "missing" THEN "schema" ELSE "none"
        reason  == IF resource = "tables" /\ e.type = "METRIC_VIEW" THEN "type" ELSE missing
    IN  [supported |-> reason = "none", reason |-> reason]

StartDiscovery(page) ==
    /\ At("idle")
    /\ call' = [Idle EXCEPT !.op = "discovery", !.stage = "discover", !.input = page]

Discover(status) ==
    /\ At("discover")
    /\ call' = [call EXCEPT !.met = {status}, !.stage = IF status = "ok" THEN "done" ELSE "failed",
                 !.result.rows = IF status # "ok" THEN <<>>
                                 ELSE [i \in DOMAIN call.input.entries |->
                                          Mark(call.input.resource, call.input.entries[i])]]
-----------------------------------------------------------------------------
(***************************************************************************)
(* Requests of query_table: the front end, the executor and the backend    *)
(* check them with NormalizeQueryRequest, and SelectTableSQL does it again.*)
(***************************************************************************)
DefaultLimit(limit) == IF limit = 0 THEN MaxRows ELSE limit

\* Slip: a column may be asked for twice.
ValidControlsTwice(columns, limit) ==
    /\ limit \in 1..MaxRows
    /\ Len(columns) <= MaxColumns
    /\ ~Contains(columns, Bad)

\* NormalizeQueryControls.
ValidControls(columns, limit) ==
    /\ limit \in 1..MaxRows
    /\ Len(columns) <= MaxColumns
    /\ ~Contains(columns, Bad)
    /\ IsInjective(columns)

RefuseQuery(verdict) == call' = [call EXCEPT !.stage = "failed", !.verdict = verdict]

StartSelect(request) ==
    /\ At("idle")
    /\ call' = [Idle EXCEPT !.op = "select", !.stage = "controls", !.input = request,
                            !.limit = request.limit]

\* The front end, then the executor, which knows the Table's schema, and then
\* ExecuteTableQuery.
Controls ==
    LET limit == DefaultLimit(call.limit) IN
    /\ At("controls")
    /\ IF ~ValidControls(call.input.columns, limit) THEN RefuseQuery("InvalidControls")
       ELSE IF call.pass = 1 /\ call.input.columns # <<>> /\ call.input.schema = {}
       THEN RefuseQuery("NoSchema")
       ELSE call' = [call EXCEPT !.limit = limit, !.pass = @ + 1,
                                 !.stage = IF call.pass = 2 THEN "sql" ELSE "controls"]

\* SelectTableSQL: the first column that will not do decides.
SelectTableSQL ==
    LET columns == call.input.columns
        foreign(i) == call.input.schema # {} /\ columns[i] \notin call.input.schema
        twice(i) == \E j \in 1..(i - 1) : columns[j] = columns[i]
        faulty == {i \in DOMAIN columns : columns[i] = Bad \/ foreign(i) \/ twice(i)}
    IN  /\ At("sql")
        /\ IF call.limit \notin 1..MaxRows \/ Len(columns) > MaxColumns
           THEN RefuseQuery("InvalidControls")
           ELSE IF faulty = {}
           THEN call' = [call EXCEPT !.stage = "done", !.result.columns = columns]
           ELSE RefuseQuery(IF columns[Min(faulty)] # Bad /\ foreign(Min(faulty))
                            THEN "NotInSchema" ELSE "InvalidControls")
-----------------------------------------------------------------------------
(***************************************************************************)
(* Results.  A cell is the row and the position it was received at; `rows' *)
(* of a result map column names to cells.                                  *)
(***************************************************************************)
Width(response, i) == response.rows[i].width

CellBytes(response, cell) ==
    IF cell = Null THEN 1 ELSE response.rows[cell[1]].bytes

RowBytes(response, row) ==
    SumFunction([name \in DOMAIN row |-> CellBytes(response, row[name])])

\* The length of a result as JSON.
Bytes(response, result, ref) ==
    MetaBytes + ref + ColumnBytes * Len(result.columns)
    + SumFunction([i \in DOMAIN result.rows |-> 2 + RowBytes(response, result.rows[i])])
    + (IF result.truncated THEN FlagBytes ELSE 0)

\* Slip: the result is measured instead of what is sent.
WireOfResult(op, response, result) == Bytes(response, result, RefBytes)

\* The length of what is sent: the action's envelope, or the MCP tool result,
\* which holds the same JSON twice, and its reserve.
Wire(op, response, result) ==
    IF op = "action" THEN Bytes(response, result, RefBytes) + EnvelopeBytes
                     ELSE 2 * Bytes(response, result, RefBytes) + ReserveBytes

Smaller(a, b) == IF a < b THEN a ELSE b

\* queryResultFromStatement: of columns with one name the last one the row
\* has a value for wins.
StatementRow(response, i) ==
    LET filled == 1..Smaller(Width(response, i), Len(response.columns))
        last(name) == CHOOSE p \in filled : /\ response.columns[p] = name
                                            /\ \A q \in filled : response.columns[q] = name => q <= p
    IN  [name \in {response.columns[p] : p \in filled} |-> <<i, last(name)>>]

\* Slip: only rows that are too short are noticed.
StatementResultLong(response) ==
    [columns   |-> response.columns,
     rows      |-> [i \in DOMAIN response.rows |-> StatementRow(response, i)],
     truncated |-> \/ response.cut
                   \/ \E i \in DOMAIN response.rows : Width(response, i) < Len(response.columns)]

StatementResult(response) ==
    [columns   |-> response.columns,
     rows      |-> [i \in DOMAIN response.rows |-> StatementRow(response, i)],
     truncated |-> \/ response.cut
                   \/ \E i \in DOMAIN response.rows : Width(response, i) # Len(response.columns)]

Take(s, n) == IF Len(s) <= n THEN s ELSE SubSeq(s, 1, n)

\* rowsForColumns: every row gets exactly these keys.
RowsFor(rows, columns) ==
    [i \in DOMAIN rows |-> [name \in ToSet(columns) |->
        IF name \in DOMAIN rows[i] THEN rows[i][name] ELSE Null]]

\* Of the columns that have one name the first one stays.
Distinct(columns) ==
    FoldLeft(LAMBDA kept, name : IF Contains(kept, name) THEN kept ELSE Append(kept, name),
             <<>>, columns)

\* Slip: rows keep the cells of columns that are gone.
NormalizedColumns(result) ==
    LET columns == Take(Distinct(result.columns), MaxColumns)
        rows    == Take(result.rows, MaxRows)
    IN  [columns   |-> columns,
         rows      |-> rows,
         truncated |-> \/ result.truncated
                       \/ Len(columns) < Len(result.columns)
                       \/ Len(rows) < Len(result.rows)
                       \/ \E i \in DOMAIN rows : ~(DOMAIN rows[i] \subseteq ToSet(columns))]

\* normalizeResultShape.
Normalized(result) ==
    LET columns == Take(Distinct(result.columns), MaxColumns)
        rows    == Take(result.rows, MaxRows)
    IN  [columns   |-> columns,
         rows      |-> RowsFor(rows, columns),
         truncated |-> \/ result.truncated
                       \/ Len(columns) < Len(result.columns)
                       \/ Len(rows) < Len(result.rows)
                       \/ \E i \in DOMAIN rows : ~(DOMAIN rows[i] \subseteq ToSet(columns))]

\* Slip: columns go first.
CutColumns(result) ==
    IF result.columns # <<>>
    THEN [columns |-> Front(result.columns), truncated |-> TRUE,
          rows |-> RowsFor(result.rows, Front(result.columns))]
    ELSE [result EXCEPT !.rows = Front(@), !.truncated = TRUE]

\* Slip: only rows go.
CutRows(result) ==
    [result EXCEPT !.rows = IF @ = <<>> THEN @ ELSE Front(@), !.truncated = TRUE]

\* One round of the loops that cut a result: the last row goes, or else the
\* last column.
Cut(result) ==
    IF result.rows # <<>>
    THEN [result EXCEPT !.rows = Front(@), !.truncated = TRUE]
    ELSE [result EXCEPT !.columns = Front(@), !.truncated = TRUE]

Cuttable(result) == result.rows # <<>> \/ result.columns # <<>>

\* ExecuteTableQuery: the statement runs, and its result takes its shape.
StartQuery(op, response) ==
    /\ At("idle")
    /\ call' = [Idle EXCEPT !.op = op, !.stage = "bound", !.input = response,
                            !.result = Normalized(StatementResult(response))]

\* BoundQueryResult: in the backend with the placeholder for a reference, in
\* the tenant executor and in the front end with the name of the Table.
Bound ==
    LET ref == IF call.pass = 0 THEN PlaceholderBytes ELSE RefBytes IN
    /\ At("bound")
    /\ IF Bytes(call.input, call.result, ref) <= MaxBytes
       THEN call' = [call EXCEPT !.pass = @ + 1, !.result = Normalized(@),
                                 !.stage = IF call.pass = 2 THEN "wrap" ELSE "bound"]
       ELSE IF Cuttable(call.result)
       THEN call' = [call EXCEPT !.result = Cut(@)]
       ELSE call' = [call EXCEPT !.pass = @ + 1,
                                 !.stage = IF call.pass = 2 THEN "wrap" ELSE "bound",
                                 !.result = [Empty EXCEPT !.truncated = TRUE]]

\* boundResultEnvelope and boundMCPQueryOutput.  An action that cannot be cut
\* any further fails, an MCP answer goes out empty.
Wrap ==
    /\ At("wrap")
    /\ IF Wire(call.op, call.input, call.result) <= MaxBytes
       THEN Goto("done")
       ELSE IF Cuttable(call.result)
       THEN call' = [call EXCEPT !.result = Cut(@)]
       ELSE IF call.op = "action"
       THEN call' = [call EXCEPT !.stage = "failed"]
       ELSE call' = [call EXCEPT !.stage = "done", !.result = [Empty EXCEPT !.truncated = TRUE]]

\* The statement does not run; ActionErrors has what is made of the error.
StatementFails(op, status) ==
    /\ At("idle") /\ status # "ok"
    /\ call' = [Idle EXCEPT !.op = op, !.stage = "failed", !.met = {status}]
-----------------------------------------------------------------------------
(***************************************************************************)
(* list_tables.  `rows' of the result are positions in the inventory.      *)
(***************************************************************************)
ListBytes(inventory, result) ==
    2 * (MetaBytes + SumFunction([i \in DOMAIN result.rows |-> inventory[result.rows[i]].bytes])
         + (IF result.truncated THEN FlagBytes ELSE 0)) + ReserveBytes

\* Of the Tables that are looked at, those without a table reference are
\* skipped.
References(inventory) ==
    FoldLeft(LAMBDA kept, i : IF inventory[i].ok THEN Append(kept, i) ELSE kept,
             <<>>, [i \in 1..Smaller(Len(inventory), MaxTables) |-> i])

\* Slip: the item beyond the limit is not asked for.
ListedExactly(inventory) ==
    [Empty EXCEPT !.rows = References(inventory)]

\* ListTablesBounded and boundedTableMap: one item more than the limit is
\* asked for.
Listed(inventory) ==
    [Empty EXCEPT !.rows = References(inventory),
                  !.truncated = Len(inventory) > MaxTables]

StartList(inventory) ==
    /\ At("idle")
    /\ call' = [Idle EXCEPT !.op = "list", !.stage = "trim", !.input = inventory,
                            !.result = Listed(inventory)]

\* boundMCPListOutput.
Trim ==
    /\ At("trim")
    /\ IF ListBytes(call.input, call.result) <= MaxBytes
       THEN Goto("done")
       ELSE IF call.result.rows = <<>>
       THEN call' = [call EXCEPT !.stage = "done", !.result.truncated = TRUE]
       ELSE call' = [call EXCEPT !.result = Cut(@)]
-----------------------------------------------------------------------------
\* The answer is delivered and the next call may be made.
Return ==
    /\ call.stage \in {"done", "failed"}
    /\ call' = Idle

Init == call = Idle

Start ==
    \/ StartConnection \/ StartWarehouse
    \/ \E page \in Entries : StartDiscovery(page)
    \/ \E q \in Requests : StartSelect(q)
    \/ \E l \in Listings : StartTable(l)
    \/ \E op \in {"action", "mcp"} : \/ \E x \in Responses : StartQuery(op, x)
                                     \/ \E s \in Statuses : StatementFails(op, s)
    \/ \E v \in Inventories : StartList(v)

Advance ==
    \/ \E s \in Statuses : CurrentUser(s) \/ WarehouseAnswers(s) \/ PageFails(s) \/ Discover(s)
    \/ \E p \in [hit : BOOLEAN, next : Tokens \cup {NoToken}] : Page(p)
    \/ \E s \in Statuses, n \in 0..1 : Probe(s, n)
    \/ Controls \/ SelectTableSQL \/ Bound \/ Wrap \/ Trim \/ Return

Next == Start \/ Advance

Spec == Init /\ [][Next]_call /\ WF_call(Advance)
-----------------------------------------------------------------------------
(***************************************************************************)
(* Properties.                                                             *)
(***************************************************************************)
\* The calls keep to their stages, and a result is a table: each of its rows
\* has exactly its columns for keys.
TypeOK ==
    /\ call.op \in Ops \cup {"none"}
    /\ call.stage \in {"idle", "user", "warehouse", "page", "probe", "discover", "controls",
                       "sql", "bound", "wrap", "trim", "done", "failed"}
    /\ call.verdict \in Verdicts
    /\ call.met \subseteq Statuses
    /\ call.op \in {"action", "mcp"} =>
          /\ Len(call.result.columns) <= MaxColumns
          /\ Len(call.result.rows) <= MaxRows
          /\ \A i \in DOMAIN call.result.rows :
                DOMAIN call.result.rows[i] = ToSet(call.result.columns)

\* getTableSummary comes to an end against any service: it never asks for a
\* page twice and never for more than its limit.
WalkIsBounded ==
    /\ Len(call.asked) <= MaxPages
    /\ IsInjective(call.asked)

\* A verdict that changes what a user is told to do is one the workspace has
\* given reason for.  Unless some endpoint said 404, "not found" means that
\* the whole listing was read and does not hold the table, a listing too long
\* to be read is no such reason, and nothing but a metric view has an
\* unsupported type.  A credential is never accepted because the endpoint
\* that would have refused it was skipped.
VerdictIsJustified ==
    /\ call.op = "table" /\ call.input.honest =>
          /\ call.verdict = "ResourceNotFound" /\ "notFound" \notin call.met =>
                call.input.at = 0 /\ call.input.pages <= MaxPages
          /\ call.verdict = "UnsupportedTableType" =>
                call.input.at # 0 /\ call.input.type = "METRIC_VIEW"
          /\ call.verdict = "Ready" =>
                call.input.at \in 1..MaxPages /\ call.input.type # "METRIC_VIEW"
    /\ call.op = "connection" =>
          /\ call.verdict = "Ready" => call.met \subseteq {"ok", "notFound"}
          /\ call.verdict = "ResourceNotFound" => call.met = {"notFound"}

\* Discovery marks what cannot be queried by the rule ValidateTable goes by: a
\* table it offers as supported has a catalog, a schema and a name that are
\* identifiers, so that nobody registers what validation will refuse for good.
OffersAreQueryable ==
    call.op = "discovery" /\ call.stage = "done" /\ call.input.resource = "tables" =>
        \A i \in DOMAIN call.result.rows :
            LET e == call.input.entries[i] IN
            call.result.rows[i].supported =>
                \A field \in {e.catalog, e.schema, e.name} : ValidIdentifier(field)

\* The statement of a query selects the columns that were asked for, once
\* each and all of them in the Table's schema, up to the limit asked for or
\* the default.  A request that no schema could satisfy is refused by the
\* front end, before anything is resolved on its behalf.
StatementIsAsked ==
    call.op = "select" =>
        /\ call.stage = "done" =>
              /\ call.result.columns = call.input.columns
              /\ IsInjective(call.result.columns)
              /\ ToSet(call.result.columns) \subseteq call.input.schema
              /\ call.limit = IF call.input.limit = 0 THEN MaxRows ELSE call.input.limit
              /\ call.limit \in 1..MaxRows
        /\ call.verdict = "InvalidControls" => call.pass = 0

\* --- what a result should be, by definition --------------------------------
FirstPositions(response) ==
    LET first == {p \in DOMAIN response.columns :
                    \A q \in 1..(p - 1) : response.columns[q] # response.columns[p]}
    IN  CHOOSE f \in [1..Cardinality(first) -> first] :
            \A i, j \in DOMAIN f : i < j => f[i] < f[j]

CellOf(response, i, name) ==
    LET found == {p \in DOMAIN response.columns :
                    p <= Width(response, i) /\ response.columns[p] = name}
    IN  IF found = {} THEN Null ELSE <<i, Max(found)>>

Lossy(response) ==
    \/ response.cut
    \/ \E i \in DOMAIN response.rows : Width(response, i) # Len(response.columns)
    \/ Len(FirstPositions(response)) < Len(response.columns)

\* The first n rows of the first k columns.
Part(response, n, k) ==
    LET columns == [j \in 1..k |-> response.columns[FirstPositions(response)[j]]] IN
    [columns   |-> columns,
     rows      |-> [i \in 1..n |-> [name \in ToSet(columns) |-> CellOf(response, i, name)]],
     truncated |-> \/ Lossy(response) \/ n < Len(response.rows)
                   \/ k < Len(FirstPositions(response))]

Largest(op, response) ==
    LET N == Smaller(Len(response.rows), MaxRows)
        K == Smaller(Len(FirstPositions(response)), MaxColumns)
        fits(n, k) == Wire(op, response, Part(response, n, k)) <= MaxBytes
        rows == {n \in 0..N : fits(n, K)}
    IN  IF rows # {} THEN Part(response, Max(rows), K)
                     ELSE Part(response, 0, Max({k \in 0..K : fits(0, k)}))

\* Three layers cut one result, one of them while it still has another name,
\* and a cut itself adds bytes.  Together they send neither less nor more than
\* the longest prefix of the rows that fits the wire, a shorter prefix of the
\* columns only when not even that is possible, and every cell under its own
\* column.
AnswerIsLargest ==
    call.op \in {"action", "mcp"} /\ call.stage = "done" =>
        call.result = Largest(call.op, call.input)

\* An answer that is not marked as truncated is complete: every cell or Table
\* there is was sent.
TruncationIsReported ==
    call.stage = "done" /\ ~call.result.truncated =>
        /\ call.op \in {"action", "mcp"} =>
              /\ ~call.input.cut
              /\ call.result.columns = call.input.columns
              /\ Len(call.result.rows) = Len(call.input.rows)
              /\ \A i \in DOMAIN call.result.rows :
                    {call.result.rows[i][name] : name \in DOMAIN call.result.rows[i]}
                       = {<<i, p>> : p \in 1..Width(call.input, i)}
        /\ call.op = "list" =>
              ToSet(call.result.rows) = {i \in DOMAIN call.input : call.input[i].ok}

\* What is sent has the length the wire allows for.
FitsTheWire ==
    call.stage = "done" =>
        /\ call.op \in {"action", "mcp"} =>
              (IF call.op = "action" THEN Bytes(call.input, call.result, RefBytes) + EnvelopeBytes
               ELSE 2 * Bytes(call.input, call.result, RefBytes) + ReserveBytes) <= MaxBytes
        /\ call.op = "list" => ListBytes(call.input, call.result) <= MaxBytes

\* Every call comes to an end, whatever the workspace answers.
CallEnds == call.stage # "idle" ~> call.stage = "idle"
=============================================================================
