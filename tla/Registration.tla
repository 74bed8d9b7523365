---------------------------- MODULE Registration ----------------------------
(***************************************************************************)
(* Registering Warehouses and Tables in bulk: tenant.ImportHandler, which  *)
(* serves registrations and discovery, and the import wizard of the portal,*)
(* which sends a registration, shows one result per item and sends the     *)
(* failed ones again.                                                      *)
(*                                                                         *)
(* A request makes its remote calls one by one: it reviews the caller's    *)
(* rights, resolves the Connection with the provider's credential, checks  *)
(* a Table's Warehouse and then looks at, creates and if need be looks     *)
(* again at each resource, with the caller's credential.  Between any two  *)
(* calls resources, rights and the Connection may change, other requests   *)
(* may register the same names, and any call may fail.  A creation whose   *)
(* answer is lost may have happened, or happen later.  A client that gives *)
(* up leaves a request behind that goes on until it notices.               *)
(***************************************************************************)
EXTENDS Naturals, Sequences, FiniteSets

CONSTANTS
    Callers,        \* clients of the import API
    Wizards,        \* those of them that are import wizards of the portal
    Slots,          \* requests that can be under way: <<caller, number>>
    KindOf,         \* by caller: "warehouse", "table" or "discovery"
    ConnectionRef,  \* by caller: the Connection it names
    WarehouseRef,   \* by caller: the Warehouse it names, if a table caller
    Items,          \* by caller: the sequence of [name, data] it knows of
    Batches,        \* by caller: what it may send first, as positions in Items
    Connections, Ids, Specs,
    Writable,       \* by id: the specifications others may write
    InitObjs,       \* what the tenant may have at the start
    Revocable,      \* the <<caller, right>> pairs that may be taken and given
    MaxItems,       \* importapi.MaxItems
    MaxChanges,     \* changes of the world, requests of scripts, closed wizards
    MaxFaults,      \* failing calls, and clients that give up
    None

ASSUME CallersAssumption ==
    /\ Wizards \subseteq Callers
    /\ Slots \subseteq Callers \X Nat
    /\ KindOf \in [Callers -> {"warehouse", "table", "discovery"}]
    /\ ConnectionRef \in [Callers -> Connections]

\* A wizard sends all of its items, and its review has made the names distinct.
ASSUME WizardsAssumption ==
    \A c \in Wizards :
        /\ Batches[c] = {[i \in 1..Len(Items[c]) |-> i]}
        /\ \A i, j \in 1..Len(Items[c]) : Items[c][i].name = Items[c][j].name => i = j

VARIABLES
    obj,            \* by <<kind, name>>: the spec of the resource, or None
    late,           \* creations without an answer that may still happen
    conn,           \* by Connection: what it can be used for
    rights,         \* by caller: its rights now
    req,            \* by slot: the request
    wiz,            \* by caller: what it awaits and what it shows
    held,           \* history: the items [id, spec] that existed at some moment
    changes, faults

world == <<conn, rights>>
vars == <<obj, late, conn, rights, req, wiz, held, changes, faults>>

\* A Connection that does not exist, has another authType than PAT or has the
\* right one; and whether its Secret has a token.
ConnStates == [auth : {"absent", "other", "PAT"}, token : BOOLEAN]

Usable == [auth |-> "PAT", token |-> TRUE]

Resources == {"connections", "warehouse", "table"}
Rights == {"get", "create"}
AllRights == Resources \X Rights

ItemStates == {"created", "existing", "conflict", "failed"}

Reviews == {"reviewConnection", "reviewGet", "reviewCreate"}
PerItem == {"get", "create", "verify"}
Calls == Reviews \cup PerItem \cup {"resolve", "token", "preflight", "list"}
Stages == Calls \cup {"free", "received", "refused", "answered"}

\* `seen' are the facts that held at some step of the request.
FactNames == {"connection", "auth", "token", "get", "create", "warehouse"}

Free == [stage |-> "free", items |-> <<>>, results |-> <<>>,
         seen |-> {}, cancelled |-> FALSE]

\* `sent' are the positions of the items that are under way.
Resting == [waiting |-> None, sent |-> <<>>, results |-> <<>>]
-----------------------------------------------------------------------------
(***************************************************************************)
(* Requests.                                                               *)
(***************************************************************************)
Caller(r) == r[1]

\* importapi.Normalize: what item i of caller c asks for.
Normalize(c, i) ==
    [id   |-> <<KindOf[c], Items[c][i].name>>,
     spec |-> [connectionRef |-> ConnectionRef[c],
               warehouseRef  |-> IF KindOf[c] = "table" THEN WarehouseRef[c] ELSE None,
               data          |-> Items[c][i].data]]

\* Callers know well-formed items, a client that browses has none, and whatever
\* is written to a resource is a specification.
Elements == [id : Ids, spec : Specs]

ASSUME ItemsAssumption ==
    \A c \in Callers :
        /\ Len(Items[c]) \in Nat
        /\ \A i \in 1..Len(Items[c]) : Normalize(c, i) \in Elements
        /\ \A batch \in Batches[c] : batch \in Seq(1..Len(Items[c]))
        /\ KindOf[c] = "discovery" => Len(Items[c]) = 0

ASSUME WorldAssumption ==
    /\ Ids # {}
    /\ \A id \in Ids : Writable[id] \subseteq Specs
    /\ InitObjs \subseteq [Ids -> Specs \cup {None}]
    /\ Revocable \subseteq Callers \X AllRights
    /\ MaxChanges \in Nat /\ MaxFaults \in Nat
    /\ None \notin Specs /\ None \notin Slots

\* Request.Validate and the loop over the items: their number and their
\* names.  Malformed fields are refused in the same way.
ValidRequest(items) ==
    /\ Len(items) \in 1..MaxItems
    /\ \A j, k \in 1..Len(items) : items[j].id = items[k].id => j = k

Kind(r) == KindOf[Caller(r)]

\* The item a request is at.
Turn(r) == req[r].items[Len(req[r].results) + 1]

\* The facts a registration rests on: the caller may read the Connection and
\* may read and create resources of the kind, the Connection is of the right
\* type and has a token, and the Warehouse is one the caller may read and is
\* on the same Connection.
Holds(c) ==
    [connection |-> <<"connections", "get">> \in rights[c],
     auth       |-> conn[ConnectionRef[c]].auth = "PAT",
     token      |-> conn[ConnectionRef[c]].token,
     get        |-> <<KindOf[c], "get">> \in rights[c],
     create     |-> <<KindOf[c], "create">> \in rights[c],
     warehouse  |-> LET id == <<"warehouse", WarehouseRef[c]>> IN
                    /\ KindOf[c] = "table"
                    /\ <<"warehouse", "get">> \in rights[c]
                    /\ obj[id] # None
                    /\ obj[id].connectionRef = ConnectionRef[c]]

Facts(c) == {f \in FactNames : Holds(c)[f]}

Needed(kind) ==
    CASE kind = "discovery" -> {"connection", "auth", "token"}
      [] kind = "warehouse" -> FactNames \ {"warehouse"}
      [] kind = "table"     -> FactNames

At(r, stage) == req[r].stage = stage /\ ~req[r].cancelled

Go(r, stage) ==
    req' = [req EXCEPT ![r].stage = stage, ![r].seen = @ \cup Facts(Caller(r))]

\* writeImportError: the request is over before any item was looked at.
Refused(r) == Go(r, "refused")

\* registerOne has its result; the loop goes on with the next item or ends.
Decided(r, state) ==
    req' = [req EXCEPT ![r].results = Append(@, state),
                       ![r].stage = IF Len(req[r].results) + 1 < Len(req[r].items)
                                    THEN "get" ELSE "answered"]

Exists(objects) ==
    {[id |-> id, spec |-> objects[id]] : id \in {i \in Ids : objects[i] # None}}

SetObj(objects) == obj' = objects /\ held' = held \cup Exists(objects)
-----------------------------------------------------------------------------
(***************************************************************************)
(* ImportHandler.                                                          *)
(***************************************************************************)
\* What is checked without a remote call: parseDiscoveryQuery takes or refuses
\* the parameters of a discovery request, serveRegistration its body.
ParseQuery(r) ==
    /\ At(r, "received") /\ Kind(r) = "discovery"
    /\ Go(r, "reviewConnection") \/ Refused(r)
    /\ UNCHANGED <<obj, late, world, wiz, held, changes, faults>>

Validate(r) ==
    /\ At(r, "received") /\ Kind(r) # "discovery"
    /\ IF ValidRequest(req[r].items) THEN Go(r, "reviewConnection") ELSE Refused(r)
    /\ UNCHANGED <<obj, late, world, wiz, held, changes, faults>>

\* A call that finds out about a fact, and the request goes on or is refused.
Check(r, stage, fact, next) ==
    /\ At(r, stage)
    /\ IF fact \in Facts(Caller(r)) THEN Go(r, next) ELSE Refused(r)
    /\ UNCHANGED <<obj, late, world, wiz, held, changes, faults>>

\* AuthorizeResource: a SelfSubjectAccessReview with the caller's token.
ReviewConnection(r) == Check(r, "reviewConnection", "connection", "resolve")

\* ResolveConnection, with the provider's credential: the Connection is read
\* and then its Secret.
Resolve(r) == Check(r, "resolve", "auth", "token")

ResolveToken(r) ==
    Check(r, "token", "token", IF Kind(r) = "discovery" THEN "list" ELSE "reviewGet")

ReviewGet(r) == Check(r, "reviewGet", "get", "reviewCreate")

\* Slip: the permission to read is taken for the permission to create.
ReviewCreateAsGet(r) ==
    Check(r, "reviewCreate", "get",
           IF Kind(r) = "table" THEN "preflight" ELSE "get")

ReviewCreate(r) ==
    Check(r, "reviewCreate", "create",
           IF Kind(r) = "table" THEN "preflight" ELSE "get")

\* preflightTables, with the caller's token.
Preflight(r) == Check(r, "preflight", "warehouse", "get")

\* One page of the listing; what is on it is the portal's affair.
List(r) ==
    /\ At(r, "list")
    /\ Go(r, "answered")
    /\ UNCHANGED <<obj, late, world, wiz, held, changes, faults>>

\* Get on the item's name: registerOne's first look, and its second one after
\* the creation met a resource that was not there before.
Compare(r) ==
    IF obj[Turn(r).id] = Turn(r).spec THEN Decided(r, "existing")
                                      ELSE Decided(r, "conflict")

Get(r) ==
    /\ At(r, "get")
    /\ IF <<Kind(r), "get">> \notin rights[Caller(r)] THEN Decided(r, "failed")
       ELSE IF obj[Turn(r).id] = None THEN Go(r, "create")
       ELSE Compare(r)
    /\ UNCHANGED <<obj, late, world, wiz, held, changes, faults>>

\* Slip: a name that is taken since the first look is taken by this item.
CreateAlreadyExists(r) ==
    /\ At(r, "create")
    /\ IF <<Kind(r), "create">> \notin rights[Caller(r)]
       THEN Decided(r, "failed") /\ UNCHANGED <<obj, held>>
       ELSE IF obj[Turn(r).id] = None
       THEN Decided(r, "created") /\ SetObj([obj EXCEPT ![Turn(r).id] = Turn(r).spec])
       ELSE Decided(r, "existing") /\ UNCHANGED <<obj, held>>
    /\ UNCHANGED <<late, world, wiz, changes, faults>>

Create(r) ==
    /\ At(r, "create")
    /\ IF <<Kind(r), "create">> \notin rights[Caller(r)]
       THEN Decided(r, "failed") /\ UNCHANGED <<obj, held>>
       ELSE IF obj[Turn(r).id] = None
       THEN Decided(r, "created") /\ SetObj([obj EXCEPT ![Turn(r).id] = Turn(r).spec])
       ELSE Go(r, "verify") /\ UNCHANGED <<obj, held>>
    /\ UNCHANGED <<late, world, wiz, changes, faults>>

Verify(r) ==
    /\ At(r, "verify")
    /\ IF <<Kind(r), "get">> \notin rights[Caller(r)] \/ obj[Turn(r).id] = None
       THEN Decided(r, "failed") ELSE Compare(r)
    /\ UNCHANGED <<obj, late, world, wiz, held, changes, faults>>

\* The remote call of the request fails, or is not made because the request
\* was cancelled.  A creation that was sent may have been carried out, or be
\* carried out later.
CallFails(r) ==
    /\ req[r].stage \in Calls
    /\ \/ req[r].cancelled /\ UNCHANGED faults
       \/ ~req[r].cancelled /\ faults < MaxFaults /\ faults' = faults + 1
    /\ IF req[r].stage \in PerItem THEN Decided(r, "failed") ELSE Refused(r)
    /\ \/ UNCHANGED <<obj, late, held>>
       \/ /\ req[r].stage = "create" /\ <<Kind(r), "create">> \in rights[Caller(r)]
          /\ \/ /\ obj[Turn(r).id] = None
                /\ SetObj([obj EXCEPT ![Turn(r).id] = Turn(r).spec])
                /\ UNCHANGED late
             \/ late' = late \cup {Turn(r)} /\ UNCHANGED <<obj, held>>
    /\ UNCHANGED <<world, wiz, changes>>

\* The API server carries out a creation whose client has gone.
Land(e) ==
    /\ late' = late \ {e}
    /\ SetObj(IF obj[e.id] = None THEN [obj EXCEPT ![e.id] = e.spec] ELSE obj)
    /\ UNCHANGED <<world, req, wiz, changes, faults>>

\* The server notices that the client of request r has gone.
Abandoned(r) == req[r].stage # "free" /\ wiz[Caller(r)].waiting # r

Cancel(r) ==
    /\ Abandoned(r) /\ req[r].stage \in Calls /\ ~req[r].cancelled
    /\ req' = [req EXCEPT ![r].cancelled = TRUE]
    /\ UNCHANGED <<obj, late, world, wiz, held, changes, faults>>

\* The answer to a client that has gone is dropped.
Drop(r) ==
    /\ Abandoned(r) /\ req[r].stage \in {"refused", "answered"}
    /\ req' = [req EXCEPT ![r] = Free]
    /\ UNCHANGED <<obj, late, world, wiz, held, changes, faults>>
-----------------------------------------------------------------------------
(***************************************************************************)
(* The clients.  A caller that is no wizard keeps no results and sends     *)
(* whatever it likes.                                                      *)
(***************************************************************************)
\* retryableRegistrationIndices.
Retryable(c) == {i \in 1..Len(wiz[c].results) : wiz[c].results[i] = "failed"}

Send(r, batch) ==
    /\ req[r].stage = "free"
    /\ wiz[Caller(r)].waiting = None
    /\ req' = [req EXCEPT ![r].stage = "received",
                          ![r].items = [j \in DOMAIN batch |-> Normalize(Caller(r), batch[j])]]
    /\ wiz' = [wiz EXCEPT ![Caller(r)].waiting = r, ![Caller(r)].sent = batch]
    /\ UNCHANGED <<obj, late, world, held, faults>>

\* register() of a wizard, and the requests of scripts.
Register(r) ==
    \E batch \in Batches[Caller(r)] :
        /\ wiz[Caller(r)].results = <<>>
        /\ Send(r, batch)
        /\ IF Caller(r) \in Wizards THEN UNCHANGED changes
           ELSE changes < MaxChanges /\ changes' = changes + 1

\* retryFailed(): the failed items, in the order of their positions.
RetryFailed(r) ==
    LET failed == Retryable(Caller(r)) IN
    /\ failed # {}
    /\ \E batch \in [1..Cardinality(failed) -> failed] :
          /\ \A i, j \in DOMAIN batch : i < j => batch[i] < batch[j]
          /\ Send(r, batch)
    /\ UNCHANGED changes

\* Slip: the answer to a retry replaces what was shown.
MergeReplaces(shown, batch, results) == results

\* Slip: a result once shown stays.
MergeKeeps(shown, batch, results) == shown

\* Slip: the position in the request is taken for that in the review.
MergeByPosition(shown, batch, results) ==
    [i \in 1..Len(shown) |-> IF i <= Len(results) THEN results[i] ELSE shown[i]]

\* materializeRegistrationResults and mergeRegistrationResults: results come
\* by position in the request and are shown by position in the review.
Merge(shown, batch, results) ==
    [i \in 1..Len(shown) |->
        IF \E j \in 1..Len(batch) : batch[j] = i
        THEN results[CHOOSE j \in 1..Len(batch) : batch[j] = i]
        ELSE shown[i]]

AllFailed(c) == [i \in 1..Len(Items[c]) |-> "failed"]

\* The catch branches: after a first attempt every item can be retried, after
\* a retry what was shown before stays.
Unanswered(c) == IF wiz[c].results = <<>> THEN AllFailed(c) ELSE wiz[c].results

Shown(c, r) ==
    IF c \notin Wizards THEN wiz[c].results
    ELSE IF req[r].stage = "refused" THEN Unanswered(c)
    ELSE Merge(Unanswered(c), wiz[c].sent, req[r].results)

\* Slip: only a successful answer ends the submission.
ReceiveResults(c) ==
    LET r == wiz[c].waiting IN
    /\ r # None
    /\ req[r].stage = "answered"
    /\ wiz' = [wiz EXCEPT ![c] = [Resting EXCEPT !.results = Shown(c, r)]]
    /\ req' = [req EXCEPT ![r] = Free]
    /\ UNCHANGED <<obj, late, world, held, changes, faults>>

Receive(c) ==
    LET r == wiz[c].waiting IN
    /\ r # None
    /\ req[r].stage \in {"refused", "answered"}
    /\ wiz' = [wiz EXCEPT ![c] = [Resting EXCEPT !.results = Shown(c, r)]]
    /\ req' = [req EXCEPT ![r] = Free]
    /\ UNCHANGED <<obj, late, world, held, changes, faults>>

\* The connection to the server is lost before the answer.
GiveUp(c) ==
    LET r == wiz[c].waiting IN
    /\ r # None /\ faults < MaxFaults
    /\ faults' = faults + 1
    /\ wiz' = [wiz EXCEPT ![c] = [Resting EXCEPT !.results =
                                    IF c \in Wizards THEN Unanswered(c) ELSE @]]
    /\ UNCHANGED <<obj, late, world, req, held, changes>>

\* The wizard is closed, or its context switches to another workspace: a new
\* instance knows nothing of what the old one was waiting for.
Leave(c) ==
    /\ c \in Wizards /\ wiz[c] # Resting /\ changes < MaxChanges
    /\ changes' = changes + 1
    /\ wiz' = [wiz EXCEPT ![c] = Resting]
    /\ UNCHANGED <<obj, late, world, req, held, faults>>
-----------------------------------------------------------------------------
(***************************************************************************)
(* Everyone else.                                                          *)
(***************************************************************************)
OthersWrite(id, v) ==
    /\ changes < MaxChanges /\ obj[id] # v
    /\ changes' = changes + 1
    /\ SetObj([obj EXCEPT ![id] = v])
    /\ UNCHANGED <<late, world, req, wiz, faults>>

RightsChange(c, right) ==
    /\ changes < MaxChanges
    /\ changes' = changes + 1
    /\ rights' = [rights EXCEPT ![c] = IF right \in @ THEN @ \ {right} ELSE @ \cup {right}]
    /\ UNCHANGED <<obj, late, conn, req, wiz, held, faults>>

\* The Connection is changed, or its Secret.
ConnectionChange(n, state) ==
    /\ changes < MaxChanges /\ conn[n] # state
    /\ state.auth = conn[n].auth \/ state.token = conn[n].token
    /\ changes' = changes + 1
    /\ conn' = [conn EXCEPT ![n] = state]
    /\ UNCHANGED <<obj, late, rights, req, wiz, held, faults>>

Init ==
    /\ obj \in InitObjs
    /\ late = {}
    /\ conn = [n \in Connections |-> Usable]
    /\ rights = [c \in Callers |-> AllRights]
    /\ req = [r \in Slots |-> Free]
    /\ wiz = [c \in Callers |-> Resting]
    /\ held = Exists(obj)
    /\ changes = 0 /\ faults = 0

\* What the server does with request r by itself.
Serve(r) ==
    \/ ParseQuery(r) \/ Validate(r) \/ ReviewConnection(r) \/ Resolve(r) \/ ResolveToken(r)
    \/ ReviewGet(r) \/ ReviewCreate(r) \/ Preflight(r)
    \/ List(r) \/ Get(r) \/ Create(r) \/ Verify(r)
    \/ Cancel(r) \/ Drop(r)
    \/ req[r].cancelled /\ CallFails(r)

Next ==
    \/ \E r \in Slots : \/ Serve(r) \/ CallFails(r)
                        \/ Register(r) \/ RetryFailed(r)
    \/ \E e \in late : Land(e)
    \/ \E c \in Callers : Receive(c) \/ GiveUp(c) \/ Leave(c)
    \/ \E id \in Ids : \E v \in Writable[id] \cup {None} : OthersWrite(id, v)
    \/ \E p \in Revocable : RightsChange(p[1], p[2])
    \/ \E n \in Connections, state \in ConnStates : ConnectionChange(n, state)

\* The server goes on with the requests of a wizard, and the wizard takes its
\* answer.  Nobody has to send anything, and the other clients' requests may
\* take for ever.
Fairness ==
    /\ \A r \in {q \in Slots : Caller(q) \in Wizards} : WF_vars(Serve(r))
    /\ \A c \in Wizards : WF_vars(Receive(c))

Spec == Init /\ [][Next]_vars /\ Fairness
-----------------------------------------------------------------------------
(***************************************************************************)
(* Properties.                                                             *)
(***************************************************************************)
Request == [stage : Stages, items : Seq(Elements), results : Seq(ItemStates),
            seen : SUBSET FactNames, cancelled : BOOLEAN]

Wizard == [waiting : Slots \cup {None}, sent : Seq(Nat), results : Seq(ItemStates)]

\* The state has its type; a request has at most as many results as items and
\* is answered with all of them, and a wizard shows one result per item and
\* waits for a request that is under way.
TypeOK ==
    /\ obj \in [Ids -> Specs \cup {None}]
    /\ late \subseteq Elements /\ held \subseteq Elements
    /\ conn \in [Connections -> ConnStates]
    /\ rights \in [Callers -> SUBSET AllRights]
    /\ req \in [Slots -> Request] /\ wiz \in [Callers -> Wizard]
    /\ changes \in 0..MaxChanges /\ faults \in 0..MaxFaults
    /\ \A r \in Slots :
          /\ Len(req[r].results) <= Len(req[r].items)
          /\ req[r].stage = "answered" => Len(req[r].results) = Len(req[r].items)
    /\ \A c \in Callers :
          /\ wiz[c].waiting # None => req[wiz[c].waiting].stage # "free"
          /\ wiz[c].sent \in Seq(1..Len(Items[c]))
          /\ Len(wiz[c].results) \in {0, Len(Items[c])}

\* "Table registration additionally proves the selected Warehouse is visible
\* to the caller and belongs to the same Connection before creating any Table"
\* (README.md), and every other check likewise: whatever changes between the
\* calls of a request, each fact its work rests on was true at some moment of
\* this request before an item was looked at or a page was fetched.
WorkIsVouched ==
    \A r \in Slots :
        /\ req[r].stage \in PerItem \cup {"list"} \/ req[r].results # <<>> =>
              Needed(Kind(r)) \subseteq req[r].seen
        /\ req[r].stage \in Calls \ {"reviewConnection"} => "connection" \in req[r].seen

\* What the wizard shows of an item is true of that item, through retries that
\* renumber the items, lost answers and results of abandoned requests: an item
\* shown as created or existing did exist with exactly its specification, one
\* shown as a conflict had another one.
ShownIsTrue ==
    \A c \in Wizards : \A i \in DOMAIN wiz[c].results :
        LET item == Normalize(c, i) IN
        /\ wiz[c].results[i] \in {"created", "existing"} => item \in held
        /\ wiz[c].results[i] = "conflict" =>
              \E e \in held : e.id = item.id /\ e.spec # item.spec

\* The handler, with its separate look, creation and second look, its failures
\* and its races, implements the contract: whole refusals, one atomic decision
\* per item, nothing overwritten.
Registry == INSTANCE RegistrationContract WITH
    others <- changes,
    call   <- [r \in Slots |->
                 [status  |-> IF req[r].stage \in {"free", "refused"} THEN req[r].stage ELSE "open",
                  items   |-> req[r].items,
                  answers |-> req[r].results]]

ImplementsContract == Registry!Contract

\* Every submission ends: the wizard does not wait for ever, whatever fails.
SubmissionEnds == \A c \in Wizards : wiz[c].waiting # None ~> wiz[c].waiting = None

\* A user who keeps pressing Retry gets every item decided once the rights,
\* the Connection and the Warehouse are in order for good: a creation that was
\* carried out although it was reported as failed does not stand in the way.
RetryConverges ==
    \A c \in Wizards :
        /\ WF_vars(\E r \in Slots : Caller(r) = c /\ RetryFailed(r))
        /\ <>[](Needed(KindOf[c]) \subseteq Facts(c))
        => <>[](Retryable(c) = {})
=============================================================================
