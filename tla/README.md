# A TLA+ model of provider-databricks

provider-databricks connects a kcp tenant workspace to Databricks. A tenant
creates `Connection`, `Warehouse` and `Table` objects; leader-elected
reconcilers validate them against Databricks and record the result in their
status; every replica serves the `query_table/v1` action, which resolves such
a `Table` and runs one bounded `SELECT`; and an import API, used by a wizard of
the portal, lists what a workspace holds and registers it in bulk. This
directory models that program in TLA+. TLC checks small instances of the
modules, and TLAPS proves their invariants for all instances (section 4).

`PROJECT.json` lists the components, the runs, the source lines each
definition stands for, the hazards the properties are aimed at, the theorems,
and the places where code and documentation disagree. Line references below
are to files of the repository.

## 1. Inventory

| Component | State | Operations | Hard behaviour |
|---|---|---|---|
| Custom resources (`apis/`, `controller/shared`) | spec, generation, status with conditions and cached schema | create, update, delete, status update | conditions that observed an older generation |
| Reconcilers (`controller/*`) | informer caches, work queues, reconciles in flight | event, reconcile, status write, re-add, manager restart | lagging caches, conflicts, lost wake-ups, recovery along the chain |
| Query action (`tenant/action.go`, `actions/`) | the request: what it has read so far | two reviews, authority, four reads, statement, answer | rights and objects that change between two reads, deadline, three error tables |
| Slice authority (`tenant/authority.go`) | shard URLs, cluster bindings, client cache | resolve, refresh, probe, bind, build | lock released around every remote call |
| Client factory (`tenant/client.go`) | base configuration, two LRU/TTL caches | ask, look up, store, set configuration | shared caches, two locks |
| Lifecycle (`main.go`, `controller_manager.go`) | controller state, term, lease, watchdog count | load configuration, campaign, term, watchdog, stop | leader election, crash, endpoint loss, late kubeconfig |
| Statement client and validation (`backend/`) | none between calls | execute, validate, list | pagination, answers of a failing service |
| Query requests and results (`queryapi/`) | none | normalise, build SQL, bound the result | byte, row and column limits, three layers that cut one result |
| Registration and discovery (`importapi/`, `tenant/import.go`) | none; creates objects | review, resolve, preflight, register one by one, list | partial failure, concurrent creation, lost answers, retry |
| MCP server (`mcpserver/`) | none | tools over the same executor | response bounds |
| Import wizard (`ResourceImportWizard.vue`, `registrationFlow.ts`) | what was sent and what is shown of it | register, retry, leave | results numbered by request, shown by review |
| Portal lists (`refresh.ts`, `TablesView.vue`, `WarehousesView.vue`) | of a mounted view: rows, page, query, continue tokens, pending deletions, generations, timer; of a tenant: locks and tombstones | read, poll, page, search, delete here or in a detail view, change tenant, rotate the credential | answers that arrive after the question has changed; what outlives a mount and what does not |

What interacts with what: the reconcilers and the query action meet only in
the tenant's objects. The query action gets its review client from the client
factory and its reading client from the slice authority. The lifecycle starts
the reconcilers and configures the factory, and its health decides whether a
replica gets traffic. The import API uses the client factory and the slice
authority in the same way, and the wizard is a client of it. The MCP server and
the action handler are two front ends of one executor, which cuts results as
they do.

What makes each part correct:

- Reconcilers: a status is always a verdict on the object as it is when it is
  written; no object is forgotten; the Ready condition of a Table ends up
  agreeing with the world.
- Query action: nothing is read for a caller without both rights; the
  projection is checked against the schema of the table that is queried (of the
  host that is queried, too, unless the Connection has just been moved: section
  6); the answer tells the caller what happened and whether to retry.
- Slice authority: a cluster is only sent to the shard that hosts it.
- Client factory: a caller only ever gets a client with its own token.
- Lifecycle: one live term; lost endpoints end it; controllers come back.
- Registration: nothing is overwritten, every item has one truthful answer,
  and a retry of what failed converges.
- Statement client: a verdict has its reason in what the workspace said, every
  loop ends, and what is sent is the largest part of a result that fits.
- Portal lists: what is on the screen answers the question on the screen.

## 2. Modules

| Module | Models | Extends |
|---|---|---|
| `Resources` | the objects and the contract between their writers and readers | |
| `Reconcile` | the three reconcilers on top of caches and queues | `Resources` |
| `ActionErrors` | the three error tables | |
| `Query` | one `query_table` request beside tenant and reconcilers' contract | `Resources`, `ActionErrors` |
| `QueryOfTenant` | the same request beside the reconcilers themselves | `Reconcile`, `Query` |
| `SliceAuthority` | `tenant.SliceAuthority` | |
| `ClientFactory` | `tenant.ClientFactory` | |
| `Lifecycle` | a set of replicas in required mode | |
| `RegistrationContract` | what a registration promises: whole refusals, one atomic decision per item | |
| `Registration` | `tenant.ImportHandler` and the clients that send and retry registrations | instantiates `RegistrationContract` |
| `StatementClient` | calls to a Databricks workspace and what is made of the answers | |
| `CollectionView` | a list of the portal | |
| `MC*` | constants of the small instances, symmetry | the module they name |
| `*Proofs` | theorems and lemmas | the module they name |

Definitions called "Slip" stand beside the definition they distort. No
specification uses them; each is a plausible bug that some property detects.

### Resources: the contract

`Resources` holds what the tenant, the reconcilers and the query action share:
`api` (the objects in the API server), `uids`, `dbx` (how each Databricks host
answers) and `secrets` (whether the credential is there). An object has a
`uid`, a `generation` that a change of spec increments, its spec and its
status. A cached column list is abstracted to where it was fetched from
(`Schemas`), host and table, because that is what the properties tell apart; the
names of columns are not needed.

`ContractSpec` is the abstract specification of the reconcilers. Each status
write (`WriteStatus`) is a verdict on the object as it is at that moment: it
observes the present generation, offers only columns of the table that the
spec names, fetched from a host its Connection may name (`HostsOf`: whichever
the tenant moves it between), and calls a Table ready only with columns. `Reconcile` implements
this specification: its variables include those of the contract, so the
refinement mapping is the identity, and everything the caches and queues do is
a stuttering step. `Query` runs beside `ContractNext` and so relies on nothing
that the reconcilers do not promise.

### Reconcile

`Begin` is a worker that takes a key, reads caches, Secret and Databricks, and
computes the status with the early returns in the order of the code
(`ConnectionVerdict`, `WarehouseVerdict`, `TableVerdict`). `Commit`,
`Conflict` and `ApiError` are the outcomes of `Status().Update`. In between,
anybody may write. `Deliver` is an informer event that enqueues the object
itself (subject to `GenerationChangedPredicate`) and, through the map
functions, its dependents; `DeliverUnmapped` is the same event when the map
function's `List` fails and it returns nil. `Restart` starts a new manager.

The Kubernetes machinery is external and modelled from how `controller/` uses
it. Resource versions are compared for equality with the current one only, so
the model keeps that bit (`stale`, `fresh`) and not the numbers. Time is not
modelled: a delayed re-add is a key in `queue` that may be taken at any time.

`SelfNotified` compares what `GenerationChangedPredicate` compares, generations
and nothing else. That an object deleted and created anew is noticed all the
same rests on the informer, which passes through the deletion (`Delivered`) as a
watch does that is resumed where it was. A relist that finds the new object in
the place of the old one, at the same generation, is an update event that the
predicate drops; it is not modelled, and `NoLostWakeup` does not hold of it: the
new object is not reconciled until something it depends on changes, a key of its
predecessor comes due or the manager restarts.

### ActionErrors and Query

`sanitizeActionError`, `normalizeActionError` and `writeFailure` keep their
names. A Go error is abstracted to what they test: its type, its retry flag
and whether `safeActionErrorMessage` finds a marker in its text.

`Query` has one action per remote call of `QueryTable`, in the order of the
code, with the checks that follow the call; `Refuse` is everything the handler
and the executor reject before the first of them, `CallFails` a failure of a
call and `Expire` the deadline. One request is enough because requests share
nothing that they write. The failure of `boundResultEnvelope` is left out: a
result without rows and columns always fits, because request id and route are
bounded (`StatementClient` has that case).

`Query` runs beside any implementation of the contract, which is what its proofs
are about. `QueryOfTenant` composes it with `Reconcile` instead: a request that
finds every condition of the chain current may still meet a Table whose
reconcile began before its Connection moved, and the counterexample has to come
from the reconcilers, not from a contract that would allow more than they do.

### SliceAuthority, ClientFactory

Every step between two lock operations is an action, so reads of the endpoint
slice, probes and the construction of clients overlap freely. In
`SliceAuthority` one shard hosts a cluster (`Home`), and only that shard
answers a probe. In `ClientFactory` a cache is the sequence of its records in
the order of `lastUsed`. This is exact because the counter only serves to
order them. A collision of the truncated token hashes is not modelled.

### Lifecycle

Each replica has a phase (`loading`, `campaign`, `ensure`, `wait`, `run`,
`over`), the state that `controllerHealth` reports, the watchdog's count and
the two facts that readiness depends on. The election is provider-sdk's and is
modelled from its use: a term ends when its callback returns, or is cancelled
when the lease is lost while the manager may still be running. `MaxFaults`
bounds the failures of one behaviour.

### Registration: contract and handler

`RegistrationContract` knows nothing of rights, checks, clients or races. A
request is refused as a whole, or its items are decided in turn, each in one
indivisible look at the resource of its name; nothing that exists is
overwritten; only "failed" leaves open whether the item was, or still will be,
created.

`Registration` has one action per remote call, in the order of the code:
`ReviewConnection`, `Resolve` and `ResolveToken` (the two reads of
`ResolveConnection`), `ReviewGet`, `ReviewCreate`, `Preflight`, and per item
`Get`, `Create` and `Verify`. `CallFails` is the failure of any of them; a
creation that fails may have been carried out, or be carried out later
(`late`, `Land`). A client that gives up leaves its request running until the
server notices (`Cancel`). The wizard keeps one result per item, sends the
failed ones again and merges what comes back by position. An item's data is
one value: `SpecEqual` compares whole specifications.

`Registry == INSTANCE RegistrationContract WITH ...` is the refinement: a
request is `open` from its arrival to its last answer, and everything before a
decision is a stuttering step. The mapping shows the race that matters: a
`Get` that finds nothing, a `Create` that meets somebody else's resource and a
`Verify` together are one decision, made at the last of the three.

`seen` is a history variable, the facts that held at some step of a request;
`held` is another, the items that existed at some moment.

### StatementClient

One call at a time; an HTTP exchange or a round of a loop is a step. The
workspace is external and may answer anything. A listing is honest (its pages
follow one another and hold the table on one page or on none) or answers any
token at any time. A result's cell is the place it was received at, so that
`AnswerIsLargest` can say that every value is sent under its own column.
Lengths are abstract: a result costs its metadata, its reference, its columns,
its cells and, if it says so, the truncation flag; the action's envelope adds
to it and the MCP server sends it twice. The escaping of JSON in JSON makes the
second copy longer in the code; both loops measure the real text, so only the
amounts differ.

`Largest` is the reference definition the three layers of cutting are checked
against: the longest prefix of the rows that fits, a shorter prefix of the
columns only if not even the columns alone fit.

### CollectionView

The view is a sequential program, so its handlers are operators from one state
record to the next, and an action is what runs between two awaits. `polls`
tells WarehousesView from TablesView; the two files differ in `load` and in the
timer, and the model's definitions name the lines of one of them. The
controller's and the view's generation counters are kept as the answer the
running task gets when it compares them. A page has one row; a query is active
or not, because the filter itself is applied to rows that are there.
`Lingers` lets a deleted object stay listed, as a finalizer does. `owed` is a
history variable: the view has thrown away its rows or its authority and has
read nothing since.

`ctx` is a tenant and a version. `contextVersion` (`App.vue:83`) moves on a
change of tenant, and also on a rotation of the token or a new base path within
one; either remounts the keyed view (`Switch`, `Remount`). What is kept where
follows the code: rows, page, tokens and `pending` (`pendingDeletions`) are the
mount's; `tomb` and the locks (`removing`) are the tenant's operation domain,
which goes on over a remount for the same tenant and starts clean for another
one. Detail views delete too (`Visit`, `RemoveVisited`) and acknowledge to the
domain only (`VisitedAnswers`), while the list is kept alive behind them.

A later page is asked for with the continue token that the page before came
with. The token pins the list it was cut from: `snap` of an answer, `token` of
the view and `cursor` of its page carry that list along, and `TokenExpires` is
the 410 Gone it ends in, which the view takes for any other error and keeps
asking with the same token.

Left out: a detail view that is opened by its address before the list was ever
mounted, and deletions still under way in a tenant that is not selected, which
look like somebody else's (`Vanish`).

## 3. Runs

| Run | Question | Instance |
|---|---|---|
| `reconcile_safety` | Are statuses verdicts on the present object, and is no object forgotten? | one object per kind; the Table has two specs, two generations and two lives, the Warehouse may be deleted; one of the two Databricks tables has an unsupported type; map functions may fail |
| `reconcile_live` | Do periodic re-adds make up for lost events? | one object per kind, a host that accepts and rejects, a token that comes and goes, a Connection of either auth type, failing map functions |
| `reconcile_live_chain` | Do the watches wake what nobody polls, and do a Table's cached columns follow its Connection? | a Connection that moves between three hosts; two have a table of the same name that can be queried, on the third it is unsupported |
| `query_request` | Is a request authorized, vouched for, and answered by its cause? | one object per kind, two table names, host, token, rights and Table that come and go |
| `slice_routing` | Are clusters routed home under overlapping refreshes? | two shards, two clusters, two requests, a cap of one |
| `factory_caches` | Are the shared caches isolated, bounded and LRU? | one cluster, three tokens, two requests, capacity two, one tick of lifetime |
| `lifecycle_terms` | One live term, watchdog, recovery? | two replicas, three failures |
| `registration` | Are answers truthful and retries safe, whatever fails or changes between two calls? | a wizard with two Tables and two requests, a script with their Warehouse, a client that browses; one change of the world, one failure |
| `statement_calls` | Are verdicts justified, loops bounded and results cut to the largest part that fits? | four pages and listings of up to six; two rows and columns allowed, three sent; requests one beyond each limit |
| `portal_lists` | Does the screen answer the question on the screen, and does the view that polls catch up? | two names, two uids, two tenants, pages of one; three actions of users or others, one failure; both kinds of view |
| `portal_reload`, `query_moved` | Does the code do what this comment or document says? It does not. | see section 6; `query_moved` has one object per kind, two hosts with the table and a caller who keeps both rights, to whom no call fails (`Calm`) |

The bounds are chosen so that the interesting cases happen. Two generations
and two lives let a reconcile read one version and write to another, also
across a delete and a re-creation. Three tokens exceed a capacity of two. Two
requests are enough for a lookup and a store to overlap, and a cap of one is
reached by the second client. Three failures allow a term to be lost, its
successor to fail and a replica to crash. In `registration` two requests of
the wizard let a retry run beside the request it gave up; one failure and one
change already combine with each other and with the script's request, which
registers or competes for the Warehouse that the preflight reads. In
`statement_calls` the sizes are chosen so that some results fit on both wires,
some only in an action, some lose rows and some lose columns too; a listing
can be longer than what is read, and a token can come back after any number
of pages. In `portal_lists` three actions are enough to search, clear the
search and delete, or to delete, create anew under the same name and change
tenants or mounts, with every interleaving of the reads in between.

Some values are left out of a run on purpose. `reconcile_live_chain` has no
failing map functions: a Table that rests on `UnsupportedTableType` is woken
only by an event of its Connection or Warehouse, and if the map function's
`List` fails at that very event the Table stays as it is until the next one.
This is a limit of the code (`controller/table/controller.go:84`, `:225`) and
`EventuallyReady` does not hold there. Databricks' tables do not change their
type in the model for the same reason: nothing would tell the Table.

### Fairness

- `Reconcile`: informers deliver, workers take due keys, a conflict is
  returned; `Commit` is strongly fair, which says that a transient API error
  does not strike every attempt. Nothing is assumed of tenant, Databricks or
  the credential. The liveness properties have the form "if the world settles,
  then the status settles accordingly".
- `Lifecycle`: each goroutine keeps running (retry interval, election, ticker,
  manager shutdown), a cancelled set-up fails because its context is done, a
  process that got SIGTERM exits after five seconds and is started again, and
  leases run out. Crashes, lost leases and failures are never fair.

- `Registration`: the server goes on with a request (client-go and the HTTP
  server bound every call by a time-out or the request's context), and the
  wizard takes its answer. Requests of other clients may take for ever.
  Nobody is assumed to press Retry: `RetryConverges` says what follows if the
  user keeps doing so and rights, Connection and Warehouse are in order.
- `StatementClient`: a call goes on until it returns; each exchange has a
  time-out of 30 seconds.
- `CollectionView`: reads are answered or fail, a timer that is set fires, and
  Vue mounts the keyed view of a new tenant. Users do nothing by obligation.

The other modules state safety only. `registration` and `portal_lists` do not
check deadlock: a wizard may be done, and a view that does not poll may rest.

## 4. Proofs

All theorems hold for every value of the constants under the named
assumptions of the modules: the three kinds of names are disjoint, specs are
well-formed, bounds are natural numbers, capacities are positive, `None` is no
value. In `Registration`, items are normalised to elements of the registry, a
batch is a sequence of indices of its caller's items, and what others write are
specs; in `CollectionView`, names are numbers in the order of the server, there
are finitely many names and tenants, and there is a tenant and a uid; in
`StatementClient`, an honest listing has numbered pages, columns, rows, entries
and Tables come in sequences and have lengths, an empty answer fits the wire,
and the envelope of an action takes at most half of the limit and the reserve of
MCP together (it is a few fields around a result of up to `MaxQueryBytes`).
TLC evaluates these assumptions in the runs.

**ReconcileProofs.** None of the safety properties is inductive alone. `IInv`
is their strengthening, for each object:

- `CacheInv`: a cached copy is never ahead of the API server and differs from
  it only if a write has not been delivered;
- `StatusInv`: the stored status is sound for the stored object;
- `WorkInv`: a reconcile whose object was not written since it was read is
  about to write a verdict on the object as it is now;
- `WakeInv`: an object whose controller will not be told about it is queued,
  being reconciled, or rests on a failure the code decided not to retry.

`CacheInv` is what makes `Begin` establish `WorkInv` (the copy it reads is the
object if nothing is stale); `WorkInv` is what makes `Commit` preserve
`StatusInv`, keep generations from going back, and be a `WriteStatus` of the
contract. `SchemaCorrect`, `ObservedCorrect`, `WakeupsCorrect` and
`MonotoneCorrect` follow, and `ContractImplemented` is the refinement:
`Spec => ContractSpec`.

**QueryProofs.** `QInv` joins the contract's own invariant, proved first, with
what each stage of a request has established: both
rights held during the request, a Table that was sound when it was read, a
Warehouse that names the same Connection. The snapshot stays sound by itself
after the objects have moved on; this is why `TargetCorrect` holds although
the chain was read at different times. Its columns were fetched from a host that
the Connection named at some moment; for them to be the host the statement goes
to, all of these moments must agree, which is the condition `HostIsFixed` in
`TargetIsVouched`. `AnswerCorrect` follows each error
through the three tables: one with a safe text keeps its code and status
(`RespondsWith`), one with the default text becomes `action_failed`.

**SliceAuthorityProofs.** The invariant says of every stage where its shard
came from: from a binding, from a probe, or from being the only one known.

**ClientFactoryProofs.** The invariant says that the client of a record
belongs to its key and that keys are unique in a cache; the lemmas say that
removing, touching, appending, evicting and ageing keep this. `UsedCorrect`
needs besides that the last record of a cache survives `Touch` and `Evict`.

**LifecycleProofs.** The invariant says that a replica in a term that was not
cancelled holds the lease.

**RegistrationProofs.** `Inv` says of every request:

- `Shape`: results come only while items are decided, one for each in turn, and
  an answered request has all of them;
- `Vouched`: each stage comes after the checks that lead to it, and each of
  these checks held at some step of this request;
- `Truthful`: a result is true of the item at its position;

and of every client (`WizardInv`) that it waits for a request of its own, whose
items are exactly those it remembers having sent, in that order. The last part
is what makes the proof of `ShownCorrect` go through a retry, which renumbers
the items: an answer's position is looked up in `sent`, and `Truthful` speaks
of the item at that position. Results stay true because nothing leaves the
history `held` (`TrueForGood`), which is also why abandoned requests and late
creations do no harm. `ContractImplemented` shows that each step of the handler
is a step of `RegistrationContract` or a stutter, under the mapping that forgets
the stage of a request but for "free" and "refused": the look, the creation and
the second look at one item stutter until the one that decides, and that one
decides by what the object is at that very moment.

**CollectionViewProofs.** The handlers are operators on the view's record, so
there is a lemma for each of them, from `Request`, `Load` and `End` up to the
three continuations of the task, and the proof of an action puts lemmas
together as the action puts operators together. The parts of `Inv`:

- `RowsInv`, `SettledInv`: rows, page marker and the settled flag fit the answer
  the view took over last (`from`);
- `TaskInv`, `WaitInv`: a task asks one question about one tenant, and what is
  marked as pending has a task. `WaitInv` is apart because `Search` marks a walk
  before `load` starts its task;
- `DeletionInv`: tombstones are those of acknowledged deletions of the view's
  tenant, and a complete answer that still counts holds every acknowledged object
  the server lists. This is why a complete list may end tombstones;
- `HiddenInv`: an acknowledged object that is not excused is behind a tombstone,
  or it is neither on the screen, nor within reach of a token or an answer that
  counts, nor on the server any more. `Reach` is needed because a token brings
  back what was listed when it was made;
- `StoreInv`: a tenant's names are unique on the server, and what the view knows
  of has existed, so that an object created later is not one of them.

`HiddenInv` is not inductive without `DeletionInv`: a read that began before the
deletion may answer after it, and only its invalidation on an acknowledgement to
the list, or else the tombstone, keeps the object away. Both speak of the tenant
and not of the mount, so that they survive `Remount`. `TenantsStayApart` is proved with the
same lemmas: every one of them also says that the rows it adds are objects of
the tenant that is selected. TLC checked `Inv` on the instance of
`portal_lists` before it was proved.

**StatementClientProofs.** The workspace is the adversary: it may answer
anything at any exchange. The parts of `Inv`:

- `WalkInv`: the tokens a walk has sent are distinct and no more than the limit;
- `ValidationInv`: what a validation knows before its verdict. In an honest
  listing the n-th request asks for page n, and the table is on none of the
  pages before it. This is what "not found" at the last page rests on, and what
  the page limit must not stand in for;
- `RequestInv`: a request that has passed a layer has its limit defaulted and
  its controls in order, and one that has passed the executor has a schema if it
  asks for columns. Hence `SelectTableSQL`, which checks again, can only refuse
  a column that is foreign to the schema;
- `OtherInv`: which operation a stage belongs to.

`WireCorrect` needs no theory of sums: the loops stop at an answer that was
measured or at an empty one, and the sum over nothing is 0 (`NoRows`,
`NoTables`).

What is sent has an inductive invariant of its own, `QueryInv`. At every moment
between the statement and the wire the result is `Part(response, n, k)`, its
first n rows of its first k distinct columns, and the part is `Pending`:
columns are missing only if no row is left, and no larger part fits the wire.
The argument, per lemma:

- `StartIsPart`: `normalizeResultShape` makes the statement's result the part
  with as many rows and columns as the limits allow. Removing duplicates leaves
  the first column of each name (`DistinctIsFirsts`), while a row keeps the last
  cell of that name (`CellIsLast`);
- `PartStays`: normalising a part again, as each layer does, changes nothing;
- `CutRow`, `CutColumn`: a round of a loop makes the next smaller part of it;
- `TooLong`: a part that is too long for a layer on the way is too long for the
  wire. This is what keeps the early layers from sending less than would fit,
  and what the two assumptions on the envelope are for: the backend measures
  with a placeholder that may be longer than the name of the Table;
- `NothingFits`: the part without rows and columns fits, so that no loop runs
  out of things to cut. An action's `boundResultEnvelope` never fails, and the
  empty result `BoundQueryResult` falls back to is never needed;
- `StopsAtLargest`: a pending part that fits is `Largest`;
- `CompletePart`: a part that is not marked lacks neither row nor column, and
  its rows were as wide as the schema.

`AnswersCorrect` combines them. `LargestCorrect`, `TruncationCorrect` and, with
the plain `FieldsInv`, `TypeCorrect` follow. For a list, `ListInv` says that it
is marked or still what was collected, and `ReferencesAll` that nothing is
missed below the limit.

These proofs rest on what folds compute. The induction theorems of the library
take an operator as a parameter and cannot be used, but induction can be stated
for sets: a set of natural numbers that holds 0 and with n also n + 1 holds all
of them (`CountingUp`, from the well-foundedness of <), and the like for a
family of finite sets (`Emptying`). From these follow that a fold whose step is
a function exists (`FoldExists`), that it is the only one (`SameFold`), and that
a fold over a sequence goes through its prefixes (`LeftFold`). `Distinct`,
`References` and the sums are written as folds so that these lemmas apply.

TLC checked `Inv`, `QueryInv` and `ListInv` on the instance of
`statement_calls` before they were proved.

Where a proof exists, some type invariants and strengthenings are not checked by
a run as well: those of `Reconcile`, `SliceAuthority`, `ClientFactory` and
`Lifecycle`, and for a query request the type `Request` within `RequestCorrect`.
The same holds of `ObservedNeverAhead`.

Every invariant that a run expects to hold is a theorem. Only model-checked are
the liveness properties, which are out of the prover's reach.

## 5. What a reader may rely on

- Whatever is deleted, created anew, delayed or restarted, a status in the API
  server is a statement about the object it is stored in, never ahead of it,
  and `columns` of a current status belong to the table that the spec names.
- A Table recovers and is withdrawn with what it depends on, with the
  exception described in section 3.
- A Table's columns end up being those of its Connection's host. Until its next
  reconcile they may be those of the host before, and are then believed by a
  request (section 6).
- A request reads nothing with the provider's credential unless its caller
  held both rights during that request. The two rights need not have been held
  at the same moment.
- No caller gets a client made with another caller's token, and no cluster is
  bound to a shard that does not host it; a shard that is the only one known
  is used unasked.
- A registration touches nothing before every fact it rests on was true during
  that request, overwrites nothing, and answers each item with what was so at
  one moment. What the wizard shows of an item is true of that item. "failed"
  means unknown: the item may exist, and a retry then finds it "existing".
- "Not found" from a validation means a 404 or a listing read to its end.
- An answer that does not say that it is truncated is complete, and one that
  does is the largest that fits.
- A list of the portal never mixes pages, queries or tenants. The view that
  polls catches up with the server on its first page and with a query; a later
  page shows the list its token pins, and an error once that has expired. The
  view that does not poll may stay empty (section 6).
- An acknowledged deletion stays hidden, over remounts for the same tenant too,
  except in the cases that `DeletedStaysHidden` names. First-run is shown only if
  the last complete list that the mount read, and has not thrown away, held
  nothing but objects whose deletion was acknowledged; they may still linger.

## 6. Where code and text disagree

Two have a run that ends in a counterexample (`PROJECT.json`, "findings"):

1. `portal_reload`: the Tables view drops the reload that it asks for while a
   read is pending, and then that read's answer too
   (`views/TablesView.vue:121`). Clearing a search, turning a page or the
   acknowledgement of a deletion at such a moment leaves an empty or unsettled
   list until the user refreshes it.
2. `query_moved`: a Connection moves to another host and is validated there; a
   Table whose reconcile against the first host is under way, or already done,
   is Ready and current, and a request sends the first host's columns to the
   second. The skill and the contract say that current columns are evidence of
   the bound table's schema (`AllowlistIsOfHost`). `SchemaCatchesUp`, in
   `reconcile_live_chain`, shows that it heals.

Others are stated in the modules as properties that do not hold; adding one of
them to the configuration of the passing run of its module gives the
counterexample:

- `ServingRecovers` (`Lifecycle`): a replica started without a kubeconfig is
  given its client configuration when the file appears, but never a slice
  authority, since `SetAuthority` is called at start-up only (`main.go:98`; the
  comment at `:91` says that a later recovery is enough). It does not serve until
  it is restarted.
- `ReadyIsCurrent` (`Lifecycle`): a manager that stops without an error after the
  lease was lost leaves the state `ready`, which the comment at
  `controller_manager.go:239` means to avoid.
- `FirstRunIsConfirmed` (`CollectionView`): `pendingDeletions` makes first-run
  wait until a deletion is confirmed (comment at `views/TablesView.vue:126`), but
  a detail view sets only the tombstone: the list that is shown again behind it
  counts as settled while its last row is hidden. What holds is `FirstRunIsTrue`.
- `DeletedNeverShown` (`CollectionView`): a query that reuses the rows on the
  screen reconciles tombstones against these rows (`views/TablesView.vue:222`, and
  the same line of the Warehouses view), from which a deleted object was removed
  by hand. If the server still lists it, it reappears with the next read, although
  `refresh.ts:137` says that it is hidden until a later authoritative list omits
  it. What holds is `DeletedStaysHidden`, which excuses this case and two smaller
  ones: a list read before the object was created that arrives after a detail
  view's deletion, and the tombstone of another object of the same name.
- `OffersAreQueryable` (`StatementClient`): discovery offers a table whose name no
  statement can quote, although the comment at `queryapi/query.go:275` says that
  discovery marks such metadata by the rule of `ValidateIdentifier`. It tests for
  the empty string only (`importapi/importapi.go:181`). `Normalize` has a third
  rule (`:337`), which the model does not look at here: it also refuses names that
  are blank or longer than 255 bytes.
- `FreshShardPickedUp` (`SliceAuthority`): the shard list is refreshed only
  while it is empty, although the comment at `tenant/authority.go:207` says
  that a miss forces it.
- `DeadBindingForgotten` (`SliceAuthority`): a binding made after a concurrent
  refresh pins a shard that has gone (`tenant/authority.go:187`, comment at
  `:209`).
- `MissingIsReported` (`Query`): a Table, Warehouse or Connection that does
  not exist is reported as `action_failed`, since the resolve functions
  replace the API error by a text; `action-contract.md:89` promises
  `resource_not_found`.
- `OldHostsCleared` (`ClientFactory`): a request in flight stores a client of
  the previous host after the caches were cleared (`tenant/client.go:335`,
  comment at `:139`).

More were seen and have no property of their own:

- `queryapi/query.go:188`: of two columns with one name the type is the
  first's and the values are the last's; the result says that it is truncated.
- `mcpserver/tools.go:241`: `describe_table` reads a Table's identity and its
  schema separately, and the two may belong to different versions.
- `views/WarehousesView.vue:58`: the cursor of a later page is kept for ever;
  once it has expired every read of that page is an error, and only another page
  or a query helps.
- `actions/actions.go:528`: the message of a rejected projection names the
  column; if the name contains a marker such as `token`, the code is dropped
  with the message and the caller sees `action_failed` with 502, where
  `action-contract.md:88` promises 400. `AnswerMatchesCause` excludes this
  case (`unknownMarked`).
- `README.md:85` says that a manager exit clears readiness; since
  `controllerHealth.ready` looks at serving only, it does not.

## 7. Not modelled, and the plan

Next: `registrationTree.ts`, the lazily loaded tree of the import wizard.

Out of the prover's reach, and with TLC for good: liveness under fairness.

Left out for good: the host policy, SQL quoting and other string predicates;
the building of URLs and the decoding of JSON and headers (each is one refusal
in the models); the transport of the MCP server; the REST-only and development
modes; `init`, which installs manifests once through provider-sdk; embedded
assets, generated code, charts and manifests; the portal's HTTP client, forms,
detail views, journey and rendering, and its UI kit.
