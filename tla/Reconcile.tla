------------------------------ MODULE Reconcile ------------------------------
(***************************************************************************)
(* The three reconcilers of controller/: Connection, Warehouse and Table   *)
(* custom resources of one tenant workspace are validated against          *)
(* Databricks and the result is recorded in their status.                  *)
(*                                                                         *)
(* The Kubernetes machinery the reconcilers run on is external and is      *)
(* modelled from how controller/ uses it:                                  *)
(*   - the API server, whose status update is refused when the object was  *)
(*     written since it was read (optimistic concurrency on the resource   *)
(*     version);                                                           *)
(*   - an informer cache per kind that follows the API server with         *)
(*     arbitrary lag and whose events fill the work queues (a lagging copy *)
(*     may skip versions of one life of an object, but not the deletion    *)
(*     between two lives: a watch that is resumed reports it);             *)
(*   - work queues that deduplicate keys and never run one key twice at    *)
(*     the same time, and delayed re-adds (RequeueAfter, error backoff).   *)
(*     Time is not modelled: a key in `queue' is due now or later, and     *)
(*     taking it may leave a second, delayed entry behind.                 *)
(*                                                                         *)
(* Resource versions are only ever compared for equality with the current  *)
(* one, so the model keeps exactly that: `stale' is the set of objects     *)
(* whose cached copy has an older version than the API server, and a       *)
(* reconcile in flight is `fresh' while its object has not been written.   *)
(***************************************************************************)
EXTENDS Resources

VARIABLES
    cache,    \* the informers' copies of the objects
    stale,    \* objects whose cached copy is not the latest version
    queue,    \* keys with a reconcile to come
    work      \* the reconcile in flight for each key

store == <<api, cache, stale, uids>>
runtime == <<queue, work>>
vars == <<store, runtime, world>>

Work == [status : Status,      \* what Status().Update will send
         fresh : BOOLEAN,      \* no write to the object since it was read
         requeue : BOOLEAN]    \* Result.RequeueAfter is not zero

ASSUME NoneIsNoWork == None \notin Work
-----------------------------------------------------------------------------
(***************************************************************************)
(* Databricks' answers.  A host that answers nothing is "unavailable", one *)
(* that rejects the credential "denied".                                   *)
(***************************************************************************)
ValidateHost(host) ==
    CASE dbx[host] = "ok" -> "Ready"
      [] dbx[host] = "denied" -> "AccessDenied"
      [] dbx[host] = "unavailable" -> "DatabricksUnavailable"

ValidateWarehouse(host, id) ==
    IF dbx[host] = "ok" /\ <<host, id>> \notin Provisioned
    THEN "ResourceNotFound" ELSE ValidateHost(host)

ValidateTable(host, table) ==
    CASE dbx[host] # "ok" -> ValidateHost(host)
      [] dbx[host] = "ok" /\ TableKind[host, table] = "queryable" -> "Ready"
      [] dbx[host] = "ok" /\ TableKind[host, table] = "missing" -> "ResourceNotFound"
      [] dbx[host] = "ok" /\ TableKind[host, table] = "unsupported" -> "UnsupportedTableType"
-----------------------------------------------------------------------------
(***************************************************************************)
(* The reconcilers' verdicts: the reason each one records, from the early  *)
(* returns in the order of the code.  The validator is always configured   *)
(* (controller_manager.go wires all three), so its nil case cannot occur.  *)
(***************************************************************************)
ConnectionVerdict(c) ==
    LET conn == cache[c] IN
    IF conn.spec.authType # "PAT" THEN "AuthTypeUnsupported"
    ELSE IF ~secrets[c] THEN "CredentialUnavailable"
    ELSE ValidateHost(conn.spec.host)

WarehouseVerdict(w) ==
    LET wh == cache[w]
        conn == cache[wh.spec.connectionRef]
    IN  IF conn = None THEN "ConnectionUnavailable"
        ELSE IF conn.spec.authType # "PAT" THEN "AuthTypeUnsupported"
        ELSE IF ~ConnectionReady(conn) THEN "ConnectionNotReady"
        ELSE IF ~secrets[wh.spec.connectionRef] THEN "CredentialUnavailable"
        ELSE ValidateWarehouse(conn.spec.host, wh.spec.warehouseID)

TableVerdict(t) ==
    LET tbl == cache[t]
        wh == cache[tbl.spec.warehouseRef]
        conn == cache[tbl.spec.connectionRef]
    IN  IF wh = None THEN "WarehouseUnavailable"
        ELSE IF wh.spec.connectionRef # tbl.spec.connectionRef
             THEN "WarehouseConnectionMismatch"
        ELSE IF ~CurrentConditionTrue(wh, "Ready") THEN "WarehouseNotReady"
        ELSE IF conn = None THEN "ConnectionUnavailable"
        ELSE IF ~ConnectionReady(conn) THEN "ConnectionNotReady"
        ELSE IF conn.spec.authType # "PAT" THEN "AuthTypeUnsupported"
        ELSE IF ~secrets[tbl.spec.connectionRef] THEN "CredentialUnavailable"
        ELSE ValidateTable(conn.spec.host, tbl.spec.table)

\* Slip: a denied credential is not looked at again.
FinalReasonsAndDenied(o) == {"AccessDenied"}

\* Slip: a successful validation is not repeated.
FinalReasonsAndReady(o) == {"Ready"}

\* Reasons after which the reconciler asks for no delayed re-add.  A
\* Connection stops on an auth type it cannot validate, while Warehouse and
\* Table keep polling for it; a Table stops on a type it can never query.
FinalReasons(o) ==
    (IF o \in Connections THEN {"AuthTypeUnsupported"} ELSE {}) \cup
    (IF o \in Tables THEN {"UnsupportedTableType"} ELSE {})

\* A failing Table keeps its cached columns only when they were stored for
\* the generation it observed.  Slip: columns survive every failure.
FailedColumnsKept(obj) == obj.status.columns

FailedColumns(obj) ==
    IF obj.status.observedGeneration = obj.generation
    THEN obj.status.columns ELSE {}

FailedStatus(o, obj) == StatusFor(o, obj, "False", FailedColumns(obj))

\* Slip: a schema that was fetched for this generation is not fetched again.
FetchedColumnsOnce(o, obj) ==
    IF o \notin Tables THEN {}
    ELSE IF FailedColumns(obj) # {} THEN FailedColumns(obj)
    ELSE {[host |-> cache[obj.spec.connectionRef].spec.host,
           table |-> obj.spec.table]}

FetchedColumns(o, obj) ==
    IF o \in Tables
    THEN {[host |-> cache[obj.spec.connectionRef].spec.host,
           table |-> obj.spec.table]}
    ELSE {}

ReadyStatus(o, obj) == StatusFor(o, obj, "True", FetchedColumns(o, obj))

Verdict(o) == IF o \in Connections THEN ConnectionVerdict(o)
              ELSE IF o \in Warehouses THEN WarehouseVerdict(o)
              ELSE TableVerdict(o)

NewStatus(o) == IF Verdict(o) = "Ready" THEN ReadyStatus(o, cache[o])
                                        ELSE FailedStatus(o, cache[o])
-----------------------------------------------------------------------------
\* Effects of any successful write of object o on its readers.
Wrote(o) ==
    /\ stale' = stale \cup {o}
    /\ work' = [work EXCEPT ![o] = IF @ = None THEN None
                                   ELSE [@ EXCEPT !.fresh = FALSE]]

\* --- tenant, Databricks and credential ------------------------------------
Create(o, spec) == CreateObject(o, spec) /\ Wrote(o) /\ UNCHANGED <<cache, queue>>

UpdateSpec(o, spec) == UpdateObject(o, spec) /\ Wrote(o) /\ UNCHANGED <<cache, queue>>

Delete(o) == DeleteObject(o) /\ Wrote(o) /\ UNCHANGED <<cache, queue>>

HostChanges(h, answer) == /\ HostAnswerChanges(h, answer)
                          /\ UNCHANGED <<cache, stale, runtime>>

SecretChanges(c, token) == /\ TokenChanges(c, token)
                           /\ UNCHANGED <<cache, stale, runtime>>

\* --- informers ---------------------------------------------------------
\* The copy the informer of an object moves on to: the latest version, or
\* first the deletion of the life it knows.
Delivered(o) ==
    IF cache[o] # None /\ api[o] # None /\ cache[o].uid # api[o].uid
    THEN None ELSE api[o]

\* Slip: only creation and deletion events pass the predicate.
SelfNotifiedOfLife(o) == cache[o] = None \/ Delivered(o) = None

\* For(..., GenerationChangedPredicate): an object's own controller hears
\* of its creation, its deletion and changes of its generation.
SelfNotified(o) ==
    \/ cache[o] = None
    \/ Delivered(o) = None
    \/ cache[o].generation # Delivered(o).generation

\* Slip: Tables do not watch Connections.
DependentsOfWarehouses(o) ==
    {w \in Warehouses : o \in Connections /\ cache[w] # None
                        /\ cache[w].spec.connectionRef = o} \cup
    {t \in Tables : cache[t] # None /\ o = cache[t].spec.warehouseRef}

\* Watches(...): every event of a Connection or a Warehouse maps to the
\* objects whose cached spec names it.
Dependents(o) ==
    {w \in Warehouses : /\ o \in Connections
                        /\ cache[w] # None
                        /\ cache[w].spec.connectionRef = o} \cup
    {t \in Tables : /\ cache[t] # None
                    /\ o \in {cache[t].spec.connectionRef,
                              cache[t].spec.warehouseRef}}

Observe(o, mapped) ==
    /\ o \in stale
    /\ stale' = IF Delivered(o) = api[o] THEN stale \ {o} ELSE stale
    /\ cache' = [cache EXCEPT ![o] = Delivered(o)]
    /\ queue' = queue \cup {d \in {o} : SelfNotified(o)}
                      \cup {d \in Dependents(o) : mapped}
    /\ UNCHANGED <<api, uids, work, world>>

Deliver(o) == Observe(o, TRUE)

\* The map function could not list the dependents and returned nil.
DeliverUnmapped(o) == MapMayFail /\ Observe(o, FALSE)

\* --- work queue -----------------------------------------------------------
\* A worker takes a key, reads the caches, the Secret and Databricks.  One
\* step suffices for the reads: a cache may lag by any amount, so values
\* read at different moments are also values of some lagging caches.  A read
\* that fails re-adds the key, which leaves everything as it was.
Begin(o) ==
    /\ o \in queue
    /\ work[o] = None
    /\ queue' \in {queue \ {o}, queue}
    /\ work' = IF cache[o] = None THEN work
               ELSE [work EXCEPT ![o] =
                        [status |-> NewStatus(o),
                         fresh |-> o \notin stale,
                         requeue |-> Verdict(o) \notin FinalReasons(o)]]
    /\ UNCHANGED <<store, world>>

\* Status().Update succeeds.  A write that changes nothing keeps the
\* resource version; a successful Table refresh always moves RefreshedAt.
Changes(o) ==
    \/ work[o].status # api[o].status
    \/ o \in Tables /\ work[o].status.conditions["Ready"].status = "True"

\* Slip: the status is patched without the resource version it was read at.
CommitBlindly(o) ==
    /\ work[o] # None
    /\ api[o] # None
    /\ api' = [api EXCEPT ![o].status = work[o].status]
    /\ stale' = IF Changes(o) THEN stale \cup {o} ELSE stale
    /\ queue' = IF work[o].requeue THEN queue \cup {o} ELSE queue
    /\ work' = [work EXCEPT ![o] = None]
    /\ UNCHANGED <<cache, uids, world>>

Commit(o) ==
    /\ work[o] # None
    /\ work[o].fresh
    /\ api[o] # None
    /\ api' = [api EXCEPT ![o].status = work[o].status]
    /\ stale' = IF Changes(o) THEN stale \cup {o} ELSE stale
    /\ queue' = IF work[o].requeue THEN queue \cup {o} ELSE queue
    /\ work' = [work EXCEPT ![o] = None]
    /\ UNCHANGED <<cache, uids, world>>

\* Status().Update fails: a conflict or a missing object when the object was
\* written meanwhile, or a transient API error.  The returned error re-adds
\* the key with backoff.
Reject(o) ==
    /\ work[o] # None
    /\ queue' = queue \cup {o}
    /\ work' = [work EXCEPT ![o] = None]
    /\ UNCHANGED <<store, world>>

Conflict(o) == work[o] # None /\ ~work[o].fresh /\ Reject(o)
ApiError(o) == work[o] # None /\ work[o].fresh /\ Reject(o)

\* The manager is restarted: a new process, or a new leadership term.  The
\* queues, timers and reconciles in flight are gone; the initial list
\* enqueues every object.
Restart ==
    /\ cache' = api
    /\ stale' = {}
    /\ queue' = {o \in Objects : api[o] # None}
    /\ work' = [o \in Objects |-> None]
    /\ UNCHANGED <<api, uids, world>>
-----------------------------------------------------------------------------
Init ==
    /\ ContractInit
    /\ cache = [o \in Objects |-> None]
    /\ stale = {}
    /\ queue = {}
    /\ work = [o \in Objects |-> None]

Tenant(o) == \/ \E spec \in TenantSpecs[o] : Create(o, spec) \/ UpdateSpec(o, spec)
             \/ Delete(o)

World == \/ \E h \in Hosts, answer \in HostAnswers : HostChanges(h, answer)
         \/ \E c \in Connections, token \in TokenStates : SecretChanges(c, token)

Controller(o) == \/ Deliver(o) \/ DeliverUnmapped(o) \/ Begin(o)
                 \/ Commit(o) \/ Conflict(o) \/ ApiError(o)

Next == \/ \E o \in Objects : Tenant(o) \/ Controller(o)
        \/ World
        \/ Restart

Spec == Init /\ [][Next]_vars

\* Informers, delayed re-adds and workers keep running; a status write that
\* is possible again and again eventually succeeds (a transient API error
\* does not strike every attempt).  Nothing is assumed of tenant or world.
Fairness ==
    \A o \in Objects :
        /\ WF_vars(Deliver(o) \/ DeliverUnmapped(o))
        /\ WF_vars(Begin(o))
        /\ WF_vars(Conflict(o))
        /\ SF_vars(Commit(o))

FairSpec == Spec /\ Fairness
-----------------------------------------------------------------------------
(***************************************************************************)
(* Properties                                                              *)
(***************************************************************************)
\* Every variable has its type.
TypeOK ==
    /\ ResourcesTypeOK
    /\ cache \in [Objects -> AnyObject \cup {None}]
    /\ \A o \in Objects : cache[o] \in Object(o) \cup {None}
    /\ stale \subseteq Objects
    /\ queue \subseteq Objects
    /\ work \in [Objects -> Work \cup {None}]

\* No wake-up is lost: an object nobody is about to look at (its latest
\* version was delivered, no key queued or delayed, no reconcile running) has
\* been reconciled at its present generation, and rests because of a failure
\* the code decided not to retry.
Unattended(o) ==
    /\ o \notin stale \cup queue
    /\ work[o] = None

Rests(o) ==
    /\ api[o].status.observedGeneration = api[o].generation
    /\ api[o].status.conditions["Ready"].status = "False"

NoLostWakeup ==
    \A o \in Objects : api[o] # None /\ Unattended(o) => Rests(o)

\* Within one life of an object its status never goes back to an older
\* generation, whatever the order in which reconciles read and write.
ObservedMonotone ==
    [][\A o \in Objects :
         api[o] # None /\ api'[o] # None =>
            (api[o].uid = api'[o].uid =>
                api[o].status.observedGeneration <=
                api'[o].status.observedGeneration)]_vars

(***************************************************************************)
(* The inductive invariant behind the safety properties: what a cached     *)
(* copy, a stored status and a reconcile in flight say about the object.   *)
(***************************************************************************)
\* A uid is used for one life of a name; a cached copy is never ahead of the
\* API server, and differs from it only if it missed a write.
CacheInv(o) ==
    /\ api[o] # None => api[o].uid = uids[o]
    /\ cache[o] # None => cache[o].uid <= uids[o]
    /\ api[o] # None /\ cache[o] # None /\ cache[o].uid = api[o].uid =>
          cache[o].generation <= api[o].generation
    /\ o \notin stale => cache[o] = api[o]

\* The status a fresh reconcile is about to write is a verdict on the object
\* as it is now and observes its generation; it gives up only on a failure.
WorkInv(o) ==
    work[o] # None /\ work[o].fresh =>
        /\ api[o] # None
        /\ SoundFor(o, work[o].status, api[o])
        /\ IsVerdict(o, work[o].status, api[o])
        /\ work[o].status.observedGeneration = api[o].generation
        /\ work[o].requeue \/ work[o].status.conditions["Ready"].status = "False"

\* An object its controller will not be told about is attended to or rests.
WakeInv(o) ==
    api[o] # None /\ ~SelfNotified(o) =>
        o \in queue \/ work[o] # None \/ Rests(o)

ObjectInv(o) == CacheInv(o) /\ StatusInv(o) /\ WorkInv(o) /\ WakeInv(o)

IInv == \A o \in Objects : ObjectInv(o)

\* What it takes for a Table to be queryable, in the tenant's objects and
\* the world, not in any status.
Healthy(t) ==
    /\ api[t] # None
    /\ LET spec == api[t].spec
           wh == api[spec.warehouseRef]
           conn == api[spec.connectionRef]
       IN  /\ wh # None
           /\ conn # None
           /\ wh.spec.connectionRef = spec.connectionRef
           /\ conn.spec.authType = "PAT"
           /\ secrets[spec.connectionRef]
           /\ dbx[conn.spec.host] = "ok"
           /\ <<conn.spec.host, wh.spec.warehouseID>> \in Provisioned
           /\ TableKind[conn.spec.host, spec.table] = "queryable"

Ready(t) == api[t] # None /\ CurrentConditionTrue(api[t], "Ready")

\* Recovery: once everything a Table depends on is in order and stays so, the
\* Table becomes and stays Ready, whatever failed before.
EventuallyReady == \A t \in Tables : <>[]Healthy(t) => <>[]Ready(t)

\* A Table's schema follows its Connection: once all is in order for good and
\* the tenant has moved the Connection for the last time (MaxGeneration), a
\* Ready Table shows the columns of the host the Connection points at.  Until
\* the Table is reconciled anew it may show those of the old host, Ready and
\* current as its status is (QueryOfTenant!AllowlistIsOfHost).
SchemaCatchesUp ==
    \A t \in Tables :
        <>[]Healthy(t) =>
            <>[](Ready(t) => \A s \in api[t].status.columns :
                    s.host = api[api[t].spec.connectionRef].spec.host)

\* Withdrawal: once something a Table depends on is broken for good, the
\* Table stops being reported as Ready.
EventuallyWithdrawn == \A t \in Tables : <>[]~Healthy(t) => <>[]~Ready(t)
=============================================================================
