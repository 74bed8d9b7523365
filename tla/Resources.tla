----------------------------- MODULE Resources -----------------------------
(***************************************************************************)
(* The tenant's Connection, Warehouse and Table objects, and the contract  *)
(* between those who write them and those who read them.                   *)
(*                                                                         *)
(* ContractSpec is the abstract specification of the reconcilers: whatever *)
(* caches, queues and reconciles do, all that a reader of the objects sees *)
(* is that each status write records a verdict on the object as it is at   *)
(* that very moment.  Reconcile implements it; Query relies on it.         *)
(***************************************************************************)
EXTENDS Naturals

CONSTANTS
    Connections,    \* names of Connection objects
    Warehouses,     \* names of Warehouse objects
    Tables,         \* names of Table objects
    Hosts,          \* Databricks workspace hosts
    WarehouseIDs,   \* Databricks SQL warehouse ids
    TableNames,     \* Databricks catalog.schema.table names
    Provisioned,    \* the <<host, warehouse id>> pairs that exist
    TableKind,      \* what Databricks has under <<host, table name>>
    MapMayFail,     \* whether an event handler's List may fail
    HostAnswers,    \* how the hosts may answer
    TokenStates,    \* whether a Secret may hold a token, may lack it
    TenantSpecs,    \* the specs the tenant may give each object
    Deletable,      \* the objects the tenant may delete
    MaxGeneration,  \* bound: the generation each object's spec may reach
    MaxUID,         \* bound: how often each name may be created
    None            \* no object, no reconcile

Objects == Connections \cup Warehouses \cup Tables

CondTypes == {"Validated", "Ready"}

ASSUME KindsDisjoint ==
    /\ Connections \cap Warehouses = {}
    /\ Connections \cap Tables = {}
    /\ Warehouses \cap Tables = {}

ASSUME WorldAssumption ==
    /\ Provisioned \subseteq Hosts \X WarehouseIDs
    /\ TableKind \in [Hosts \X TableNames ->
                        {"queryable", "unsupported", "missing"}]
    /\ HostAnswers \subseteq {"ok", "denied", "unavailable"}
    /\ TokenStates \subseteq BOOLEAN
    /\ MapMayFail \in BOOLEAN

ASSUME BoundsAssumption ==
    /\ MaxGeneration \in [Objects -> Nat]
    /\ MaxUID \in [Objects -> Nat]

VARIABLES
    api,      \* the API server's objects
    uids,     \* how often each name has been created
    dbx,      \* how each Databricks host answers
    secrets   \* whether the connection's Secret holds a token

world == <<dbx, secrets>>
resources == <<api, uids, world>>
-----------------------------------------------------------------------------
(***************************************************************************)
(* Objects.  The cached schema of a Table is abstracted to its provenance: *)
(* the host and table name it was fetched for; {} is a nil column list.    *)
(***************************************************************************)
ConnectionSpec == [host : Hosts, authType : {"PAT", "other"}]
WarehouseSpec == [connectionRef : Connections, warehouseID : WarehouseIDs]
TableSpec == [connectionRef : Connections, warehouseRef : Warehouses,
              table : TableNames]

SpecOf(o) == IF o \in Connections THEN ConnectionSpec
             ELSE IF o \in Warehouses THEN WarehouseSpec
             ELSE TableSpec

ASSUME TenantAssumption == \A o \in Objects : TenantSpecs[o] \subseteq SpecOf(o)

Condition == [status : {"Unknown", "True", "False"}, observedGeneration : Nat]

Schemas == [host : Hosts, table : TableNames]

Status == [observedGeneration : Nat,
           conditions : [CondTypes -> Condition],
           columns : SUBSET Schemas]

\* The spec of an object is one the tenant gave to its name.
Object(o) == [uid : Nat, generation : Nat, spec : TenantSpecs[o], status : Status]

AnyObject == [uid : Nat, generation : Nat,
              spec : ConnectionSpec \cup WarehouseSpec \cup TableSpec,
              status : Status]

ASSUME NoneAssumption == None \notin AnyObject

EmptyStatus ==
    [observedGeneration |-> 0,
     conditions |-> [t \in CondTypes |->
                       [status |-> "Unknown", observedGeneration |-> 0]],
     columns |-> {}]

SetCondition(conditions, condType, status, observedGen) ==
    [conditions EXCEPT ![condType] =
        [status |-> status, observedGeneration |-> observedGen]]

CurrentConditionTrue(obj, condType) ==
    LET condition == obj.status.conditions[condType]
    IN  /\ obj.status.observedGeneration = obj.generation
        /\ condition.status = "True"
        /\ condition.observedGeneration = obj.generation

ConnectionReady(conn) == /\ CurrentConditionTrue(conn, "Validated")
                         /\ CurrentConditionTrue(conn, "Ready")
-----------------------------------------------------------------------------
(***************************************************************************)
(* Verdicts.                                                               *)
(***************************************************************************)
\* Each reconciler records Ready; the Connection's records Validated too.
NewConditions(o, obj, status) ==
    LET ready == SetCondition(obj.status.conditions, "Ready", status,
                              obj.generation)
    IN  IF o \in Connections
        THEN SetCondition(ready, "Validated", status, obj.generation)
        ELSE ready

StatusFor(o, obj, ready, columns) ==
    [observedGeneration |-> obj.generation,
     conditions |-> NewConditions(o, obj, ready),
     columns |-> columns]

\* The hosts the tenant may point a Connection at, in any of its versions.
HostsOf(c) == {spec.host : spec \in TenantSpecs[c]}

\* The schemas a Table may cache: of the table its spec names, on a host its
\* Connection has been pointed at.  Which of them nobody checks: the status
\* does not record the host, and the Connection's generation is not the
\* Table's.
SchemasFor(o, obj) ==
    IF o \in Tables
    THEN {s \in Schemas : /\ s.table = obj.spec.table
                          /\ s.host \in HostsOf(obj.spec.connectionRef)}
    ELSE {}

\* The status is a verdict on this version of the object: it observes its
\* generation, offers only columns of the table its spec names, and calls a
\* Table ready only with columns.
IsVerdict(o, status, obj) ==
    \E ready \in {"True", "False"}, columns \in SUBSET SchemasFor(o, obj) :
        /\ o \in Tables /\ ready = "True" => columns # {}
        /\ status = StatusFor(o, obj, ready, columns)
-----------------------------------------------------------------------------
\* --- the tenant ------------------------------------------------------------
CreateObject(o, spec) ==
    /\ api[o] = None
    /\ uids[o] < MaxUID[o]
    /\ uids' = [uids EXCEPT ![o] = @ + 1]
    /\ api' = [api EXCEPT ![o] = [uid |-> uids[o] + 1, generation |-> 1,
                                  spec |-> spec, status |-> EmptyStatus]]
    /\ UNCHANGED world

UpdateObject(o, spec) ==
    /\ api[o] # None
    /\ api[o].spec # spec
    /\ api[o].generation < MaxGeneration[o]
    /\ api' = [api EXCEPT ![o] = [uid |-> @.uid, generation |-> @.generation + 1,
                                  spec |-> spec, status |-> @.status]]
    /\ UNCHANGED <<uids, world>>

DeleteObject(o) ==
    /\ o \in Deletable
    /\ api[o] # None
    /\ api' = [api EXCEPT ![o] = None]
    /\ UNCHANGED <<uids, world>>

\* --- Databricks and the credential --------------------------------------
HostAnswerChanges(h, answer) ==
    /\ dbx[h] # answer
    /\ dbx' = [dbx EXCEPT ![h] = answer]
    /\ UNCHANGED <<api, uids, secrets>>

TokenChanges(c, token) ==
    /\ secrets[c] # token
    /\ secrets' = [secrets EXCEPT ![c] = token]
    /\ UNCHANGED <<api, uids, dbx>>

\* --- the reconcilers --------------------------------------------------------
WriteStatus(o) ==
    /\ api[o] # None
    /\ \E ready \in {"True", "False"}, columns \in SUBSET SchemasFor(o, api[o]) :
          /\ o \in Tables /\ ready = "True" => columns # {}
          /\ api' = [api EXCEPT ![o].status = StatusFor(o, api[o], ready, columns)]
    /\ UNCHANGED <<uids, world>>
-----------------------------------------------------------------------------
ContractInit ==
    /\ api = [o \in Objects |-> None]
    /\ uids = [o \in Objects |-> 0]
    /\ dbx \in [Hosts -> HostAnswers]
    /\ secrets \in [Connections -> TokenStates]

ContractNext ==
    \/ \E o \in Objects :
          \/ \E spec \in TenantSpecs[o] : CreateObject(o, spec) \/ UpdateObject(o, spec)
          \/ DeleteObject(o)
          \/ WriteStatus(o)
    \/ \E h \in Hosts, answer \in HostAnswers : HostAnswerChanges(h, answer)
    \/ \E c \in Connections, token \in TokenStates : TokenChanges(c, token)

\* The abstract specification: see the head of this module.
ContractSpec == ContractInit /\ [][ContractNext]_resources

ResourcesTypeOK ==
    /\ api \in [Objects -> AnyObject \cup {None}]
    /\ \A o \in Objects : api[o] \in Object(o) \cup {None}
    /\ uids \in [Objects -> Nat]
    /\ dbx \in [Hosts -> HostAnswers]
    /\ secrets \in [Connections -> TokenStates]

\* A status is sound for an object with this generation and spec.
SoundFor(o, status, obj) ==
    /\ status.observedGeneration <= obj.generation
    /\ \A ct \in CondTypes :
          status.conditions[ct].observedGeneration <= status.observedGeneration
    /\ status.observedGeneration = obj.generation =>
          /\ status.columns \subseteq SchemasFor(o, obj)
          /\ o \in Tables /\ status.conditions["Ready"].status = "True" =>
                status.columns # {}

StatusInv(o) == api[o] # None => SoundFor(o, api[o].status, api[o])

\* No status ever claims to have observed a generation the object has not
\* reached, not even when a reconcile of a deleted object finishes after
\* the name was created anew (Status().Update carries the version read).
ObservedNeverAhead ==
    \A o \in Objects : api[o] # None =>
        LET status == api[o].status IN
        /\ status.observedGeneration <= api[o].generation
        /\ \A ct \in CondTypes :
              status.conditions[ct].observedGeneration <= status.observedGeneration

\* The schema cached in a Table's status belongs to the Databricks table the
\* spec names, on a host of the Connection it names, whenever the status is
\* current (failAfter keeps columns across failures, and drops them exactly
\* when the spec has moved on), and a Table that is currently Ready has one.
SchemaMatchesSpec ==
    \A t \in Tables : api[t] # None =>
        /\ api[t].status.observedGeneration = api[t].generation =>
              api[t].status.columns \subseteq SchemasFor(t, api[t])
        /\ CurrentConditionTrue(api[t], "Ready") => api[t].status.columns # {}
=============================================================================
