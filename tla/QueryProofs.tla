----------------------------- MODULE QueryProofs -----------------------------
(***************************************************************************)
(* Proofs about query_table, for any objects, hosts, tables and bounds.    *)
(* They use of the reconcilers only what their contract promises.          *)
(***************************************************************************)
EXTENDS Query, TLAPS

USE DEF CondTypes

(***************************************************************************)
(* What a reader of the objects may rely on, proved from the contract.     *)
(***************************************************************************)
\* The empty status of a created object has the type of a status.
LEMMA EmptyStatusType == EmptyStatus \in Status
BY DEF EmptyStatus, Status, Condition

\* SetCondition (controller/shared) yields well-formed conditions.
LEMMA SetConditionType ==
    ASSUME NEW conditions \in [CondTypes -> Condition],
           NEW ct \in CondTypes,
           NEW st \in {"Unknown", "True", "False"}, NEW gen \in Nat
    PROVE  SetCondition(conditions, ct, st, gen) \in [CondTypes -> Condition]
BY DEF SetCondition, Condition

\* A verdict on a version of an object is sound for it.
LEMMA VerdictSound ==
    ASSUME NEW o \in Objects, NEW obj \in Object(o),
           SoundFor(o, obj.status, obj),
           NEW ready \in {"True", "False"},
           NEW columns \in SUBSET SchemasFor(o, obj),
           o \in Tables /\ ready = "True" => columns # {}
    PROVE  SoundFor(o, StatusFor(o, obj, ready, columns), obj)
<1> DEFINE status == StatusFor(o, obj, ready, columns)
<1>1. /\ obj.generation \in Nat
      /\ obj.status.observedGeneration \in Nat
      /\ obj.status.conditions \in [CondTypes -> Condition]
  BY DEF Object, Status
<1>2. \A ct \in CondTypes : obj.status.conditions[ct].observedGeneration \in Nat
  BY <1>1 DEF Condition
<1>3. /\ status.observedGeneration = obj.generation
      /\ status.conditions = NewConditions(o, obj, ready)
      /\ status.columns = columns
  BY DEF StatusFor
<1>4. \A ct \in CondTypes :
        NewConditions(o, obj, ready)[ct].observedGeneration <= obj.generation
  BY <1>1, <1>2 DEF NewConditions, SetCondition, SoundFor
<1>5. NewConditions(o, obj, ready)["Ready"].status = ready
  BY <1>1 DEF NewConditions, SetCondition
<1>6. columns \subseteq SchemasFor(o, obj)
  OBVIOUS
<1> HIDE DEF status
<1>7. SoundFor(o, status, obj)
  BY <1>1, <1>3, <1>4, <1>5, <1>6 DEF SoundFor
<1> QED BY <1>7 DEF status

\* A verdict is a well-formed status.
LEMMA VerdictType ==
    ASSUME NEW o \in Objects, NEW obj \in Object(o),
           NEW ready \in {"True", "False"},
           NEW columns \in SUBSET SchemasFor(o, obj)
    PROVE  StatusFor(o, obj, ready, columns) \in Status
<1>1. /\ obj.generation \in Nat
      /\ obj.status.conditions \in [CondTypes -> Condition]
  BY DEF Object, Status
<1>2. NewConditions(o, obj, ready) \in [CondTypes -> Condition]
  BY <1>1, SetConditionType DEF NewConditions
<1>3. columns \subseteq Schemas
  BY DEF SchemasFor
<1> QED BY <1>1, <1>2, <1>3 DEF StatusFor, Status
-----------------------------------------------------------------------------
\* Each step of the contract keeps the objects well-formed and their statuses
\* sound.
ContractInv == ResourcesTypeOK /\ \A o \in Objects : StatusInv(o)

LEMMA ContractStep == ContractInv /\ [ContractNext]_resources => ContractInv'
<1> SUFFICES ASSUME ContractInv, [ContractNext]_resources PROVE ContractInv'
  OBVIOUS
<1> USE DEF ContractInv
\* An object whose entry is replaced by a well-formed, sound one, or by none.
<1>0. ASSUME NEW o \in Objects, NEW new \in (Object(o) \cap AnyObject) \cup {None},
             new # None => SoundFor(o, new.status, new),
             api' = [api EXCEPT ![o] = new], uids' \in [Objects -> Nat],
             UNCHANGED world
      PROVE  ContractInv'
  <2>1. ResourcesTypeOK'
    BY <1>0 DEF ResourcesTypeOK, world
  <2>2. ASSUME NEW p \in Objects PROVE StatusInv(p)'
    BY <1>0, <2>2 DEF StatusInv, ResourcesTypeOK, SoundFor
  <2> QED BY <2>1, <2>2
<1>1. ASSUME NEW o \in Objects, NEW spec \in TenantSpecs[o], CreateObject(o, spec)
      PROVE  ContractInv'
  <2> DEFINE new == [uid |-> uids[o] + 1, generation |-> 1,
                     spec |-> spec, status |-> EmptyStatus]
  <2>1. spec \in SpecOf(o)
    BY TenantAssumption
  <2>2. spec \in ConnectionSpec \cup WarehouseSpec \cup TableSpec
    BY <2>1 DEF SpecOf
  <2>3. uids[o] + 1 \in Nat
    BY DEF ResourcesTypeOK
  <2>4. new \in Object(o) /\ new \in AnyObject
    BY <2>1, <2>2, <2>3, EmptyStatusType DEF Object, AnyObject
  <2>5. SoundFor(o, new.status, new)
    BY DEF SoundFor, EmptyStatus
  <2>6. api' = [api EXCEPT ![o] = new] /\ uids' \in [Objects -> Nat] /\ UNCHANGED world
    BY <1>1, <2>3 DEF CreateObject, ResourcesTypeOK
  <2> HIDE DEF new
  <2> QED BY <1>0, <2>4, <2>5, <2>6
<1>2. ASSUME NEW o \in Objects, NEW spec \in TenantSpecs[o], UpdateObject(o, spec)
      PROVE  ContractInv'
  <2> DEFINE new == [uid |-> api[o].uid, generation |-> api[o].generation + 1,
                     spec |-> spec, status |-> api[o].status]
  <2>1. spec \in SpecOf(o)
    BY TenantAssumption
  <2>2. spec \in ConnectionSpec \cup WarehouseSpec \cup TableSpec
    BY <2>1 DEF SpecOf
  <2>3. api[o] # None /\ api[o] \in Object(o) /\ SoundFor(o, api[o].status, api[o])
    BY <1>2 DEF UpdateObject, ResourcesTypeOK, StatusInv
  <2>4. /\ api[o].uid \in Nat /\ api[o].generation \in Nat
        /\ api[o].status \in Status /\ api[o].status.observedGeneration \in Nat
    BY <2>3 DEF Object, Status
  <2>5. new \in Object(o) /\ new \in AnyObject
    BY <2>1, <2>2, <2>4 DEF Object, AnyObject
  <2>6. SoundFor(o, new.status, new)
    BY <2>3, <2>4 DEF SoundFor
  <2>7. api' = [api EXCEPT ![o] = new] /\ uids' \in [Objects -> Nat] /\ UNCHANGED world
    BY <1>2 DEF UpdateObject, ResourcesTypeOK
  <2> HIDE DEF new
  <2> QED BY <1>0, <2>5, <2>6, <2>7
<1>3. ASSUME NEW o \in Objects, DeleteObject(o) PROVE ContractInv'
  BY <1>0, <1>3 DEF DeleteObject, ResourcesTypeOK
<1>4. ASSUME NEW o \in Objects, WriteStatus(o) PROVE ContractInv'
  <2>1. api[o] # None /\ api[o] \in Object(o) /\ SoundFor(o, api[o].status, api[o])
        /\ api[o] \in AnyObject
    BY <1>4 DEF WriteStatus, ResourcesTypeOK, StatusInv
  <2>2. PICK ready \in {"True", "False"}, columns \in SUBSET SchemasFor(o, api[o]) :
          /\ o \in Tables /\ ready = "True" => columns # {}
          /\ api' = [api EXCEPT ![o].status = StatusFor(o, api[o], ready, columns)]
    BY <1>4 DEF WriteStatus
  <2> DEFINE status == StatusFor(o, api[o], ready, columns)
             new == [api[o] EXCEPT !.status = status]
  <2>3. status \in Status /\ SoundFor(o, status, api[o])
    BY <2>1, <2>2, VerdictType, VerdictSound
  <2> HIDE DEF status
  <2>4. /\ new \in Object(o) /\ new \in AnyObject
        /\ new.status = status /\ new.generation = api[o].generation
        /\ new.spec = api[o].spec
    BY <2>1, <2>3 DEF Object, AnyObject
  <2>5. api' = [api EXCEPT ![o] = new]
    BY <2>2 DEF status, ResourcesTypeOK
  <2> HIDE DEF new
  <2>6. SoundFor(o, new.status, new)
    BY <2>3, <2>4 DEF SoundFor, SchemasFor
  <2>7. uids' \in [Objects -> Nat] /\ UNCHANGED world
    BY <1>4 DEF WriteStatus, ResourcesTypeOK
  <2> QED BY <1>0, <2>4, <2>5, <2>6, <2>7
<1>5. ASSUME NEW h \in Hosts, NEW answer \in HostAnswers, HostAnswerChanges(h, answer)
      PROVE  ContractInv'
  BY <1>5 DEF HostAnswerChanges, ResourcesTypeOK, StatusInv, SoundFor
<1>6. ASSUME NEW c \in Connections, NEW token \in TokenStates, TokenChanges(c, token)
      PROVE  ContractInv'
  BY <1>6 DEF TokenChanges, ResourcesTypeOK, StatusInv, SoundFor
<1>7. CASE UNCHANGED resources
  <2>1. api' = api /\ uids' = uids /\ dbx' = dbx /\ secrets' = secrets
    BY <1>7 DEF resources, world
  <2>2. ResourcesTypeOK'
    BY <2>1 DEF ResourcesTypeOK
  <2>3. ASSUME NEW o \in Objects PROVE StatusInv(o)'
    BY <2>1 DEF StatusInv
  <2> QED BY <2>2, <2>3
<1> QED BY <1>1, <1>2, <1>3, <1>4, <1>5, <1>6, <1>7 DEF ContractNext

\* The contract starts well-formed and sound.
LEMMA ContractStart == ContractInit => ContractInv
BY DEF ContractInit, ContractInv, ResourcesTypeOK, StatusInv
-----------------------------------------------------------------------------
\* What has been established at each stage of a request.
Request == [stage : Stages, ref : Tables \cup {None},
            projection : Projections, tbl : Snapshot, wh : Snapshot,
            conn : Snapshot, held : SUBSET Rights, cause : Causes,
            answer : {Respond(err) : err \in GoErrors} \cup Refusals \cup {Success, None}]

Unread == {"reviewGet", "reviewCreate", "authority", "readTable"}

Reviewed == {"authority", "readTable", "readWarehouse", "readConnection",
             "readSecret", "execute"}

\* The snapshot of the Table is a sound version of a Table; it is taken only
\* after both reviews, and the Warehouse's and the Connection's only after the
\* checks on what was read before.
RequestInv ==
    /\ q \in Request
    /\ rights \subseteq Rights
    /\ q.stage \in Calls => q.ref \in Tables
    /\ q.stage = "reviewCreate" => "get" \in q.held
    /\ q.stage \in Reviewed \/ q.tbl # None => q.held = Rights
    /\ q.stage \in Calls => rights \subseteq q.held
    /\ q.tbl # None => /\ q.ref \in Tables
                       /\ q.tbl \in Object(q.ref)
                       /\ SoundFor(q.ref, q.tbl.status, q.tbl)
    /\ q.stage \in {"readWarehouse", "readConnection", "readSecret", "execute"} =>
          q.tbl # None
    /\ q.stage \in {"readConnection", "readSecret", "execute"} => q.wh # None
    /\ q.wh # None =>
          /\ q.tbl # None
          /\ q.wh.spec.connectionRef = q.tbl.spec.connectionRef
          /\ CurrentConditionTrue(q.tbl, "Ready")
    /\ q.conn # None => /\ q.wh # None
                        /\ q.conn.spec \in TenantSpecs[q.tbl.spec.connectionRef]
    /\ q.stage \in Unread => q.tbl = None

QInv == ContractInv /\ RequestInv

\* The names in a Table's spec are names of objects.
LEMMA RefsResolve ==
    ASSUME ResourcesTypeOK, NEW t \in Tables, NEW tbl \in Object(t)
    PROVE  /\ api[tbl.spec.warehouseRef] \in AnyObject \cup {None}
           /\ api[tbl.spec.connectionRef] \in AnyObject \cup {None}
           /\ api[tbl.spec.connectionRef] # None =>
                api[tbl.spec.connectionRef].spec \in TenantSpecs[tbl.spec.connectionRef]
<1>1. tbl.spec \in TableSpec
  BY KindsDisjoint, TenantAssumption DEF Object, SpecOf, Objects
<1>2. tbl.spec.warehouseRef \in Objects /\ tbl.spec.connectionRef \in Objects
  BY <1>1 DEF TableSpec, Objects
<1> QED BY <1>2 DEF ResourcesTypeOK, Object

\* An answered request claims nothing.
LEMMA DoneKeeps ==
    ASSUME RequestInv, NEW cause \in Causes,
           NEW answer \in {Respond(err) : err \in GoErrors} \cup Refusals \cup {Success, None},
           Done(cause, answer), UNCHANGED rights
    PROVE  RequestInv'
<1> HIDE DEF Refusals, Success
<1>1. q' = [stage |-> "answered", ref |-> None, projection |-> q.projection,
            tbl |-> None, wh |-> None, conn |-> None,
            held |-> {}, cause |-> cause, answer |-> answer]
  BY DEF Done, Idle
<1>2. q' \in Request
  BY <1>1 DEF RequestInv, Request, Stages, Snapshot
<1> QED BY <1>1, <1>2 DEF RequestInv, Calls, Unread, Reviewed

\* The same when it failed.
LEMMA FailKeeps ==
    ASSUME RequestInv, NEW err \in GoErrors, NEW cause \in Causes,
           Fail(err, cause), UNCHANGED rights
    PROVE  RequestInv'
BY DoneKeeps DEF Fail

\* Every step of a request, and every change of rights, keeps the invariant.
LEMMA RequestStep ==
    ASSUME QInv, UNCHANGED resources,
           \/ \E t \in Tables, p \in Projections : Arrive(t, p)
           \/ \E answer \in Refusals : Refuse(answer)
           \/ Step
           \/ CallFails
           \/ Expire
           \/ \E granted \in SUBSET Rights : RightsChange(granted)
    PROVE  RequestInv'
<1> USE DEF QInv
<1>e. ASSUME NEW type \in ErrorTypes PROVE Err(type) \in GoErrors
  BY DEF Err, GoErrors
<1>f. ASSUME NEW type \in ErrorTypes, NEW cause \in Causes,
             Fail(Err(type), cause), UNCHANGED rights
      PROVE  RequestInv'
  BY <1>e, <1>f, FailKeeps
<1>q. q \in Request
  BY DEF RequestInv
<1>1. ASSUME NEW t \in Tables, NEW p \in Projections, Arrive(t, p)
      PROVE  RequestInv'
  <2>1. q' = [stage |-> "reviewGet", ref |-> t, projection |-> p,
              tbl |-> None, wh |-> None, conn |-> None,
              held |-> rights, cause |-> "none", answer |-> None]
    BY <1>1 DEF Arrive, Idle
  <2>2. UNCHANGED rights
    BY <1>1 DEF Arrive
  <2>3. q' \in Request
    BY <2>1 DEF Request, Stages, Causes, Snapshot, RequestInv
  <2> QED BY <2>1, <2>2, <2>3 DEF RequestInv, Calls, Unread, Reviewed
<1>2. ASSUME ReviewGet PROVE RequestInv'
  <2>1. CASE "get" \in rights
    <3>1. q' = [q EXCEPT !.stage = "reviewCreate"] /\ q.stage = "reviewGet"
          /\ UNCHANGED rights
      BY <1>2, <2>1 DEF ReviewGet, Review, Go
    <3>2. /\ q' \in Request
          /\ q'.stage = "reviewCreate" /\ q'.ref = q.ref /\ q'.tbl = q.tbl
          /\ q'.wh = q.wh /\ q'.conn = q.conn /\ q'.held = q.held
      BY <3>1, <1>q DEF Request, Stages
    <3> QED BY <3>1, <3>2, <2>1
            DEF RequestInv, Calls, Unread, Reviewed, Stages, SoundFor, CurrentConditionTrue
  <2>2. CASE "get" \notin rights
    BY <1>2, <2>2, <1>f DEF ReviewGet, Review, ErrorTypes, Causes
  <2> QED BY <2>1, <2>2
<1>3. ASSUME ReviewCreate PROVE RequestInv'
  <2>1. CASE "create" \in rights
    <3>1. q' = [q EXCEPT !.stage = "authority"] /\ q.stage = "reviewCreate"
          /\ UNCHANGED rights
      BY <1>3, <2>1 DEF ReviewCreate, Review, Go
    <3>2. /\ q' \in Request
          /\ q'.stage = "authority" /\ q'.ref = q.ref /\ q'.tbl = q.tbl
          /\ q'.wh = q.wh /\ q'.conn = q.conn /\ q'.held = q.held
      BY <3>1, <1>q DEF Request, Stages
    <3>3. q.held = Rights
      BY <3>1, <2>1, <1>q DEF RequestInv, Request, Rights, Calls, Stages
    <3> QED BY <3>1, <3>2, <3>3
            DEF RequestInv, Calls, Unread, Reviewed, Stages, SoundFor, CurrentConditionTrue
  <2>2. CASE "create" \notin rights
    BY <1>3, <2>2, <1>f DEF ReviewCreate, Review, ErrorTypes, Causes
  <2> QED BY <2>1, <2>2
<1>4. ASSUME Authority PROVE RequestInv'
  <2>1. q' = [q EXCEPT !.stage = "readTable"] /\ q.stage = "authority"
        /\ UNCHANGED rights
    BY <1>4 DEF Authority, Go
  <2>2. /\ q' \in Request
        /\ q'.stage = "readTable" /\ q'.ref = q.ref /\ q'.tbl = q.tbl
        /\ q'.wh = q.wh /\ q'.conn = q.conn /\ q'.held = q.held
    BY <2>1, <1>q DEF Request, Stages
  <2> QED BY <2>1, <2>2
          DEF RequestInv, Calls, Unread, Reviewed, Stages, SoundFor, CurrentConditionTrue
<1>5. ASSUME ReadTable PROVE RequestInv'
  <2>1. q.stage = "readTable" /\ UNCHANGED rights /\ q.ref \in Tables
    BY <1>5 DEF ReadTable, RequestInv, Calls, Stages
  <2>2. CASE api[q.ref] = None
    BY <1>5, <2>1, <2>2, <1>f DEF ReadTable, ErrorTypes, Causes
  <2>3. CASE api[q.ref] # None
    <3> DEFINE tbl == api[q.ref]
    <3>1. /\ tbl \in AnyObject /\ tbl \in Object(q.ref)
          /\ SoundFor(q.ref, tbl.status, tbl)
      BY <2>1, <2>3 DEF ContractInv, ResourcesTypeOK, StatusInv, Objects
    <3>2. q' = [q EXCEPT !.tbl = tbl, !.stage = "readWarehouse"]
      BY <1>5, <2>3 DEF ReadTable
    <3> HIDE DEF tbl
    <3>3. /\ q' \in Request
          /\ q'.stage = "readWarehouse" /\ q'.ref = q.ref /\ q'.tbl = tbl
          /\ q'.wh = q.wh /\ q'.conn = q.conn /\ q'.held = q.held
      BY <3>1, <3>2, <1>q DEF Request, Stages, Snapshot
    <3>4. q.wh = None /\ q.conn = None
      BY <2>1 DEF RequestInv, Unread
    <3>5. tbl # None /\ q.held = Rights
      BY <2>1, <2>3 DEF tbl, RequestInv, Unread, Reviewed
    <3> QED BY <3>1, <3>3, <3>4, <3>5, <2>1 DEF RequestInv, Calls, Unread, Reviewed, Stages
  <2> QED BY <2>2, <2>3
<1>6. ASSUME ReadWarehouse PROVE RequestInv'
  <2> DEFINE wh == api[q.tbl.spec.warehouseRef]
  <2>1. q.stage = "readWarehouse" /\ UNCHANGED rights
    BY <1>6 DEF ReadWarehouse
  <2>2. \/ Fail(Err("plain"), "missing")
        \/ Fail(Err("plain"), "mismatch")
        \/ Fail(Err("notReady"), "notReady")
        \/ /\ wh # None
           /\ q.tbl.spec.connectionRef = wh.spec.connectionRef
           /\ CurrentConditionTrue(q.tbl, "Ready")
           /\ q' = [q EXCEPT !.wh = wh, !.stage = "readConnection"]
    BY <1>6 DEF ReadWarehouse
  <2>3. ASSUME wh # None,
               q.tbl.spec.connectionRef = wh.spec.connectionRef,
               CurrentConditionTrue(q.tbl, "Ready"),
               q' = [q EXCEPT !.wh = wh, !.stage = "readConnection"]
        PROVE  RequestInv'
    <3>1. wh \in Snapshot
      BY <2>1, RefsResolve DEF RequestInv, Snapshot, ContractInv
    <3> HIDE DEF wh
    <3>2. /\ q' \in Request
          /\ q'.stage = "readConnection" /\ q'.ref = q.ref /\ q'.tbl = q.tbl
          /\ q'.wh = wh /\ q'.conn = q.conn /\ q'.held = q.held
      BY <2>3, <3>1, <1>q DEF Request, Stages
    <3> QED BY <2>1, <2>3, <3>2
            DEF RequestInv, Calls, Unread, Reviewed, Stages, SoundFor, CurrentConditionTrue
  <2> QED BY <2>1, <2>2, <2>3, <1>f DEF ErrorTypes, Causes
<1>7. ASSUME ReadConnection PROVE RequestInv'
  <2> DEFINE conn == api[q.tbl.spec.connectionRef]
  <2>1. q.stage = "readConnection" /\ UNCHANGED rights
    BY <1>7 DEF ReadConnection
  <2>2. \/ Fail(Err("plain"), "missing")
        \/ Fail(Err("notReady"), "notReady")
        \/ q' = [q EXCEPT !.conn = conn, !.stage = "readSecret"]
    BY <1>7 DEF ReadConnection
  <2>3. ASSUME q' = [q EXCEPT !.conn = conn, !.stage = "readSecret"]
        PROVE  RequestInv'
    <3>1. /\ conn \in Snapshot
          /\ conn # None => conn.spec \in TenantSpecs[q.tbl.spec.connectionRef]
      BY <2>1, RefsResolve DEF RequestInv, Snapshot, ContractInv
    <3> HIDE DEF conn
    <3>2. /\ q' \in Request
          /\ q'.stage = "readSecret" /\ q'.ref = q.ref /\ q'.tbl = q.tbl
          /\ q'.wh = q.wh /\ q'.conn = conn /\ q'.held = q.held
      BY <2>3, <3>1, <1>q DEF Request, Stages
    <3> QED BY <2>1, <3>1, <3>2
            DEF RequestInv, Calls, Unread, Reviewed, Stages, SoundFor, CurrentConditionTrue
  <2> QED BY <2>1, <2>2, <2>3, <1>f DEF ErrorTypes, Causes
<1>8. ASSUME ReadSecret PROVE RequestInv'
  <2>1. q.stage = "readSecret" /\ UNCHANGED rights
    BY <1>8 DEF ReadSecret
  <2>2. \/ Fail(Err("plain"), "noToken")
        \/ Fail(Err("notReady"), "notReady")
        \/ q' = [q EXCEPT !.stage = "execute"]
    BY <1>8 DEF ReadSecret, Go
  <2>3. ASSUME q' = [q EXCEPT !.stage = "execute"] PROVE RequestInv'
    <3>1. /\ q' \in Request
          /\ q'.stage = "execute" /\ q'.ref = q.ref /\ q'.tbl = q.tbl
          /\ q'.wh = q.wh /\ q'.conn = q.conn /\ q'.held = q.held
      BY <2>3, <1>q DEF Request, Stages
    <3> QED BY <2>1, <3>1
            DEF RequestInv, Calls, Unread, Reviewed, Stages, SoundFor, CurrentConditionTrue
  <2> QED BY <2>1, <2>2, <2>3, <1>f DEF ErrorTypes, Causes
<1>9. ASSUME Execute PROVE RequestInv'
  <2>1. q.stage = "execute" /\ UNCHANGED rights
    BY <1>9 DEF Execute
  <2>2. \/ \E err \in GoErrors, cause \in Causes : Fail(err, cause)
        \/ Done("none", Success)
    <3>1. StatementErrors \subseteq GoErrors
      <4>1. Err("plain") \in GoErrors /\ Err("metadata") \in GoErrors
        BY <1>e DEF ErrorTypes
      <4>2. [type |-> "metadata", retryable |-> TRUE, unsafe |-> FALSE] \in GoErrors
        BY DEF GoErrors, ErrorTypes
      <4> QED BY <4>1, <4>2 DEF StatementErrors
    <3>2. [type |-> "projection", retryable |-> FALSE,
           unsafe |-> q.projection = "unknownMarked"] \in GoErrors
      BY DEF GoErrors, ErrorTypes
    <3>3. "projection" \in Causes /\ "databricks" \in Causes
      BY DEF Causes
    <3> QED BY <1>9, <3>1, <3>2, <3>3 DEF Execute
  <2>3. ASSUME Done("none", Success) PROVE RequestInv'
    BY <2>1, <2>3, DoneKeeps DEF Causes
  <2> QED BY <2>1, <2>2, <2>3, FailKeeps
<1>10. ASSUME CallFails PROVE RequestInv'
  <2>1. CallErrors \subseteq ErrorTypes
    BY DEF CallErrors, ErrorTypes
  <2> QED BY <1>10, <2>1, <1>f DEF CallFails, Causes
<1>11. ASSUME Expire PROVE RequestInv'
  BY <1>11, <1>f DEF Expire, ErrorTypes, Causes
<1>12. ASSUME NEW granted \in SUBSET Rights, RightsChange(granted) PROVE RequestInv'
  <2> DEFINE held == IF q.stage \in Calls THEN q.held \cup granted ELSE q.held
  <2>1. q' = [q EXCEPT !.held = held] /\ rights' = granted
    BY <1>12, <1>q DEF RightsChange, Request
  <2>2. held \in SUBSET Rights /\ q.held \subseteq held
    BY <1>q DEF Request
  <2>3. q.stage \in Calls => granted \subseteq held
    OBVIOUS
  <2> HIDE DEF held
  <2>4. /\ q' \in Request
        /\ q'.stage = q.stage /\ q'.ref = q.ref /\ q'.tbl = q.tbl
        /\ q'.wh = q.wh /\ q'.conn = q.conn /\ q'.held = held
    BY <2>1, <2>2, <1>q DEF Request
  <2> QED BY <2>1, <2>2, <2>3, <2>4
          DEF RequestInv, Calls, Unread, Reviewed, Stages, SoundFor, CurrentConditionTrue
<1>13. ASSUME NEW answer \in Refusals, Refuse(answer) PROVE RequestInv'
  <2>1. q' = [stage |-> "answered", ref |-> None, projection |-> "none",
              tbl |-> None, wh |-> None, conn |-> None,
              held |-> {}, cause |-> "refused", answer |-> answer]
    BY <1>13 DEF Refuse, Idle
  <2>2. UNCHANGED rights
    BY <1>13 DEF Refuse
  <2> HIDE DEF Refusals
  <2>3. q' \in Request
    BY <2>1 DEF Request, Stages, Causes, Projections, Snapshot
  <2> QED BY <2>1, <2>2, <2>3 DEF RequestInv, Calls, Unread, Reviewed
<1> QED BY <1>1, <1>2, <1>3, <1>4, <1>5, <1>6, <1>7, <1>8, <1>9, <1>10, <1>11,
           <1>12, <1>13 DEF Step

\* The objects stay sound and each stage's facts hold throughout.
THEOREM RequestCorrect == QuerySpec => []QInv
<1>1. QueryInit => QInv
  <2>1. QueryInit => q \in Request
    BY DEF QueryInit, Idle, Request, Stages, Projections, Causes, Snapshot
  <2> QED BY <2>1, ContractStart
          DEF QueryInit, QInv, RequestInv, Idle, Calls, Unread, Reviewed
<1>2. QInv /\ [QueryNext]_allVars => QInv'
  <2> SUFFICES ASSUME QInv, [QueryNext]_allVars PROVE QInv'
    OBVIOUS
  <2>1. [ContractNext]_resources
    BY DEF QueryNext, allVars, Arrive, Refuse, Step, ReviewGet, ReviewCreate, Review,
           Authority, ReadTable, ReadWarehouse, ReadConnection, ReadSecret,
           Execute, CallFails, Expire, RightsChange
  <2>2. ContractInv'
    BY <2>1, ContractStep DEF QInv
  <2>3. CASE UNCHANGED qvars
    BY <2>2, <2>3 DEF qvars, QInv, RequestInv, SoundFor, CurrentConditionTrue
  <2>4. CASE ~UNCHANGED qvars
    <3>1. \/ \E t \in Tables, p \in Projections : Arrive(t, p)
          \/ \E answer \in Refusals : Refuse(answer)
          \/ Step
          \/ CallFails
          \/ Expire
          \/ \E granted \in SUBSET Rights : RightsChange(granted)
      BY <2>4 DEF QueryNext, allVars
    <3>2. UNCHANGED resources
      BY <3>1 DEF Arrive, Refuse, Step, ReviewGet, ReviewCreate, Review, Authority,
                  ReadTable, ReadWarehouse, ReadConnection, ReadSecret, Execute,
                  CallFails, Expire, RightsChange
    <3> QED BY <2>2, <3>1, <3>2, RequestStep DEF QInv
  <2> QED BY <2>3, <2>4
<1>3. QED BY <1>1, <1>2, PTL DEF QuerySpec

\* Nothing is read with the provider's credential for a caller who did not
\* hold both rights during the request.
THEOREM AuthorizationCorrect == QuerySpec => []ReadsAreAuthorized
<1>1. QInv => ReadsAreAuthorized
  BY DEF QInv, RequestInv, ReadsAreAuthorized
<1>2. QED BY <1>1, RequestCorrect, PTL

\* The projection is checked against columns of the table that the statement
\* names, on the Connection that both Table and Warehouse name, and of the
\* host that the statement goes to if that Connection never changes hosts.
THEOREM TargetCorrect == QuerySpec => []TargetIsVouched
<1>1. QInv => TargetIsVouched
  <2> SUFFICES ASSUME QInv, q.conn # None
               PROVE  /\ q.wh.spec.connectionRef = q.tbl.spec.connectionRef
                      /\ q.tbl.status.columns # {}
                      /\ \A s \in q.tbl.status.columns :
                            /\ s.table = q.tbl.spec.table
                            /\ HostIsFixed(q.tbl.spec.connectionRef) =>
                                  s.host = q.conn.spec.host
    BY DEF TargetIsVouched
  <2> DEFINE c == q.tbl.spec.connectionRef
  <2>1. /\ q.wh.spec.connectionRef = c
        /\ q.tbl.status.observedGeneration = q.tbl.generation
        /\ q.tbl.status.conditions["Ready"].status = "True"
        /\ q.ref \in Tables
        /\ SoundFor(q.ref, q.tbl.status, q.tbl)
        /\ q.conn.spec \in TenantSpecs[c]
    BY DEF QInv, RequestInv, CurrentConditionTrue
  <2>2. /\ q.tbl.status.columns # {}
        /\ q.tbl.status.columns \subseteq SchemasFor(q.ref, q.tbl)
    BY <2>1 DEF SoundFor
  <2>3. ASSUME NEW s \in q.tbl.status.columns
        PROVE  s.table = q.tbl.spec.table /\ s.host \in HostsOf(c)
    BY <2>1, <2>2 DEF SchemasFor
  <2>4. ASSUME NEW s \in q.tbl.status.columns, HostIsFixed(c)
        PROVE  s.host = q.conn.spec.host
    <3>1. PICK spec \in TenantSpecs[c] : s.host = spec.host
      BY <2>3 DEF HostsOf
    <3> QED BY <2>1, <2>4, <3>1 DEF HostIsFixed
  <2> QED BY <2>1, <2>2, <2>3, <2>4
<1>2. QED BY <1>1, RequestCorrect, PTL
-----------------------------------------------------------------------------
(***************************************************************************)
(* Answers.                                                                *)
(***************************************************************************)
\* What AnswerMatchesCause says of an answer.
Fits(cause, a, projection) ==
    LET Is(code, status, retryable) ==
            a = [code |-> code, status |-> status, retryable |-> retryable]
    IN  /\ cause = "none" => a = Success
        /\ cause = "refused" /\ a.code # "method_not_allowed" =>
              actionErrorStatusAllowed(a.code, a.status)
        /\ cause = "denied" => Is("resource_forbidden", 403, FALSE)
        /\ cause = "notReady" => Is("resource_not_ready", 409, FALSE)
        /\ cause = "deadline" => Is("action_timeout", 504, TRUE)
        /\ cause = "databricks" =>
              \/ Is("backend_failure", 503, TRUE)
              \/ Is("backend_failure", 502, FALSE)
              \/ Is("action_failed", 502, FALSE)
        /\ cause = "projection" /\ projection = "unknown" =>
              Is("schema_projection_invalid", 400, FALSE)

\* An error with a safe text keeps its code and its status through the three
\* tables.
LEMMA RespondsWith ==
    ASSUME NEW err, err.type # "deadline", NEW failure, sanitizeActionError(err) = failure,
           failure = ActionError(failure.code, "safe", failure.status, failure.retryable),
           actionErrorStatusAllowed(failure.code, failure.status)
    PROVE  Respond(err) = [code |-> failure.code, status |-> failure.status,
                           retryable |-> failure.retryable]
<1>1. failure.message = "safe" /\ [failure EXCEPT !.status = failure.status] = failure
  BY DEF ActionError
<1>2. Respond(err) = writeFailure(normalizeActionError(failure))
  BY DEF Respond
<1>3. normalizeActionError(failure) = failure
  BY <1>1 DEF normalizeActionError
<1>4. writeFailure(failure) = [code |-> failure.code, status |-> failure.status,
                               retryable |-> failure.retryable]
  BY <1>1 DEF writeFailure
<1> QED BY <1>2, <1>3, <1>4

\* One with the default text becomes action_failed.
LEMMA PlainAnswer ==
    Respond(Err("plain")) = [code |-> "action_failed", status |-> 502, retryable |-> FALSE]
<1> DEFINE failure == ActionError("backend_failure", "default", 502, FALSE)
<1>0. /\ actionErrorStatusAllowed("backend_failure", 502)
      /\ actionErrorStatusAllowed("action_failed", 502)
  BY DEF actionErrorStatusAllowed
<1>1. /\ failure.code = "backend_failure" /\ failure.message = "default" /\ failure.status = 502
      /\ failure.retryable = FALSE
      /\ [failure EXCEPT !.status = 502] = failure
  BY DEF ActionError
<1>2. sanitizeActionError(Err("plain")) = failure
  BY DEF sanitizeActionError, Err
<1>3. Err("plain").type # "deadline"
  BY DEF Err
<1>4. Respond(Err("plain")) = writeFailure(normalizeActionError(failure))
  BY <1>2, <1>3 DEF Respond
<1> HIDE DEF failure
<1>5. normalizeActionError(failure) = failure
  BY <1>0, <1>1 DEF normalizeActionError
<1>6. writeFailure(failure) = [code |-> "action_failed", status |-> 502, retryable |-> FALSE]
  BY <1>0, <1>1 DEF writeFailure
<1> QED BY <1>4, <1>5, <1>6

\* The answers to the errors that a property speaks of.
LEMMA Answers ==
    /\ Respond(Err("apiForbidden"))
         = [code |-> "resource_forbidden", status |-> 403, retryable |-> FALSE]
    /\ Respond(Err("notReady"))
         = [code |-> "resource_not_ready", status |-> 409, retryable |-> FALSE]
    /\ Respond(Err("deadline"))
         = [code |-> "action_timeout", status |-> 504, retryable |-> TRUE]
    /\ Respond(Err("plain"))
         = [code |-> "action_failed", status |-> 502, retryable |-> FALSE]
    /\ Respond(Err("metadata"))
         = [code |-> "backend_failure", status |-> 502, retryable |-> FALSE]
    /\ Respond([type |-> "metadata", retryable |-> TRUE, unsafe |-> FALSE])
         = [code |-> "backend_failure", status |-> 503, retryable |-> TRUE]
    /\ Respond([type |-> "projection", retryable |-> FALSE, unsafe |-> FALSE])
         = [code |-> "schema_projection_invalid", status |-> 400, retryable |-> FALSE]
<1>1. Respond(Err("deadline")) = [code |-> "action_timeout", status |-> 504, retryable |-> TRUE]
  BY DEF Respond, Err
<1>2. sanitizeActionError(Err("apiForbidden"))
        = ActionError("resource_forbidden", "safe", 403, FALSE)
  BY DEF sanitizeActionError, Err
<1>3. sanitizeActionError(Err("notReady"))
        = ActionError("resource_not_ready", "safe", 409, FALSE)
  BY DEF sanitizeActionError, Err
<1>5. sanitizeActionError(Err("metadata")) = ActionError("backend_failure", "safe", 502, FALSE)
  BY DEF sanitizeActionError, Err, gatewayFailureStatus
<1>6. sanitizeActionError([type |-> "metadata", retryable |-> TRUE, unsafe |-> FALSE])
        = ActionError("backend_failure", "safe", 503, TRUE)
  BY DEF sanitizeActionError, gatewayFailureStatus
<1>7. sanitizeActionError([type |-> "projection", retryable |-> FALSE, unsafe |-> FALSE])
        = ActionError("schema_projection_invalid", "safe", 400, FALSE)
  BY DEF sanitizeActionError
<1>8. Respond(Err("apiForbidden"))
        = [code |-> "resource_forbidden", status |-> 403, retryable |-> FALSE]
  <2> DEFINE err == Err("apiForbidden")
             failure == ActionError("resource_forbidden", "safe", 403, FALSE)
  <2>1. err.type # "deadline"
    BY DEF Err
  <2>2. sanitizeActionError(err) = failure
    BY <1>2
  <2>3. /\ failure.code = "resource_forbidden" /\ failure.status = 403 /\ failure.retryable = FALSE
        /\ failure = ActionError(failure.code, "safe", failure.status, failure.retryable)
    BY DEF ActionError
  <2>4. actionErrorStatusAllowed("resource_forbidden", 403)
    BY DEF actionErrorStatusAllowed
  <2> HIDE DEF err, failure
  <2>5. Respond(err) = [code |-> failure.code, status |-> failure.status,
                        retryable |-> failure.retryable]
    BY <2>1, <2>2, <2>3, <2>4, RespondsWith
  <2> QED BY <2>3, <2>5 DEF err
<1>9. Respond(Err("notReady"))
        = [code |-> "resource_not_ready", status |-> 409, retryable |-> FALSE]
  <2> DEFINE err == Err("notReady")
             failure == ActionError("resource_not_ready", "safe", 409, FALSE)
  <2>1. err.type # "deadline"
    BY DEF Err
  <2>2. sanitizeActionError(err) = failure
    BY <1>3
  <2>3. /\ failure.code = "resource_not_ready" /\ failure.status = 409 /\ failure.retryable = FALSE
        /\ failure = ActionError(failure.code, "safe", failure.status, failure.retryable)
    BY DEF ActionError
  <2>4. actionErrorStatusAllowed("resource_not_ready", 409)
    BY DEF actionErrorStatusAllowed
  <2> HIDE DEF err, failure
  <2>5. Respond(err) = [code |-> failure.code, status |-> failure.status,
                        retryable |-> failure.retryable]
    BY <2>1, <2>2, <2>3, <2>4, RespondsWith
  <2> QED BY <2>3, <2>5 DEF err
<1>10. Respond(Err("metadata"))
        = [code |-> "backend_failure", status |-> 502, retryable |-> FALSE]
  <2> DEFINE err == Err("metadata")
             failure == ActionError("backend_failure", "safe", 502, FALSE)
  <2>1. err.type # "deadline"
    BY DEF Err
  <2>2. sanitizeActionError(err) = failure
    BY <1>5
  <2>3. /\ failure.code = "backend_failure" /\ failure.status = 502 /\ failure.retryable = FALSE
        /\ failure = ActionError(failure.code, "safe", failure.status, failure.retryable)
    BY DEF ActionError
  <2>4. actionErrorStatusAllowed("backend_failure", 502)
    BY DEF actionErrorStatusAllowed
  <2> HIDE DEF err, failure
  <2>5. Respond(err) = [code |-> failure.code, status |-> failure.status,
                        retryable |-> failure.retryable]
    BY <2>1, <2>2, <2>3, <2>4, RespondsWith
  <2> QED BY <2>3, <2>5 DEF err
<1>11. Respond([type |-> "metadata", retryable |-> TRUE, unsafe |-> FALSE])
        = [code |-> "backend_failure", status |-> 503, retryable |-> TRUE]
  <2> DEFINE err == [type |-> "metadata", retryable |-> TRUE, unsafe |-> FALSE]
             failure == ActionError("backend_failure", "safe", 503, TRUE)
  <2>1. err.type # "deadline"
    OBVIOUS
  <2>2. sanitizeActionError(err) = failure
    BY <1>6
  <2>3. /\ failure.code = "backend_failure" /\ failure.status = 503 /\ failure.retryable = TRUE
        /\ failure = ActionError(failure.code, "safe", failure.status, failure.retryable)
    BY DEF ActionError
  <2>4. actionErrorStatusAllowed("backend_failure", 503)
    BY DEF actionErrorStatusAllowed
  <2> HIDE DEF err, failure
  <2>5. Respond(err) = [code |-> failure.code, status |-> failure.status,
                        retryable |-> failure.retryable]
    BY <2>1, <2>2, <2>3, <2>4, RespondsWith
  <2> QED BY <2>3, <2>5 DEF err
<1>12. Respond([type |-> "projection", retryable |-> FALSE, unsafe |-> FALSE])
        = [code |-> "schema_projection_invalid", status |-> 400, retryable |-> FALSE]
  <2> DEFINE err == [type |-> "projection", retryable |-> FALSE, unsafe |-> FALSE]
             failure == ActionError("schema_projection_invalid", "safe", 400, FALSE)
  <2>1. err.type # "deadline"
    OBVIOUS
  <2>2. sanitizeActionError(err) = failure
    BY <1>7
  <2>3. /\ failure.code = "schema_projection_invalid" /\ failure.status = 400 /\ failure.retryable = FALSE
        /\ failure = ActionError(failure.code, "safe", failure.status, failure.retryable)
    BY DEF ActionError
  <2>4. actionErrorStatusAllowed("schema_projection_invalid", 400)
    BY DEF actionErrorStatusAllowed
  <2> HIDE DEF err, failure
  <2>5. Respond(err) = [code |-> failure.code, status |-> failure.status,
                        retryable |-> failure.retryable]
    BY <2>1, <2>2, <2>3, <2>4, RespondsWith
  <2> QED BY <2>3, <2>5 DEF err
<1> QED BY <1>1, <1>8, <1>9, <1>10, <1>11, <1>12, PlainAnswer

LEMMA DoneMatches ==
    ASSUME NEW cause, NEW answer, Done(cause, answer), Fits(cause, answer, q.projection)
    PROVE  AnswerMatchesCause'
<1>1. q'.cause = cause /\ q'.answer = answer /\ q'.projection = q.projection
  BY DEF Done, Idle
<1> HIDE DEF Success
<1> QED BY <1>1 DEF AnswerMatchesCause, Fits

\* Every step of a request ends in the answer its cause calls for.
LEMMA AnswerStep ==
    ASSUME q \in Request, AnswerMatchesCause, [QueryNext]_allVars
    PROVE  AnswerMatchesCause'
<1> HIDE DEF Success
\* The causes of which nothing is claimed.
<1>0. ASSUME NEW cause \in {"missing", "mismatch", "noToken", "unreadable"}, NEW err,
             Fail(err, cause)
      PROVE  AnswerMatchesCause'
  BY <1>0, DoneMatches DEF Fail, Fits
<1>1. ASSUME NEW t \in Tables, NEW p \in Projections, Arrive(t, p) PROVE AnswerMatchesCause'
  <2>1. q'.stage = "reviewGet"
    BY <1>1 DEF Arrive, Idle
  <2> QED BY <2>1 DEF AnswerMatchesCause
<1>2. ASSUME NEW answer \in Refusals, Refuse(answer) PROVE AnswerMatchesCause'
  <2>1. q'.cause = "refused" /\ q'.answer = answer
    BY <1>2 DEF Refuse, Idle
  <2>2. answer.code # "method_not_allowed" => actionErrorStatusAllowed(answer.code, answer.status)
    <3>1. answer \in {Refusal("method_not_allowed", 405, FALSE),
                     Refusal("unauthenticated", 401, FALSE),
                     Refusal("action_not_found", 404, FALSE),
                     Refusal("invalid_request", 400, FALSE),
                     Refusal("action_unavailable", 503, TRUE),
                     Refusal("invalid_deadline", 400, FALSE),
                     Refusal("action_failed", 502, FALSE)}
      BY PlainAnswer DEF Refusals, Refusal
    <3>2. \/ answer.code = "method_not_allowed"
          \/ answer.code = "unauthenticated" /\ answer.status = 401
          \/ answer.code = "action_not_found" /\ answer.status = 404
          \/ answer.code = "invalid_request" /\ answer.status = 400
          \/ answer.code = "action_unavailable" /\ answer.status = 503
          \/ answer.code = "invalid_deadline" /\ answer.status = 400
          \/ answer.code = "action_failed" /\ answer.status = 502
      BY <3>1 DEF Refusal
    <3>3. /\ actionErrorStatusAllowed("unauthenticated", 401)
          /\ actionErrorStatusAllowed("action_not_found", 404)
          /\ actionErrorStatusAllowed("invalid_request", 400)
          /\ actionErrorStatusAllowed("action_unavailable", 503)
          /\ actionErrorStatusAllowed("invalid_deadline", 400)
          /\ actionErrorStatusAllowed("action_failed", 502)
      BY DEF actionErrorStatusAllowed
    <3> QED BY <3>2, <3>3
  <2> QED BY <2>1, <2>2 DEF AnswerMatchesCause
\* A request that goes on is not answered.
<1>3. ASSUME NEW stage, stage # "answered", q'.stage = stage PROVE AnswerMatchesCause'
  BY <1>3 DEF AnswerMatchesCause
<1>4. ASSUME NEW stage, stage # "answered", Go(stage) PROVE AnswerMatchesCause'
  <2>1. q'.stage = stage
    BY <1>4 DEF Go, Request
  <2> QED BY <1>3, <1>4, <2>1
<1>5. ASSUME Fail(Err("notReady"), "notReady") PROVE AnswerMatchesCause'
  BY <1>5, Answers, DoneMatches DEF Fail, Fits
<1>6. ASSUME ReviewGet \/ ReviewCreate PROVE AnswerMatchesCause'
  <2>1. ASSUME Fail(Err("apiForbidden"), "denied") PROVE AnswerMatchesCause'
    BY <2>1, Answers, DoneMatches DEF Fail, Fits
  <2> QED BY <1>4, <1>6, <2>1 DEF ReviewGet, ReviewCreate, Review
<1>7. ASSUME Authority PROVE AnswerMatchesCause'
  BY <1>4, <1>7 DEF Authority
<1>8. ASSUME ReadTable PROVE AnswerMatchesCause'
  <2>1. CASE q' = [q EXCEPT !.tbl = api[q.ref], !.stage = "readWarehouse"]
    <3>1. q'.stage = "readWarehouse"
      BY <2>1 DEF Request
    <3> QED BY <1>3, <3>1
  <2> QED BY <1>0, <1>8, <2>1 DEF ReadTable
<1>9. ASSUME ReadWarehouse PROVE AnswerMatchesCause'
  <2> DEFINE wh == api[q.tbl.spec.warehouseRef]
  <2>1. CASE q' = [q EXCEPT !.wh = wh, !.stage = "readConnection"]
    <3>1. q'.stage = "readConnection"
      BY <2>1 DEF Request
    <3> QED BY <1>3, <3>1
  <2>2. \/ Fail(Err("plain"), "missing") \/ Fail(Err("plain"), "mismatch")
        \/ Fail(Err("notReady"), "notReady")
        \/ q' = [q EXCEPT !.wh = wh, !.stage = "readConnection"]
    BY <1>9 DEF ReadWarehouse
  <2> QED BY <1>0, <1>5, <2>1, <2>2
<1>10. ASSUME ReadConnection PROVE AnswerMatchesCause'
  <2> DEFINE conn == api[q.tbl.spec.connectionRef]
  <2>1. CASE q' = [q EXCEPT !.conn = conn, !.stage = "readSecret"]
    <3>1. q'.stage = "readSecret"
      BY <2>1 DEF Request
    <3> QED BY <1>3, <3>1
  <2>2. \/ Fail(Err("plain"), "missing") \/ Fail(Err("notReady"), "notReady")
        \/ q' = [q EXCEPT !.conn = conn, !.stage = "readSecret"]
    BY <1>10 DEF ReadConnection
  <2> QED BY <1>0, <1>5, <2>1, <2>2
<1>11. ASSUME ReadSecret PROVE AnswerMatchesCause'
  <2>1. \/ Fail(Err("plain"), "noToken") \/ Fail(Err("notReady"), "notReady") \/ Go("execute")
    BY <1>11 DEF ReadSecret
  <2> QED BY <1>0, <1>4, <1>5, <2>1
<1>12. ASSUME Execute PROVE AnswerMatchesCause'
  <2> DEFINE err == [type |-> "projection", retryable |-> FALSE,
                     unsafe |-> q.projection = "unknownMarked"]
  <2>1. \/ Fail(err, "projection")
        \/ \E e \in StatementErrors : Fail(e, "databricks")
        \/ Done("none", Success)
    BY <1>12 DEF Execute
  <2>2. CASE Done("none", Success)
    BY <2>2, DoneMatches DEF Fits
  <2>3. ASSUME NEW e \in StatementErrors, Fail(e, "databricks") PROVE AnswerMatchesCause'
    <3>1. e \in {Err("plain"), Err("metadata"),
                 [type |-> "metadata", retryable |-> TRUE, unsafe |-> FALSE]}
      BY <2>3 DEF StatementErrors
    <3>2. \/ Respond(e) = [code |-> "action_failed", status |-> 502, retryable |-> FALSE]
          \/ Respond(e) = [code |-> "backend_failure", status |-> 502, retryable |-> FALSE]
          \/ Respond(e) = [code |-> "backend_failure", status |-> 503, retryable |-> TRUE]
      <4> DEFINE again == [type |-> "metadata", retryable |-> TRUE, unsafe |-> FALSE]
      <4>1. /\ Respond(Err("plain"))
                 = [code |-> "action_failed", status |-> 502, retryable |-> FALSE]
            /\ Respond(Err("metadata"))
                 = [code |-> "backend_failure", status |-> 502, retryable |-> FALSE]
            /\ Respond(again)
                 = [code |-> "backend_failure", status |-> 503, retryable |-> TRUE]
        BY Answers
      <4>2. e = Err("plain") \/ e = Err("metadata") \/ e = again
        BY <3>1
      <4> HIDE DEF again
      <4> QED BY <4>1, <4>2
    <3>3. Fits("databricks", Respond(e), q.projection)
      BY <3>2 DEF Fits
    <3> QED BY <2>3, <3>3, DoneMatches DEF Fail
  <2>4. CASE Fail(err, "projection")
    <3>1. q.projection = "unknown" =>
            err = [type |-> "projection", retryable |-> FALSE, unsafe |-> FALSE]
      OBVIOUS
    <3> HIDE DEF err
    <3>2. q.projection = "unknown" =>
            Respond(err) = [code |-> "schema_projection_invalid", status |-> 400, retryable |-> FALSE]
      <4> DEFINE unknown == [type |-> "projection", retryable |-> FALSE, unsafe |-> FALSE]
      <4>1. Respond(unknown)
              = [code |-> "schema_projection_invalid", status |-> 400, retryable |-> FALSE]
        BY Answers
      <4>2. q.projection = "unknown" => err = unknown
        BY <3>1
      <4> HIDE DEF unknown
      <4> QED BY <4>1, <4>2
    <3>3. Fits("projection", Respond(err), q.projection)
      BY <3>2 DEF Fits
    <3> QED BY <2>4, <3>3, DoneMatches DEF Fail
  <2> QED BY <2>1, <2>2, <2>3, <2>4
<1>13. ASSUME CallFails PROVE AnswerMatchesCause'
  BY <1>0, <1>13 DEF CallFails
<1>14. ASSUME Expire PROVE AnswerMatchesCause'
  BY <1>14, Answers, DoneMatches DEF Expire, Fail, Fits
<1>15. ASSUME NEW granted, RightsChange(granted) PROVE AnswerMatchesCause'
  <2> DEFINE held == IF q.stage \in Calls THEN q.held \cup granted ELSE q.held
  <2>1. q' = [q EXCEPT !.held = held]
    BY <1>15 DEF RightsChange, Request
  <2> HIDE DEF held
  <2>2. /\ q'.stage = q.stage /\ q'.cause = q.cause /\ q'.answer = q.answer
        /\ q'.projection = q.projection
    BY <2>1 DEF Request
  <2> QED BY <2>2 DEF AnswerMatchesCause
<1>16. CASE UNCHANGED q
  BY <1>16 DEF AnswerMatchesCause
<1> QED BY <1>1, <1>2, <1>6, <1>7, <1>8, <1>9, <1>10, <1>11, <1>12, <1>13, <1>14, <1>15, <1>16
        DEF QueryNext, Step, qvars, allVars

\* NewHandler, sanitizeActionError, normalizeActionError and writeFailure agree
\* on what a caller is told, whatever ended the request.
THEOREM AnswerCorrect == QuerySpec => []AnswerMatchesCause
<1>1. QueryInit => AnswerMatchesCause
  BY DEF QueryInit, Idle, AnswerMatchesCause
<1>2. QInv => q \in Request
  BY DEF QInv, RequestInv
<1>3. (q \in Request) /\ AnswerMatchesCause /\ [QueryNext]_allVars => AnswerMatchesCause'
  BY AnswerStep
<1> QED BY <1>1, <1>2, <1>3, RequestCorrect, PTL DEF QuerySpec
=============================================================================
