--------------------------- MODULE ReconcileProofs ---------------------------
(***************************************************************************)
(* Proofs about the reconcilers, for any sets of objects, hosts and tables *)
(* and any bounds.  TypeOK is proved first; IInv, relative to it, carries  *)
(* the safety properties.                                                  *)
(***************************************************************************)
EXTENDS Reconcile, TLAPS

USE DEF CondTypes

\* The empty status of a created object has the type of a status.
LEMMA EmptyStatusType == EmptyStatus \in Status
BY DEF EmptyStatus, Status, Condition

\* SetCondition (controller/shared) yields well-formed conditions.
LEMMA SetConditionType ==
    ASSUME NEW conditions \in [CondTypes -> Condition],
           NEW ct \in CondTypes,
           NEW st \in {"Unknown", "True", "False"}, NEW gen \in Nat
    PROVE  SetCondition(conditions, ct, st, gen) \in [CondTypes -> Condition]
BY DEF SetCondition, Condition

\* A verdict on a version of an object is sound for it.
LEMMA VerdictSound ==
    ASSUME NEW o \in Objects, NEW obj \in Object(o),
           SoundFor(o, obj.status, obj),
           NEW ready \in {"True", "False"},
           NEW columns \in SUBSET SchemasFor(o, obj),
           o \in Tables /\ ready = "True" => columns # {}
    PROVE  SoundFor(o, StatusFor(o, obj, ready, columns), obj)
<1> DEFINE status == StatusFor(o, obj, ready, columns)
<1>1. /\ obj.generation \in Nat
      /\ obj.status.observedGeneration \in Nat
      /\ obj.status.conditions \in [CondTypes -> Condition]
  BY DEF Object, Status
<1>2. \A ct \in CondTypes : obj.status.conditions[ct].observedGeneration \in Nat
  BY <1>1 DEF Condition
<1>3. /\ status.observedGeneration = obj.generation
      /\ status.conditions = NewConditions(o, obj, ready)
      /\ status.columns = columns
  BY DEF StatusFor
<1>4. \A ct \in CondTypes :
        NewConditions(o, obj, ready)[ct].observedGeneration <= obj.generation
  BY <1>1, <1>2 DEF NewConditions, SetCondition, SoundFor
<1>5. NewConditions(o, obj, ready)["Ready"].status = ready
  BY <1>1 DEF NewConditions, SetCondition
<1>6. columns \subseteq SchemasFor(o, obj)
  OBVIOUS
<1> HIDE DEF status
<1>7. SoundFor(o, status, obj)
  BY <1>1, <1>3, <1>4, <1>5, <1>6 DEF SoundFor
<1> QED BY <1>7 DEF status

\* A successful validation fetches the schema of the table the Table names
\* from a host its Connection has been pointed at.
LEMMA FetchedOfSpec ==
    ASSUME TypeOK, NEW o \in Objects, cache[o] # None, Verdict(o) = "Ready"
    PROVE  FetchedColumns(o, cache[o]) \subseteq SchemasFor(o, cache[o])
<1> DEFINE obj == cache[o]
           c == obj.spec.connectionRef
<1>1. CASE o \in Tables
  <2>1. obj.spec \in SpecOf(o)
    BY TenantAssumption DEF TypeOK, Object
  <2>2. obj.spec \in TableSpec
    BY <2>1, <1>1, KindsDisjoint DEF SpecOf
  <2>3. c \in Connections /\ obj.spec.table \in TableNames
    BY <2>2 DEF TableSpec
  <2>4. cache[c] # None
    BY <1>1, KindsDisjoint DEF Verdict, TableVerdict
  <2>5. cache[c].spec \in TenantSpecs[c]
    BY <2>3, <2>4 DEF TypeOK, Objects, Object
  <2>6. cache[c].spec \in ConnectionSpec
    BY <2>3, <2>5, KindsDisjoint, TenantAssumption DEF SpecOf, Objects
  <2> DEFINE fetched == [host |-> cache[c].spec.host, table |-> obj.spec.table]
  <2>7. FetchedColumns(o, obj) = {fetched}
    BY <1>1 DEF FetchedColumns
  <2>8. /\ fetched \in Schemas
        /\ fetched.table = obj.spec.table
        /\ fetched.host \in HostsOf(c)
    BY <2>3, <2>5, <2>6 DEF Schemas, ConnectionSpec, HostsOf
  <2> HIDE DEF fetched
  <2> QED BY <1>1, <2>7, <2>8 DEF SchemasFor
<1>2. CASE o \notin Tables
  BY <1>2 DEF FetchedColumns
<1> QED BY <1>1, <1>2

\* What a reconcile of a cached object is about to write: a well-formed
\* status that observes the cached generation.
LEMMA NewStatusType ==
    ASSUME TypeOK, NEW o \in Objects, cache[o] # None
    PROVE  /\ NewStatus(o) \in Status
           /\ NewStatus(o).observedGeneration = cache[o].generation
<1> DEFINE obj == cache[o]
<1>1. obj \in Object(o)
  BY DEF TypeOK
<1>2. /\ obj.generation \in Nat
      /\ obj.spec \in SpecOf(o)
      /\ obj.status \in Status
  BY <1>1, TenantAssumption DEF Object
<1>3. /\ obj.status.observedGeneration \in Nat
      /\ obj.status.conditions \in [CondTypes -> Condition]
      /\ obj.status.columns \subseteq Schemas
  BY <1>2 DEF Status
<1>4. ASSUME NEW st \in {"True", "False"}
      PROVE  NewConditions(o, obj, st) \in [CondTypes -> Condition]
  BY <1>2, <1>3, SetConditionType DEF NewConditions
<1>5. FailedStatus(o, obj) \in Status
  BY <1>2, <1>3, <1>4 DEF FailedStatus, StatusFor, FailedColumns, Status
<1>6. Verdict(o) = "Ready" => FetchedColumns(o, obj) \subseteq Schemas
  BY FetchedOfSpec DEF SchemasFor
<1>7. Verdict(o) = "Ready" => ReadyStatus(o, obj) \in Status
  BY <1>2, <1>4, <1>6 DEF ReadyStatus, StatusFor, Status
<1> QED BY <1>5, <1>7 DEF NewStatus, FailedStatus, ReadyStatus, StatusFor
-----------------------------------------------------------------------------
\* Type correctness: no handler of controller/ or of the machinery under it
\* leaves the state space.
THEOREM TypeCorrect == Spec => []TypeOK
<1>1. Init => TypeOK
  BY DEF Init, ContractInit, TypeOK, ResourcesTypeOK
<1>2. TypeOK /\ [Next]_vars => TypeOK'
  <2> SUFFICES ASSUME TypeOK, [Next]_vars PROVE TypeOK'
    OBVIOUS
  <2> USE DEF TypeOK, ResourcesTypeOK
  <2>1. ASSUME NEW o \in Objects, NEW spec \in TenantSpecs[o], Create(o, spec)
        PROVE  TypeOK'
    <3>1. spec \in SpecOf(o)
      BY TenantAssumption
    <3>2. spec \in ConnectionSpec \cup WarehouseSpec \cup TableSpec
      BY <3>1 DEF SpecOf
    <3> DEFINE new == [uid |-> uids[o] + 1, generation |-> 1,
                       spec |-> spec, status |-> EmptyStatus]
    <3>3. new \in Object(o) /\ new \in AnyObject
      BY <3>1, <3>2, EmptyStatusType DEF Object, AnyObject
    <3>4. api' = [api EXCEPT ![o] = new]
      BY <2>1 DEF Create, CreateObject
    <3>5. work' \in [Objects -> Work \cup {None}]
      BY <2>1, ZenonT(30) DEF Create, CreateObject, Wrote, Work
    <3> QED BY <2>1, <3>3, <3>4, <3>5 DEF Create, CreateObject, Wrote, world
  <2>2. ASSUME NEW o \in Objects, NEW spec \in TenantSpecs[o], UpdateSpec(o, spec)
        PROVE  TypeOK'
    <3>1. spec \in SpecOf(o)
      BY TenantAssumption
    <3>2. spec \in ConnectionSpec \cup WarehouseSpec \cup TableSpec
      BY <3>1 DEF SpecOf
    <3> DEFINE new == [uid |-> api[o].uid, generation |-> api[o].generation + 1,
                       spec |-> spec, status |-> api[o].status]
    <3>3. new \in Object(o) /\ new \in AnyObject
      BY <2>2, <3>1, <3>2 DEF Object, AnyObject, UpdateSpec, UpdateObject
    <3>4. api' = [api EXCEPT ![o] = new]
      BY <2>2 DEF UpdateSpec, UpdateObject
    <3>5. work' \in [Objects -> Work \cup {None}]
      BY <2>2 DEF UpdateSpec, UpdateObject, Wrote, Work
    <3> QED BY <2>2, <3>3, <3>4, <3>5 DEF UpdateSpec, UpdateObject, Wrote, world
  <2>3. ASSUME NEW o \in Objects, Delete(o) PROVE TypeOK'
    <3>1. work' \in [Objects -> Work \cup {None}]
      BY <2>3 DEF Delete, DeleteObject, Wrote, Work
    <3> QED BY <2>3, <3>1 DEF Delete, DeleteObject, Wrote, world
  <2>4. ASSUME NEW h \in Hosts, NEW answer \in HostAnswers, HostChanges(h, answer)
        PROVE  TypeOK'
    BY <2>4 DEF HostChanges, HostAnswerChanges, runtime
  <2>5. ASSUME NEW c \in Connections, NEW token \in TokenStates, SecretChanges(c, token)
        PROVE  TypeOK'
    BY <2>5 DEF SecretChanges, TokenChanges, runtime
  <2>6. ASSUME NEW o \in Objects, NEW mapped \in BOOLEAN, Observe(o, mapped)
        PROVE  TypeOK'
    <3>1. Dependents(o) \subseteq Objects
      BY DEF Dependents, Objects
    <3>2. /\ Delivered(o) \in Object(o) \cup {None}
          /\ Delivered(o) \in AnyObject \cup {None}
      BY DEF Delivered
    <3> HIDE DEF ResourcesTypeOK
    <3>3. ResourcesTypeOK'
      BY <2>6 DEF Observe, world, ResourcesTypeOK
    <3> QED BY <2>6, <3>1, <3>2, <3>3 DEF Observe
  <2>7. ASSUME NEW o \in Objects, Begin(o) PROVE TypeOK'
    <3>1. cache[o] # None => NewStatus(o) \in Status
      BY NewStatusType
    <3>2. cache[o] # None =>
            [status |-> NewStatus(o), fresh |-> o \notin stale,
             requeue |-> Verdict(o) \notin FinalReasons(o)] \in Work
      BY <3>1 DEF Work
    <3> QED BY <2>7, <3>2 DEF Begin, store, world
  <2>8. ASSUME NEW o \in Objects, Commit(o) PROVE TypeOK'
    <3>1. work[o].status \in Status
      BY <2>8 DEF Commit, Work
    <3> DEFINE new == [api[o] EXCEPT !.status = work[o].status]
    <3>2. new \in Object(o)
      BY <2>8, <3>1 DEF Commit, Object
    <3>3. new \in AnyObject
      BY <2>8, <3>1 DEF Commit, AnyObject
    <3>4. api' = [api EXCEPT ![o] = new]
      BY <2>8 DEF Commit
    <3> QED BY <2>8, <3>2, <3>3, <3>4 DEF Commit, world
  <2>9. ASSUME NEW o \in Objects, Reject(o) PROVE TypeOK'
    BY <2>9 DEF Reject, store, world
  <2>10. CASE Restart
    BY <2>10 DEF Restart, world
  <2>11. CASE UNCHANGED vars
    BY <2>11 DEF vars, store, runtime, world
  <2> QED
    BY <2>1, <2>2, <2>3, <2>4, <2>5, <2>6, <2>7, <2>8, <2>9, <2>10, <2>11
       DEF Next, Tenant, World, Controller, Deliver, DeliverUnmapped,
           Conflict, ApiError
<1> QED BY <1>1, <1>2, PTL DEF Spec
-----------------------------------------------------------------------------
(***************************************************************************)
(* The inductive invariant.                                                *)
(***************************************************************************)
\* A step that does not touch an object, its copy or its reconcile, and
\* takes no key of it from the queue, keeps what is known of it.
LEMMA Untouched ==
    ASSUME NEW p \in Objects, ObjectInv(p),
           api'[p] = api[p], cache'[p] = cache[p], work'[p] = work[p],
           uids'[p] = uids[p], p \in stale' <=> p \in stale,
           p \in queue => p \in queue'
    PROVE  ObjectInv(p)'
<1>1. SelfNotified(p)' <=> SelfNotified(p)
  BY DEF SelfNotified, Delivered
<1>2. StatusInv(p)' /\ WorkInv(p)'
  BY DEF ObjectInv, StatusInv, WorkInv
<1>3. CacheInv(p)' /\ WakeInv(p)'
  BY <1>1 DEF ObjectInv, CacheInv, WakeInv, Rests
<1> QED BY <1>2, <1>3 DEF ObjectInv

\* A reconcile that read the latest version of an object is about to write a
\* status that is sound for it.
LEMMA NewStatusSound ==
    ASSUME TypeOK, NEW o \in Objects, ObjectInv(o),
           cache[o] # None, o \notin stale
    PROVE  /\ SoundFor(o, NewStatus(o), api[o])
           /\ IsVerdict(o, NewStatus(o), api[o])
           /\ NewStatus(o).observedGeneration = api[o].generation
           /\ \/ Verdict(o) \notin FinalReasons(o)
              \/ NewStatus(o).conditions["Ready"].status = "False"
<1> DEFINE obj == cache[o]
           status == NewStatus(o)
<1>1. obj = api[o] /\ SoundFor(o, obj.status, obj)
  BY DEF ObjectInv, CacheInv, StatusInv
<1>2. obj \in Object(o)
  BY DEF TypeOK, ResourcesTypeOK
<1>3. /\ obj.generation \in Nat
      /\ obj.status.observedGeneration \in Nat
      /\ obj.status.conditions \in [CondTypes -> Condition]
  BY <1>2 DEF Object, Status
<1>5. status.observedGeneration = obj.generation
  BY NewStatusType
<1>7. ASSUME NEW st
      PROVE  NewConditions(o, obj, st)["Ready"].status = st
  BY <1>3 DEF NewConditions, SetCondition
<1>8. obj.status.columns \subseteq Schemas
  BY <1>2 DEF Object, Status
<1>9. CASE Verdict(o) = "Ready"
  <2> DEFINE cols == FetchedColumns(o, obj)
  <2>1. status = StatusFor(o, obj, "True", cols)
    BY <1>9 DEF NewStatus, ReadyStatus
  <2>2. cols \subseteq SchemasFor(o, obj) /\ (o \in Tables => cols # {})
    <3>1. cols \subseteq SchemasFor(o, obj)
      BY <1>9, FetchedOfSpec
    <3>2. o \in Tables => cols # {}
      BY DEF FetchedColumns
    <3> QED BY <3>1, <3>2
  <2>3. Verdict(o) \notin FinalReasons(o)
    BY <1>9 DEF FinalReasons
  <2> HIDE DEF cols, status
  <2>4. IsVerdict(o, status, obj)
    BY <2>1, <2>2 DEF IsVerdict
  <2>5. SoundFor(o, status, obj)
    BY <1>1, <1>2, <2>1, <2>2, VerdictSound
  <2> QED BY <1>1, <1>5, <2>3, <2>4, <2>5 DEF status
<1>10. CASE Verdict(o) # "Ready"
  <2> DEFINE cols == FailedColumns(obj)
  <2>1. status = StatusFor(o, obj, "False", cols)
    BY <1>10 DEF NewStatus, FailedStatus
  <2>2. cols \subseteq SchemasFor(o, obj)
    BY <1>1, <1>8 DEF FailedColumns, SoundFor, SchemasFor
  <2>3. status.conditions["Ready"].status = "False"
    BY <1>7, <2>1 DEF StatusFor
  <2> HIDE DEF cols, status
  <2>4. IsVerdict(o, status, obj)
    BY <2>1, <2>2 DEF IsVerdict
  <2>5. SoundFor(o, status, obj)
    BY <1>1, <1>2, <2>1, <2>2, VerdictSound
  <2> QED BY <1>1, <1>5, <2>3, <2>4, <2>5 DEF status
<1> QED BY <1>9, <1>10

\* Every step keeps the invariant: the object the step is about by the facts
\* named in each case, every other object by Untouched.
LEMMA IInvPreserved == TypeOK /\ IInv /\ [Next]_vars => IInv'
<1> SUFFICES ASSUME TypeOK, IInv, [Next]_vars, NEW p \in Objects
             PROVE  ObjectInv(p)'
  BY DEF IInv
<1>0. ObjectInv(p)
  BY DEF IInv
<1>t. /\ api[p] \in Object(p) \cup {None} /\ cache[p] \in Object(p) \cup {None}
      /\ work[p] \in Work \cup {None} /\ uids[p] \in Nat
  BY DEF TypeOK, ResourcesTypeOK
<1>g. /\ api[p] # None => /\ api[p].generation \in Nat /\ api[p].uid \in Nat
                          /\ api[p].status.observedGeneration \in Nat
      /\ cache[p] # None => cache[p].generation \in Nat /\ cache[p].uid \in Nat
  BY <1>t DEF Object, Status
<1>1. ASSUME NEW o \in Objects, NEW spec \in TenantSpecs[o], Create(o, spec)
      PROVE  ObjectInv(p)'
  <2>1. CASE p = o
    <3> DEFINE new == [uid |-> uids[p] + 1, generation |-> 1,
                       spec |-> spec, status |-> EmptyStatus]
    <3>1. /\ api'[p] = new /\ uids'[p] = uids[p] + 1 /\ p \in stale'
          /\ cache'[p] = cache[p]
          /\ work'[p] # None => ~work'[p].fresh
      BY <1>1, <2>1, <1>t DEF Create, CreateObject, Wrote, TypeOK, ResourcesTypeOK, Work
    <3>2. CacheInv(p)'
      BY <3>1, <1>0, <1>t, <1>g DEF CacheInv, ObjectInv
    <3>3. StatusInv(p)'
      BY <3>1 DEF StatusInv, SoundFor, EmptyStatus
    <3>4. WorkInv(p)'
      BY <3>1 DEF WorkInv
    <3>5. SelfNotified(p)'
      BY <3>1, <1>0, <1>t, <1>g DEF SelfNotified, Delivered, CacheInv, ObjectInv
    <3> QED BY <3>2, <3>3, <3>4, <3>5 DEF ObjectInv, WakeInv
  <2>2. CASE p # o
    BY <1>1, <2>2, <1>0, Untouched DEF Create, CreateObject, Wrote, TypeOK, ResourcesTypeOK
  <2> QED BY <2>1, <2>2
<1>2. ASSUME NEW o \in Objects, NEW spec \in TenantSpecs[o], UpdateSpec(o, spec)
      PROVE  ObjectInv(p)'
  <2>1. CASE p = o
    <3> DEFINE new == [uid |-> api[p].uid, generation |-> api[p].generation + 1,
                       spec |-> spec, status |-> api[p].status]
    <3>1. /\ api[p] # None /\ api'[p] = new /\ uids'[p] = uids[p] /\ p \in stale'
          /\ cache'[p] = cache[p]
          /\ work'[p] # None => ~work'[p].fresh
      BY <1>2, <2>1, <1>t DEF UpdateSpec, UpdateObject, Wrote, TypeOK, ResourcesTypeOK, Work
    <3>2. CacheInv(p)'
      BY <3>1, <1>0, <1>t, <1>g DEF CacheInv, ObjectInv
    <3>3. StatusInv(p)'
      BY <3>1, <1>0, <1>g DEF StatusInv, SoundFor, ObjectInv
    <3>4. WorkInv(p)'
      BY <3>1 DEF WorkInv
    <3>5. SelfNotified(p)'
      BY <3>1, <1>0, <1>t, <1>g DEF SelfNotified, Delivered, CacheInv, ObjectInv
    <3> QED BY <3>2, <3>3, <3>4, <3>5 DEF ObjectInv, WakeInv
  <2>2. CASE p # o
    BY <1>2, <2>2, <1>0, Untouched DEF UpdateSpec, UpdateObject, Wrote, TypeOK, ResourcesTypeOK
  <2> QED BY <2>1, <2>2
<1>3. ASSUME NEW o \in Objects, Delete(o) PROVE ObjectInv(p)'
  <2>1. CASE p = o
    <3>1. /\ api'[p] = None /\ uids'[p] = uids[p] /\ p \in stale'
          /\ cache'[p] = cache[p]
          /\ work'[p] # None => ~work'[p].fresh
      BY <1>3, <2>1, <1>t DEF Delete, DeleteObject, Wrote, TypeOK, ResourcesTypeOK, Work
    <3> QED
      BY <3>1, <1>0 DEF ObjectInv, CacheInv, StatusInv, WorkInv, WakeInv
  <2>2. CASE p # o
    BY <1>3, <2>2, <1>0, Untouched DEF Delete, DeleteObject, Wrote, TypeOK, ResourcesTypeOK
  <2> QED BY <2>1, <2>2
<1>4. ASSUME NEW o \in Objects, NEW mapped \in BOOLEAN, Observe(o, mapped)
      PROVE  ObjectInv(p)'
  <2>1. CASE p = o
    <3>1. /\ api'[p] = api[p] /\ uids'[p] = uids[p]
          /\ cache'[p] = Delivered(p)
          /\ Delivered(p) # api[p] => Delivered(p) = None /\ p \in stale'
          /\ work'[p] = work[p]
          /\ p \in queue => p \in queue'
          /\ SelfNotified(p) => p \in queue'
      BY <1>4, <2>1 DEF Observe, Delivered, TypeOK, ResourcesTypeOK
    <3>2. CacheInv(p)'
      BY <3>1, <1>0, <1>t, <1>g DEF CacheInv, ObjectInv
    <3>3. StatusInv(p)' /\ WorkInv(p)'
      BY <3>1, <1>0 DEF StatusInv, WorkInv, SoundFor, ObjectInv
    <3>4. WakeInv(p)'
      BY <3>1, <1>0 DEF WakeInv, SelfNotified, Rests, ObjectInv
    <3> QED BY <3>2, <3>3, <3>4 DEF ObjectInv
  <2>2. CASE p # o
    BY <1>4, <2>2, <1>0, Untouched DEF Observe, TypeOK, ResourcesTypeOK
  <2> QED BY <2>1, <2>2
<1>5. ASSUME NEW o \in Objects, Begin(o) PROVE ObjectInv(p)'
  <2>1. CASE p = o /\ cache[p] # None
    <3> DEFINE new == [status |-> NewStatus(p), fresh |-> p \notin stale,
                       requeue |-> Verdict(p) \notin FinalReasons(p)]
    <3>1. /\ api'[p] = api[p] /\ uids'[p] = uids[p] /\ cache'[p] = cache[p]
          /\ stale' = stale /\ work'[p] = new
      BY <1>5, <2>1 DEF Begin, TypeOK, ResourcesTypeOK, store
    <3>2. CacheInv(p)' /\ StatusInv(p)'
      BY <3>1, <1>0 DEF CacheInv, StatusInv, SoundFor, ObjectInv
    <3>3. WorkInv(p)'
      <4>1. p \notin stale =>
              /\ api[p] # None
              /\ SoundFor(p, NewStatus(p), api[p])
              /\ IsVerdict(p, NewStatus(p), api[p])
              /\ NewStatus(p).observedGeneration = api[p].generation
              /\ \/ Verdict(p) \notin FinalReasons(p)
                 \/ NewStatus(p).conditions["Ready"].status = "False"
        BY <2>1, <1>0, NewStatusSound DEF ObjectInv, CacheInv
      <4>2. new.fresh => p \notin stale
        OBVIOUS
      <4>3. /\ new.status = NewStatus(p)
            /\ new.requeue = (Verdict(p) \notin FinalReasons(p))
        OBVIOUS
      <4> QED BY <4>1, <4>2, <4>3, <3>1 DEF WorkInv, SoundFor
    <3>4. new # None
      <4>1. NewStatus(p) \in Status
        BY <2>1, NewStatusType
      <4>2. new \in Work
        BY <4>1 DEF Work
      <4> QED BY <4>2, NoneIsNoWork
    <3>5. WakeInv(p)'
      BY <3>1, <3>4 DEF WakeInv
    <3> QED BY <3>2, <3>3, <3>5 DEF ObjectInv
  <2>2. CASE p = o /\ cache[p] = None
    <3>1. /\ api'[p] = api[p] /\ uids'[p] = uids[p] /\ cache'[p] = cache[p]
          /\ stale' = stale /\ work'[p] = work[p]
      BY <1>5, <2>2 DEF Begin, TypeOK, ResourcesTypeOK, store
    <3>2. WakeInv(p)'
      BY <3>1, <2>2 DEF WakeInv, SelfNotified
    <3> QED
      BY <3>1, <3>2, <1>0 DEF ObjectInv, CacheInv, StatusInv, WorkInv, SoundFor
  <2>3. CASE p # o
    BY <1>5, <2>3, <1>0, Untouched DEF Begin, TypeOK, ResourcesTypeOK, store
  <2> QED BY <2>1, <2>2, <2>3
<1>6. ASSUME NEW o \in Objects, Commit(o) PROVE ObjectInv(p)'
  <2>1. CASE p = o
    <3> DEFINE new == [api[p] EXCEPT !.status = work[p].status]
    <3>1. /\ api[p] # None /\ api'[p] = new
          /\ uids'[p] = uids[p] /\ cache'[p] = cache[p]
          /\ stale \subseteq stale' /\ work'[p] = None
          /\ p \in stale' \/ ~Changes(p)
          /\ work[p].requeue => p \in queue'
          /\ work[p] # None /\ work[p].fresh
      BY <1>6, <2>1 DEF Commit, TypeOK, ResourcesTypeOK
    <3>2. /\ new.uid = api[p].uid /\ new.generation = api[p].generation
          /\ new.spec = api[p].spec /\ new.status = work[p].status
      BY <3>1, <1>t DEF Object
    <3>3. WorkInv(p)
      BY <1>0 DEF ObjectInv
    <3>4. p \notin stale' => new = api[p]
      <4>1. p \notin stale' => work[p].status = api[p].status
        BY <3>1 DEF Changes
      <4> QED BY <4>1, <3>1, <1>t DEF Object
    <3>5. CacheInv(p)'
      BY <3>1, <3>2, <3>4, <1>0 DEF CacheInv, ObjectInv
    <3>6. StatusInv(p)'
      BY <3>1, <3>2, <3>3 DEF StatusInv, WorkInv, SoundFor, SchemasFor
    <3>7. WorkInv(p)'
      BY <3>1 DEF WorkInv
    <3>8. WakeInv(p)'
      BY <3>1, <3>2, <3>3 DEF WakeInv, WorkInv, Rests
    <3> QED BY <3>5, <3>6, <3>7, <3>8 DEF ObjectInv
  <2>2. CASE p # o
    BY <1>6, <2>2, <1>0, Untouched DEF Commit, TypeOK, ResourcesTypeOK
  <2> QED BY <2>1, <2>2
<1>7. ASSUME NEW o \in Objects, Reject(o) PROVE ObjectInv(p)'
  <2>1. CASE p = o
    <3>1. /\ api'[p] = api[p] /\ uids'[p] = uids[p] /\ cache'[p] = cache[p]
          /\ stale' = stale /\ work'[p] = None /\ p \in queue'
      BY <1>7, <2>1 DEF Reject, TypeOK, ResourcesTypeOK, store
    <3> QED
      BY <3>1, <1>0 DEF ObjectInv, CacheInv, StatusInv, WorkInv, WakeInv, SoundFor
  <2>2. CASE p # o
    BY <1>7, <2>2, <1>0, Untouched DEF Reject, TypeOK, ResourcesTypeOK, store
  <2> QED BY <2>1, <2>2
<1>8. CASE Restart
  <2>1. /\ api'[p] = api[p] /\ uids'[p] = uids[p] /\ cache'[p] = api[p]
        /\ work'[p] = None
        /\ api[p] # None => p \in queue'
    BY <1>8 DEF Restart, TypeOK, ResourcesTypeOK
  <2> QED
    BY <2>1, <1>0, <1>t, <1>g
       DEF ObjectInv, CacheInv, StatusInv, WorkInv, WakeInv, SoundFor
<1>9. CASE World
  BY <1>9, <1>0, Untouched
     DEF World, HostChanges, HostAnswerChanges, SecretChanges, TokenChanges, runtime
<1>10. CASE UNCHANGED vars
  BY <1>10, <1>0, Untouched DEF vars, store, runtime
<1> QED
  BY <1>1, <1>2, <1>3, <1>4, <1>5, <1>6, <1>7, <1>8, <1>9, <1>10
     DEF Next, Tenant, Controller, Deliver, DeliverUnmapped, Conflict, ApiError

\* The inductive invariant holds in every reachable state.
THEOREM Invariance == Spec => []IInv
<1>1. Init => IInv
  BY DEF Init, ContractInit, IInv, ObjectInv, CacheInv, StatusInv, WorkInv, WakeInv
<1>2. QED BY <1>1, IInvPreserved, TypeCorrect, PTL DEF Spec

\* The cached schema a Table offers for its present generation is that of the
\* Databricks table its spec names, and a Ready Table has one.
THEOREM SchemaCorrect == Spec => []SchemaMatchesSpec
<1>1. IInv => SchemaMatchesSpec
  BY DEF IInv, ObjectInv, StatusInv, SoundFor, SchemaMatchesSpec,
         CurrentConditionTrue, Objects
<1>2. QED BY <1>1, Invariance, PTL

\* No status runs ahead of its object's generation, even across deletion and
\* re-creation of the name during a reconcile.
THEOREM ObservedCorrect == Spec => []ObservedNeverAhead
<1>1. IInv => ObservedNeverAhead
  BY DEF IInv, ObjectInv, StatusInv, SoundFor, ObservedNeverAhead
<1>2. QED BY <1>1, Invariance, PTL

\* Every object is queued, being reconciled, about to be delivered, or rests
\* on a recorded failure of its present generation.
THEOREM WakeupsCorrect == Spec => []NoLostWakeup
<1>1. IInv => NoLostWakeup
  BY DEF IInv, ObjectInv, CacheInv, WakeInv, SelfNotified, Delivered, NoLostWakeup, Unattended
<1>2. QED BY <1>1, Invariance, PTL

\* The observed generation of one life of an object never decreases.
THEOREM MonotoneCorrect == Spec => ObservedMonotone
<1> DEFINE Mono ==
      \A o \in Objects : api[o] # None /\ api'[o] # None =>
        (api[o].uid = api'[o].uid =>
            api[o].status.observedGeneration <= api'[o].status.observedGeneration)
<1>1. TypeOK /\ IInv /\ [Next]_vars => [Mono]_vars
  <2> SUFFICES ASSUME TypeOK, IInv, [Next]_vars, NEW p \in Objects,
                      api[p] # None, api'[p] # None, api[p].uid = api'[p].uid
               PROVE  api[p].status.observedGeneration <=
                      api'[p].status.observedGeneration
    OBVIOUS
  <2>1. api[p].status.observedGeneration \in Nat
    BY DEF TypeOK, ResourcesTypeOK, Object, Status
  <2>2. CASE api'[p] = api[p]
    BY <2>1, <2>2
  <2>3. ASSUME NEW o \in Objects, NEW spec \in TenantSpecs[o], UpdateSpec(o, spec)
        PROVE  api'[p].status = api[p].status
    BY <2>3 DEF UpdateSpec, UpdateObject, TypeOK, ResourcesTypeOK
  <2>4. ASSUME NEW o \in Objects, Commit(o), p = o
        PROVE  api[p].status.observedGeneration <=
               api'[p].status.observedGeneration
    <3>1. api'[p] = [api[p] EXCEPT !.status = work[p].status]
      BY <2>4 DEF Commit, TypeOK, ResourcesTypeOK
    <3>2. api'[p].status = work[p].status
      BY <3>1 DEF TypeOK, ResourcesTypeOK, Object
    <3>3. ObjectInv(p)
      BY DEF IInv
    <3> QED BY <2>4, <3>2, <3>3 DEF ObjectInv, WorkInv, StatusInv, SoundFor, Commit
  <2>5. ASSUME NEW o \in Objects, Commit(o), p # o PROVE api'[p] = api[p]
    BY <2>5 DEF Commit, TypeOK, ResourcesTypeOK
  <2>6. ASSUME NEW o \in Objects, NEW spec \in TenantSpecs[o], Create(o, spec)
        PROVE  api'[p] = api[p]
    BY <2>6 DEF Create, CreateObject, TypeOK, ResourcesTypeOK
  <2>7. ASSUME NEW o \in Objects, Delete(o) PROVE api'[p] = api[p]
    BY <2>7 DEF Delete, DeleteObject, TypeOK, ResourcesTypeOK
  <2>8. \/ api' = api
        \/ \E o \in Objects : Commit(o) \/ Delete(o) \/
              \E spec \in TenantSpecs[o] : Create(o, spec) \/ UpdateSpec(o, spec)
    BY DEF Next, Tenant, Controller, World, HostChanges, HostAnswerChanges,
           SecretChanges, TokenChanges, Deliver,
           DeliverUnmapped, Observe, Begin, Conflict, ApiError, Reject, Restart,
           vars, store
  <2> QED BY <2>1, <2>2, <2>3, <2>4, <2>5, <2>6, <2>7, <2>8
<1>2. Spec => [][Mono]_vars
  BY <1>1, TypeCorrect, Invariance, PTL DEF Spec
<1> QED BY <1>2 DEF ObservedMonotone
-----------------------------------------------------------------------------
\* Every step of the reconcilers and their machinery is, for a reader of the
\* objects, a step of the contract or no step at all.
LEMMA StepImplements ==
    TypeOK /\ IInv /\ [Next]_vars => [ContractNext]_resources
<1> SUFFICES ASSUME TypeOK, IInv, [Next]_vars PROVE [ContractNext]_resources
  OBVIOUS
<1>1. ASSUME NEW o \in Objects, Commit(o) PROVE WriteStatus(o)
  <2>1. /\ work[o] # None /\ work[o].fresh /\ api[o] # None
        /\ api' = [api EXCEPT ![o].status = work[o].status]
        /\ UNCHANGED <<uids, world>>
    BY <1>1 DEF Commit
  <2>2. IsVerdict(o, work[o].status, api[o])
    BY <2>1 DEF IInv, ObjectInv, WorkInv
  <2>3. PICK ready \in {"True", "False"}, columns \in SUBSET SchemasFor(o, api[o]) :
          /\ o \in Tables /\ ready = "True" => columns # {}
          /\ work[o].status = StatusFor(o, api[o], ready, columns)
    BY <2>2 DEF IsVerdict
  <2> QED BY <2>1, <2>3 DEF WriteStatus
<1>2. ASSUME NEW o \in Objects, Tenant(o) PROVE ContractNext
  BY <1>2 DEF Tenant, Create, UpdateSpec, Delete, ContractNext
<1>3. ASSUME World PROVE ContractNext
  BY <1>3 DEF World, HostChanges, SecretChanges, ContractNext
<1>4. ASSUME NEW o \in Objects, Controller(o), ~Commit(o)
      PROVE  UNCHANGED resources
  BY <1>4 DEF Controller, Deliver, DeliverUnmapped, Observe, Begin, Conflict,
              ApiError, Reject, store, resources, world
<1>5. CASE Restart
  BY <1>5 DEF Restart, resources, world
<1>6. CASE UNCHANGED vars
  BY <1>6 DEF vars, store, world, resources
<1> QED BY <1>1, <1>2, <1>3, <1>4, <1>5, <1>6 DEF Next, ContractNext

\* The reconcilers implement the contract that readers of the objects rely
\* on: every status write is a verdict on the object as it is at that moment.
THEOREM ContractImplemented == Spec => ContractSpec
<1>1. Init => ContractInit
  BY DEF Init
<1>2. QED BY <1>1, StepImplements, TypeCorrect, Invariance, PTL
          DEF Spec, ContractSpec
=============================================================================
