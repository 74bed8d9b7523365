------------------------- MODULE RegistrationProofs -------------------------
(***************************************************************************)
(* Proofs about bulk registration, for any callers, items, resources and   *)
(* bounds, and the refinement of its contract.                             *)
(***************************************************************************)
EXTENDS Registration, FiniteSetTheorems, TLAPS

(***************************************************************************)
(* The inductive invariant.  The three parts below speak of one request q  *)
(* of a caller of the given kind, so that steps of other requests leave    *)
(* them alone; h is what has existed so far.                               *)
(***************************************************************************)
\* Results come only while items are decided, one for each in turn.
Shape(q, kind) ==
    /\ q.stage = "free" => q = Free
    /\ q.stage \notin PerItem \cup {"answered"} => q.results = <<>>
    /\ q.stage \in PerItem => Len(q.results) < Len(q.items)
    /\ q.stage = "answered" => Len(q.results) = Len(q.items)
    /\ kind = "discovery" => q.items = <<>>
    /\ kind # "discovery" /\ q.stage \in Calls => q.items # <<>>

\* Each stage comes after the checks that lead to it.
Vouched(q, kind) ==
    /\ q.stage \in Calls \ {"reviewConnection"} => "connection" \in q.seen
    /\ q.stage \in Calls \ {"reviewConnection", "resolve"} => "auth" \in q.seen
    /\ q.stage \in Calls \ {"reviewConnection", "resolve", "token"} => "token" \in q.seen
    /\ q.stage \in PerItem \cup {"reviewCreate", "preflight"} => "get" \in q.seen
    /\ q.stage \in PerItem \cup {"preflight"} => "create" \in q.seen
    /\ q.stage = "list" => kind = "discovery"
    /\ q.stage \in PerItem \cup {"reviewGet", "reviewCreate", "preflight"} => kind # "discovery"
    /\ q.stage = "preflight" => kind = "table"
    /\ q.stage \in PerItem \cup {"list"} \/ q.results # <<>> => Needed(kind) \subseteq q.seen

\* A result is true of its item.
IsTrue(state, item, h) ==
    /\ state \in {"created", "existing"} => item \in h
    /\ state = "conflict" => \E e \in h : e.id = item.id /\ e.spec # item.spec

Truthful(q, h) == \A i \in 1..Len(q.results) : IsTrue(q.results[i], q.items[i], h)

RequestInv(r) ==
    /\ Shape(req[r], Kind(r))
    /\ Vouched(req[r], Kind(r))
    /\ Truthful(req[r], held)

\* A wizard waits for a request of its own, whose items are those it has sent.
WizardInv(c) ==
    /\ wiz[c].sent \in Seq(1..Len(Items[c]))
    /\ Len(wiz[c].results) \in {0, Len(Items[c])}
    /\ wiz[c].waiting # None =>
          /\ Caller(wiz[c].waiting) = c
          /\ req[wiz[c].waiting].stage # "free"
          /\ req[wiz[c].waiting].items = [j \in DOMAIN wiz[c].sent |-> Normalize(c, wiz[c].sent[j])]
    /\ c \in Wizards =>
          \A i \in 1..Len(wiz[c].results) : IsTrue(wiz[c].results[i], Normalize(c, i), held)

Types ==
    /\ obj \in [Ids -> Specs \cup {None}]
    /\ late \subseteq Elements /\ held \subseteq Elements
    /\ conn \in [Connections -> ConnStates]
    /\ rights \in [Callers -> SUBSET AllRights]
    /\ req \in [Slots -> Request] /\ wiz \in [Callers -> Wizard]
    /\ changes \in 0..MaxChanges /\ faults \in 0..MaxFaults

Inv ==
    /\ Types
    /\ Exists(obj) \subseteq held
    /\ \A r \in Slots : RequestInv(r)
    /\ \A c \in Callers : WizardInv(c)
-----------------------------------------------------------------------------
(***************************************************************************)
(* What does not change.                                                   *)
(***************************************************************************)
\* What was true of an item stays true: nothing leaves the history.
LEMMA TrueForGood ==
    ASSUME NEW state, NEW item, NEW h, NEW more, h \subseteq more, IsTrue(state, item, h)
    PROVE  IsTrue(state, item, more)
  BY DEF IsTrue

\* A step of the server on request r, and the requests and wizards it leaves
\* alone.
LEMMA ServerStep ==
    ASSUME Inv, NEW r \in Slots, NEW q \in Request,
           req' = [req EXCEPT ![r] = q], UNCHANGED wiz,
           req[r].stage # "free", q.stage # "free", q.items = req[r].items,
           Shape(q, Kind(r)), Vouched(q, Kind(r)), Truthful(q, held'),
           held \subseteq held'
    PROVE  /\ req' \in [Slots -> Request]
           /\ \A x \in Slots : RequestInv(x)'
           /\ \A c \in Callers : WizardInv(c)'
  <1>1. req' \in [Slots -> Request]
    BY DEF Inv, Types
  <1>2. ASSUME NEW x \in Slots PROVE RequestInv(x)'
    <2>1. CASE x = r
      BY <2>1 DEF Inv, Types, RequestInv, Kind, Caller
    <2>2. CASE x # r
      <3>1. req'[x] = req[x] /\ RequestInv(x)
        BY <2>2 DEF Inv, Types
      <3>2. Truthful(req[x], held')
        BY <3>1, TrueForGood DEF RequestInv, Truthful
      <3> QED BY <3>1, <3>2 DEF RequestInv, Kind, Caller
    <2> QED BY <2>1, <2>2
  <1>3. ASSUME NEW c \in Callers PROVE WizardInv(c)'
    <2>1. WizardInv(c) /\ wiz[c] \in Wizard
      BY DEF Inv, Types
    <2>2. wiz[c].waiting # None =>
             /\ req'[wiz[c].waiting].stage # "free"
             /\ req'[wiz[c].waiting].items = req[wiz[c].waiting].items
      BY <2>1 DEF Inv, Types, Wizard, WizardInv
    <2>3. c \in Wizards => \A i \in 1..Len(wiz[c].results) :
                              IsTrue(wiz[c].results[i], Normalize(c, i), held')
      BY <2>1, TrueForGood DEF WizardInv
    <2> QED BY <2>1, <2>2, <2>3 DEF WizardInv, Caller
  <1> QED BY <1>1, <1>2, <1>3

\* A step of the world: no request and no wizard moves.
LEMMA WorldStep ==
    ASSUME Inv, UNCHANGED <<req, wiz>>, held \subseteq held'
    PROVE  /\ \A r \in Slots : RequestInv(r)'
           /\ \A c \in Callers : WizardInv(c)'
  <1>1. ASSUME NEW r \in Slots PROVE RequestInv(r)'
    <2>1. RequestInv(r)
      BY DEF Inv
    <2> QED BY <2>1, TrueForGood DEF RequestInv, Truthful, Kind, Caller
  <1>2. ASSUME NEW c \in Callers PROVE WizardInv(c)'
    <2>1. WizardInv(c)
      BY DEF Inv
    <2> QED BY <2>1, TrueForGood DEF WizardInv, Caller
  <1> QED BY <1>1, <1>2
-----------------------------------------------------------------------------
(***************************************************************************)
(* The steps of the server.                                                *)
(***************************************************************************)
\* What Go and Decided make of a request.
Moved(q, stage, facts) ==
    [stage |-> stage, items |-> q.items, results |-> q.results,
     seen |-> q.seen \cup facts, cancelled |-> q.cancelled]

Answered(q, state) ==
    [stage |-> IF Len(q.results) + 1 < Len(q.items) THEN "get" ELSE "answered",
     items |-> q.items, results |-> Append(q.results, state),
     seen |-> q.seen, cancelled |-> q.cancelled]

LEMMA MovedByGo ==
    ASSUME NEW q \in Request, NEW stage \in Stages, NEW facts \in SUBSET FactNames
    PROVE  [q EXCEPT !.stage = stage, !.seen = @ \cup facts] = Moved(q, stage, facts)
  <1> DEFINE p == [stage |-> stage, items |-> q.items, results |-> q.results,
                   seen |-> q.seen, cancelled |-> q.cancelled]
  <1>1. [q EXCEPT !.stage = stage] = p
    BY DEF Request
  <1>2. [p EXCEPT !.seen = q.seen \cup facts] = Moved(q, stage, facts)
    BY DEF Moved
  <1>3. [[q EXCEPT !.stage = stage] EXCEPT !.seen = q.seen \cup facts] = Moved(q, stage, facts)
    BY <1>1, <1>2 DEF Request, Moved
  <1> QED BY <1>3

LEMMA AnsweredByDecided ==
    ASSUME NEW q \in Request, NEW stage \in Stages, NEW results \in Seq(ItemStates)
    PROVE  [q EXCEPT !.results = results, !.stage = stage]
              = [stage |-> stage, items |-> q.items, results |-> results,
                 seen |-> q.seen, cancelled |-> q.cancelled]
  <1> DEFINE p == [stage |-> q.stage, items |-> q.items, results |-> results,
                   seen |-> q.seen, cancelled |-> q.cancelled]
             t == [stage |-> stage, items |-> q.items, results |-> results,
                   seen |-> q.seen, cancelled |-> q.cancelled]
  <1>1. [q EXCEPT !.results = results] = p
    BY DEF Request
  <1>2. [p EXCEPT !.stage = stage] = t
    OBVIOUS
  <1>3. [[q EXCEPT !.results = results] EXCEPT !.stage = stage] = t
    BY <1>1, <1>2
  <1> QED BY <1>3

LEMMA GoMoves ==
    ASSUME Inv, NEW r \in Slots, NEW stage \in Stages, Go(r, stage)
    PROVE  /\ Moved(req[r], stage, Facts(Caller(r))) \in Request
           /\ req' = [req EXCEPT ![r] = Moved(req[r], stage, Facts(Caller(r)))]
  <1>1. req \in [Slots -> Request] /\ req[r] \in Request
    BY DEF Inv, Types
  <1>2. Facts(Caller(r)) \subseteq FactNames
    BY DEF Facts
  <1>3. Moved(req[r], stage, Facts(Caller(r))) \in Request
    BY <1>1, <1>2 DEF Request, Moved
  <1>4. req' = [req EXCEPT ![r] = [req[r] EXCEPT !.stage = stage, !.seen = @ \cup Facts(Caller(r))]]
    BY <1>1 DEF Go
  <1>5. req' = [req EXCEPT ![r] = Moved(req[r], stage, Facts(Caller(r)))]
    BY <1>1, <1>2, <1>4, MovedByGo
  <1> QED BY <1>3, <1>5

LEMMA DecidedAnswers ==
    ASSUME Inv, NEW r \in Slots, NEW state \in ItemStates, Decided(r, state)
    PROVE  /\ Answered(req[r], state) \in Request
           /\ req' = [req EXCEPT ![r] = Answered(req[r], state)]
  <1>1. req \in [Slots -> Request] /\ req[r] \in Request
    BY DEF Inv, Types
  <1>2. Append(req[r].results, state) \in Seq(ItemStates)
    BY <1>1 DEF Request
  <1>3. Answered(req[r], state) \in Request
    BY <1>1, <1>2 DEF Request, Answered, Stages, Calls, PerItem
  <1> DEFINE next == IF Len(req[r].results) + 1 < Len(req[r].items) THEN "get" ELSE "answered"
  <1>4. req' = [req EXCEPT ![r] = [req[r] EXCEPT !.results = Append(@, state), !.stage = next]]
    BY <1>1 DEF Decided
  <1>5. next \in Stages
    BY DEF Stages, Calls, PerItem
  <1> HIDE DEF next
  <1>6. req' = [req EXCEPT ![r] = [req[r] EXCEPT !.results = Append(req[r].results, state), !.stage = next]]
    BY <1>4
  <1>7. [req[r] EXCEPT !.results = Append(req[r].results, state), !.stage = next]
           = Answered(req[r], state)
    BY <1>1, <1>2, <1>5, AnsweredByDecided DEF next, Answered
  <1> QED BY <1>3, <1>6, <1>7

\* A request that is refused, or goes on to the next of its calls.
LEMMA GoStep ==
    ASSUME Inv, NEW r \in Slots, req[r].stage # "free",
           NEW stage \in Stages \ {"free"}, Go(r, stage),
           LET q == Moved(req[r], stage, Facts(Caller(r)))
           IN  Shape(q, Kind(r)) /\ Vouched(q, Kind(r)),
           UNCHANGED <<obj, late, world, wiz, held, changes>>,
           faults' \in 0..MaxFaults
    PROVE  Inv'
  <1> DEFINE q == Moved(req[r], stage, Facts(Caller(r)))
  <1>1. q \in Request /\ req' = [req EXCEPT ![r] = q]
    BY GoMoves
  <1>2. q.items = req[r].items /\ q.results = req[r].results /\ q.stage = stage
    BY DEF Moved
  <1>3. Truthful(q, held)
    BY <1>2 DEF Inv, RequestInv, Truthful
  <1>4. UNCHANGED <<obj, late, conn, rights, wiz, held, changes>>
    BY DEF world
  <1> HIDE DEF q
  <1>5. Shape(q, Kind(r)) /\ Vouched(q, Kind(r))
    BY DEF q
  <1> QED BY <1>1, <1>2, <1>3, <1>4, <1>5, ServerStep DEF Inv, Types, Exists

\* Before the items, a request can be refused at any time.
LEMMA RefusedStep ==
    ASSUME Inv, NEW r \in Slots, Refused(r),
           req[r].stage \in Stages \ (PerItem \cup {"free", "answered"}),
           UNCHANGED <<obj, late, world, wiz, held, changes>>,
           faults' \in 0..MaxFaults
    PROVE  Inv'
  <1> DEFINE q == Moved(req[r], "refused", Facts(Caller(r)))
  <1>1. req[r] \in Request /\ RequestInv(r)
    BY DEF Inv, Types
  <1>2. Shape(q, Kind(r)) /\ Vouched(q, Kind(r))
    BY <1>1 DEF RequestInv, Shape, Vouched, Moved, Calls, Reviews, PerItem
  <1> QED BY <1>2, GoStep DEF Refused, Stages, PerItem

\* An item is decided; the resources may change with it.
LEMMA DecidedStep ==
    ASSUME Inv, NEW r \in Slots, NEW state \in ItemStates, Decided(r, state),
           req[r].stage \in PerItem, IsTrue(state, Turn(r), held'),
           UNCHANGED wiz, held \subseteq held'
    PROVE  /\ req' \in [Slots -> Request]
           /\ \A x \in Slots : RequestInv(x)'
           /\ \A c \in Callers : WizardInv(c)'
  <1> DEFINE q == Answered(req[r], state)
  <1>1. req[r] \in Request /\ RequestInv(r)
    BY DEF Inv, Types
  <1>2. q \in Request /\ req' = [req EXCEPT ![r] = q]
    BY DecidedAnswers
  <1>3. q.items = req[r].items /\ q.stage \in {"get", "answered"} /\ q.seen = req[r].seen
    BY DEF Answered
  <1>4. /\ q.results \in Seq(ItemStates)
        /\ Len(q.results) = Len(req[r].results) + 1
        /\ \A i \in 1..Len(req[r].results) : q.results[i] = req[r].results[i]
        /\ q.results[Len(req[r].results) + 1] = state
    BY <1>1 DEF Answered, Request
  <1>5. Shape(q, Kind(r))
    <2>1. Len(req[r].results) \in Nat /\ Len(req[r].items) \in Nat
      BY <1>1 DEF Request
    <2>2. Len(req[r].results) < Len(req[r].items)
      BY <1>1 DEF RequestInv, Shape
    <2>3. q.stage = IF Len(req[r].results) + 1 < Len(req[r].items) THEN "get" ELSE "answered"
      BY DEF Answered
    <2> HIDE DEF q
    <2> QED BY <1>1, <1>3, <1>4, <2>1, <2>2, <2>3 DEF RequestInv, Shape, Calls, PerItem
  <1>6. Vouched(q, Kind(r))
    BY <1>1, <1>3 DEF RequestInv, Vouched, Calls, Reviews, PerItem
  <1>7. Truthful(q, held')
    <2> SUFFICES ASSUME NEW i \in 1..Len(q.results)
                 PROVE  IsTrue(q.results[i], q.items[i], held')
      BY DEF Truthful
    <2>1. Len(req[r].results) \in Nat
      BY <1>1 DEF Request
    <2>2. CASE i \in 1..Len(req[r].results)
      <3>1. IsTrue(req[r].results[i], req[r].items[i], held)
        BY <1>1, <2>2 DEF RequestInv, Truthful
      <3> QED BY <1>3, <1>4, <2>2, <3>1, TrueForGood
    <2>3. CASE i = Len(req[r].results) + 1
      BY <1>3, <1>4, <2>3 DEF Turn
    <2> HIDE DEF q
    <2> QED BY <1>4, <2>1, <2>2, <2>3
  <1>8. req[r].stage # "free" /\ q.stage # "free"
    BY <1>3 DEF PerItem
  <1> HIDE DEF q
  <1> QED BY <1>2, <1>3, <1>5, <1>6, <1>7, <1>8, ServerStep

LEMMA KindType == \A r \in Slots : Kind(r) \in {"warehouse", "table", "discovery"}
  BY CallersAssumption DEF Kind, Caller

\* A call that finds out about a fact.
LEMMA CheckStep ==
    ASSUME Inv, NEW r \in Slots, NEW from \in Calls \ PerItem, NEW fact, NEW next \in Calls,
           Check(r, from, fact, next),
           LET q == Moved(req[r], next, Facts(Caller(r)))
           IN  fact \in q.seen => Shape(q, Kind(r)) /\ Vouched(q, Kind(r))
    PROVE  Inv'
  <1>1. /\ req[r].stage = from /\ faults' \in 0..MaxFaults
        /\ UNCHANGED <<obj, late, world, wiz, held, changes>>
    BY DEF Check, At, Inv, Types
  <1>2. CASE fact \in Facts(Caller(r))
    <2>1. fact \in Moved(req[r], next, Facts(Caller(r))).seen
      BY <1>2 DEF Moved
    <2>2. next \in Stages \ {"free"} /\ req[r].stage # "free"
      BY <1>1 DEF Stages, Calls, Reviews, PerItem
    <2> QED BY <1>1, <1>2, <2>1, <2>2, GoStep DEF Check
  <1>3. CASE fact \notin Facts(Caller(r))
    <2>1. req[r].stage \in Stages \ (PerItem \cup {"free", "answered"})
      BY <1>1 DEF Stages, Calls, Reviews, PerItem
    <2> QED BY <1>1, <1>3, <2>1, RefusedStep DEF Check
  <1> QED BY <1>2, <1>3

LEMMA ReviewsStep ==
    ASSUME Inv, NEW r \in Slots,
           \/ ReviewConnection(r) \/ Resolve(r) \/ ResolveToken(r)
           \/ ReviewGet(r) \/ ReviewCreate(r) \/ Preflight(r)
    PROVE  Inv'
  <1> DEFINE q(stage) == Moved(req[r], stage, Facts(Caller(r)))
  <1>1. /\ req[r] \in Request /\ Shape(req[r], Kind(r)) /\ Vouched(req[r], Kind(r))
        /\ Kind(r) \in {"warehouse", "table", "discovery"}
    BY KindType DEF Inv, Types, RequestInv
  <1>2. \A stage : /\ q(stage).stage = stage /\ q(stage).items = req[r].items
                   /\ q(stage).results = req[r].results /\ req[r].seen \subseteq q(stage).seen
    BY DEF Moved
  <1>3. Len(req[r].items) \in Nat /\ (req[r].items # <<>> => 0 < Len(req[r].items))
        /\ (req[r].results = <<>> => Len(req[r].results) = 0)
    BY <1>1 DEF Request
  <1>4. CASE ReviewConnection(r)
    <2>1. "connection" \in q("resolve").seen =>
             Shape(q("resolve"), Kind(r)) /\ Vouched(q("resolve"), Kind(r))
      <3> HIDE DEF q
      <3> QED BY <1>1, <1>2, <1>4 DEF ReviewConnection, Check, At, Shape, Vouched, Calls, Reviews, PerItem
    <2> QED BY <1>4, <2>1, CheckStep DEF ReviewConnection, Calls, Reviews, PerItem, FactNames
  <1>5. CASE Resolve(r)
    <2>1. "auth" \in q("token").seen =>
             Shape(q("token"), Kind(r)) /\ Vouched(q("token"), Kind(r))
      <3> HIDE DEF q
      <3> QED BY <1>1, <1>2, <1>5 DEF Resolve, Check, At, Shape, Vouched, Calls, Reviews, PerItem
    <2> QED BY <1>5, <2>1, CheckStep DEF Resolve, Calls, Reviews, PerItem, FactNames
  <1>6. CASE ResolveToken(r)
    <2> DEFINE next == IF Kind(r) = "discovery" THEN "list" ELSE "reviewGet"
    <2>1. "token" \in q(next).seen => Shape(q(next), Kind(r)) /\ Vouched(q(next), Kind(r))
      <3> HIDE DEF q
      <3> QED BY <1>1, <1>2, <1>6 DEF ResolveToken, Check, At, Shape, Vouched, Calls, Reviews, PerItem, Needed
    <2> QED BY <1>6, <2>1, CheckStep DEF ResolveToken, Calls, Reviews, PerItem, FactNames
  <1>7. CASE ReviewGet(r)
    <2>1. "get" \in q("reviewCreate").seen =>
             Shape(q("reviewCreate"), Kind(r)) /\ Vouched(q("reviewCreate"), Kind(r))
      <3> HIDE DEF q
      <3> QED BY <1>1, <1>2, <1>7 DEF ReviewGet, Check, At, Shape, Vouched, Calls, Reviews, PerItem
    <2> QED BY <1>7, <2>1, CheckStep DEF ReviewGet, Calls, Reviews, PerItem, FactNames
  <1>8. CASE ReviewCreate(r)
    <2> DEFINE next == IF Kind(r) = "table" THEN "preflight" ELSE "get"
    <2>1. "create" \in q(next).seen => Shape(q(next), Kind(r)) /\ Vouched(q(next), Kind(r))
      <3> HIDE DEF q
      <3> QED BY <1>1, <1>2, <1>3, <1>8
             DEF ReviewCreate, Check, At, Shape, Vouched, Calls, Reviews, PerItem, Needed, FactNames
    <2> QED BY <1>8, <2>1, CheckStep DEF ReviewCreate, Calls, Reviews, PerItem, FactNames
  <1>9. CASE Preflight(r)
    <2>1. "warehouse" \in q("get").seen => Shape(q("get"), Kind(r)) /\ Vouched(q("get"), Kind(r))
      <3> HIDE DEF q
      <3> QED BY <1>1, <1>2, <1>3, <1>9
             DEF Preflight, Check, At, Shape, Vouched, Calls, Reviews, PerItem, Needed, FactNames
    <2> QED BY <1>9, <2>1, CheckStep DEF Preflight, Calls, Reviews, PerItem, FactNames
  <1> QED BY <1>4, <1>5, <1>6, <1>7, <1>8, <1>9

\* The steps before the first call, and the one that answers a listing.
LEMMA EntryStep ==
    ASSUME Inv, NEW r \in Slots, ParseQuery(r) \/ Validate(r) \/ List(r)
    PROVE  Inv'
  <1> DEFINE q(stage) == Moved(req[r], stage, Facts(Caller(r)))
  <1>1. /\ req[r] \in Request /\ Shape(req[r], Kind(r)) /\ Vouched(req[r], Kind(r))
        /\ req[r].stage \in {"received", "list"} /\ faults' \in 0..MaxFaults
        /\ UNCHANGED <<obj, late, world, wiz, held, changes>>
    BY DEF Inv, Types, RequestInv, ParseQuery, Validate, List, At
  <1>2. \A stage : /\ q(stage).stage = stage /\ q(stage).items = req[r].items
                   /\ q(stage).results = req[r].results /\ req[r].seen \subseteq q(stage).seen
    BY DEF Moved
  <1>3. req[r].stage \in Stages \ (PerItem \cup {"free", "answered"})
    BY <1>1 DEF Stages, Calls, Reviews, PerItem
  <1>4. CASE Refused(r)
    BY <1>1, <1>3, <1>4, RefusedStep
  <1>5. CASE Go(r, "reviewConnection") /\ (ParseQuery(r) \/ (Validate(r) /\ ValidRequest(req[r].items)))
    <2>1. Kind(r) # "discovery" => req[r].items # <<>>
      BY <1>1, <1>5 DEF ParseQuery, ValidRequest, Request
    <2>2. Shape(q("reviewConnection"), Kind(r)) /\ Vouched(q("reviewConnection"), Kind(r))
      <3> HIDE DEF q
      <3> QED BY <1>1, <1>2, <2>1 DEF Shape, Vouched, Calls, Reviews, PerItem
    <2>3. "reviewConnection" \in Stages \ {"free"}
      BY DEF Stages, Calls, Reviews
    <2> QED BY <1>1, <1>3, <1>5, <2>2, <2>3, GoStep
  <1>6. CASE List(r)
    <2>1. Shape(q("answered"), Kind(r)) /\ Vouched(q("answered"), Kind(r))
      <3> HIDE DEF q
      <3> QED BY <1>1, <1>2, <1>6 DEF List, At, Shape, Vouched, Calls, Reviews, PerItem
    <2>2. "answered" \in Stages \ {"free"} /\ Go(r, "answered")
      BY <1>6 DEF Stages, List
    <2> QED BY <1>1, <1>3, <2>1, <2>2, GoStep
  <1>7. ParseQuery(r) => Go(r, "reviewConnection") \/ Refused(r)
    BY DEF ParseQuery
  <1>8. Validate(r) => Refused(r) \/ (Go(r, "reviewConnection") /\ ValidRequest(req[r].items))
    BY DEF Validate
  <1> QED BY <1>4, <1>5, <1>6, <1>7, <1>8
-----------------------------------------------------------------------------
(***************************************************************************)
(* Resources and what is known of them.                                    *)
(***************************************************************************)
\* The history keeps up with the resources.
LEMMA SetObjStep ==
    ASSUME Inv, NEW objects \in [Ids -> Specs \cup {None}], SetObj(objects)
    PROVE  /\ obj' \in [Ids -> Specs \cup {None}]
           /\ held \subseteq held' /\ held' \subseteq Elements
           /\ Exists(obj)' \subseteq held'
  <1>1. Exists(objects) \subseteq Elements
    BY DEF Exists, Elements
  <1> QED BY <1>1 DEF Inv, Types, SetObj, Exists

\* The item whose turn it is, and putting it in place.
LEMMA TurnType ==
    ASSUME Inv, NEW r \in Slots, req[r].stage \in PerItem
    PROVE  /\ Turn(r) \in Elements /\ Turn(r).id \in Ids /\ Turn(r).spec \in Specs
           /\ [obj EXCEPT ![Turn(r).id] = Turn(r).spec] \in [Ids -> Specs \cup {None}]
  <1>1. req[r] \in Request /\ Shape(req[r], Kind(r)) /\ obj \in [Ids -> Specs \cup {None}]
    BY DEF Inv, Types, RequestInv
  <1>2. /\ req[r].items \in Seq(Elements) /\ Len(req[r].results) \in Nat
        /\ Len(req[r].results) + 1 \in 1..Len(req[r].items)
    BY <1>1 DEF Shape, Request
  <1>3. Turn(r) \in Elements
    BY <1>2 DEF Turn
  <1>4. Turn(r).id \in Ids /\ Turn(r).spec \in Specs
    BY <1>3 DEF Elements
  <1> QED BY <1>1, <1>3, <1>4

\* What exists with the item's specification is the item, and what has another
\* one is a conflict.
LEMMA LookIsTrue ==
    ASSUME Inv, NEW item \in Elements
    PROVE  /\ obj[item.id] = item.spec => IsTrue("existing", item, held)
           /\ obj[item.id] \notin {None, item.spec} => IsTrue("conflict", item, held)
  <1> DEFINE e == [id |-> item.id, spec |-> obj[item.id]]
  <1>1. item.id \in Ids /\ item.spec \in Specs /\ item = [id |-> item.id, spec |-> item.spec]
    BY DEF Elements
  <1>2. obj[item.id] # None => e \in held
    BY <1>1 DEF Inv, Exists
  <1>3. item.spec # None
    BY <1>1, WorldAssumption
  <1> QED BY <1>1, <1>2, <1>3 DEF IsTrue

\* After the item was put in place, or while nothing is claimed, what is
\* answered is true.
LEMMA CreationIsTrue ==
    ASSUME Inv, NEW item \in Elements, SetObj([obj EXCEPT ![item.id] = item.spec])
    PROVE  IsTrue("created", item, held')
  <1>1. item.id \in Ids /\ item.spec \in Specs /\ item = [id |-> item.id, spec |-> item.spec]
    BY DEF Elements
  <1>2. item.spec # None
    BY <1>1, WorldAssumption
  <1>3. obj \in [Ids -> Specs \cup {None}]
    BY DEF Inv, Types
  <1>4. item \in Exists([obj EXCEPT ![item.id] = item.spec])
    BY <1>1, <1>2, <1>3 DEF Exists
  <1> QED BY <1>4 DEF SetObj, IsTrue
-----------------------------------------------------------------------------
(***************************************************************************)
(* The steps on an item.                                                   *)
(***************************************************************************)
\* An item is decided by a look at the resources, or fails: they stay.
LEMMA DecidedAsIs ==
    ASSUME Inv, NEW r \in Slots, NEW state \in ItemStates, Decided(r, state),
           req[r].stage \in PerItem, IsTrue(state, Turn(r), held),
           UNCHANGED <<obj, world, wiz, held, changes>>,
           late' \subseteq Elements, faults' \in 0..MaxFaults
    PROVE  Inv'
  <1>1. UNCHANGED <<obj, conn, rights, wiz, held, changes>>
    BY DEF world
  <1>2. /\ req' \in [Slots -> Request]
        /\ \A x \in Slots : RequestInv(x)'
        /\ \A c \in Callers : WizardInv(c)'
    BY <1>1, DecidedStep
  <1> QED BY <1>1, <1>2 DEF Inv, Types, Exists

\* An item is decided while it is put in place.
LEMMA DecidedInPlace ==
    ASSUME Inv, NEW r \in Slots, NEW state \in {"created", "failed"}, Decided(r, state),
           req[r].stage \in PerItem, SetObj([obj EXCEPT ![Turn(r).id] = Turn(r).spec]),
           UNCHANGED <<late, world, wiz, changes>>, faults' \in 0..MaxFaults
    PROVE  Inv'
  <1>1. UNCHANGED <<late, conn, rights, wiz, changes>>
    BY DEF world
  <1>2. /\ obj' \in [Ids -> Specs \cup {None}]
        /\ held \subseteq held' /\ held' \subseteq Elements
        /\ Exists(obj)' \subseteq held'
    BY TurnType, SetObjStep
  <1>3. IsTrue(state, Turn(r), held')
    BY TurnType, CreationIsTrue DEF IsTrue
  <1>4. state \in ItemStates
    BY DEF ItemStates
  <1>5. /\ req' \in [Slots -> Request]
        /\ \A x \in Slots : RequestInv(x)'
        /\ \A c \in Callers : WizardInv(c)'
    BY <1>1, <1>2, <1>3, <1>4, DecidedStep
  <1> QED BY <1>1, <1>2, <1>5 DEF Inv, Types

\* The next call on the same item.
LEMMA NextCall ==
    ASSUME Inv, NEW r \in Slots, req[r].stage \in PerItem, NEW stage \in {"create", "verify"},
           Go(r, stage), UNCHANGED <<obj, late, world, wiz, held, changes, faults>>
    PROVE  Inv'
  <1> DEFINE q == Moved(req[r], stage, Facts(Caller(r)))
  <1>1. /\ req[r] \in Request /\ Shape(req[r], Kind(r)) /\ Vouched(req[r], Kind(r))
        /\ faults' \in 0..MaxFaults
    BY DEF Inv, Types, RequestInv
  <1>2. /\ q.stage = stage /\ q.items = req[r].items
        /\ q.results = req[r].results /\ req[r].seen \subseteq q.seen
    BY DEF Moved
  <1>3. Shape(q, Kind(r)) /\ Vouched(q, Kind(r))
    <2> HIDE DEF q
    <2> QED BY <1>1, <1>2 DEF Shape, Vouched, Calls, Reviews, PerItem
  <1>4. stage \in Stages \ {"free"} /\ req[r].stage # "free"
    BY DEF Stages, Calls, PerItem
  <1> QED BY <1>1, <1>3, <1>4, GoStep

LEMMA ItemStep ==
    ASSUME Inv, NEW r \in Slots, Get(r) \/ Create(r) \/ Verify(r)
    PROVE  Inv'
  <1>1. req[r].stage \in PerItem /\ UNCHANGED <<late, world, wiz, changes, faults>>
    BY DEF Get, Create, Verify, At, PerItem
  <1>2. late' \subseteq Elements /\ faults' \in 0..MaxFaults /\ Turn(r) \in Elements
    BY <1>1, TurnType DEF Inv, Types
  <1>3. \A item, h : IsTrue("failed", item, h)
    BY DEF IsTrue
  <1>4. {"created", "existing", "conflict", "failed"} = ItemStates
    BY DEF ItemStates
  <1>5. CASE Decided(r, "failed") /\ UNCHANGED <<obj, held>>
    BY <1>1, <1>2, <1>3, <1>4, <1>5, DecidedAsIs
  <1>6. CASE Compare(r) /\ obj[Turn(r).id] # None /\ UNCHANGED <<obj, held>>
    <2>1. CASE obj[Turn(r).id] = Turn(r).spec
      BY <1>1, <1>2, <1>4, <1>6, <2>1, LookIsTrue, DecidedAsIs DEF Compare
    <2>2. CASE obj[Turn(r).id] # Turn(r).spec
      BY <1>1, <1>2, <1>4, <1>6, <2>2, LookIsTrue, DecidedAsIs DEF Compare
    <2> QED BY <2>1, <2>2
  <1>7. CASE (Go(r, "create") \/ Go(r, "verify")) /\ UNCHANGED <<obj, held>>
    BY <1>1, <1>7, NextCall
  <1>8. CASE Decided(r, "created") /\ SetObj([obj EXCEPT ![Turn(r).id] = Turn(r).spec])
    BY <1>1, <1>2, <1>8, DecidedInPlace
  <1> QED BY <1>5, <1>6, <1>7, <1>8 DEF Get, Create, Verify

\* A call that fails: before the items the request is refused, afterwards the
\* item fails, and a creation may have happened or happen later.
LEMMA FailureStep ==
    ASSUME Inv, NEW r \in Slots, CallFails(r)
    PROVE  Inv'
  <1>1. /\ req[r].stage \in Calls /\ UNCHANGED <<world, wiz, changes>>
        /\ faults' \in 0..MaxFaults
    BY WorldAssumption DEF CallFails, Inv, Types
  <1>2. CASE req[r].stage \notin PerItem
    <2>1. req[r].stage \in Stages \ (PerItem \cup {"free", "answered"})
      BY <1>1, <1>2 DEF Stages, Calls, Reviews, PerItem
    <2>2. Refused(r) /\ UNCHANGED <<obj, late, held>>
      BY <1>2 DEF CallFails, PerItem
    <2> QED BY <1>1, <2>1, <2>2, RefusedStep
  <1>3. CASE req[r].stage \in PerItem
    <2>1. Decided(r, "failed") /\ "failed" \in ItemStates /\ IsTrue("failed", Turn(r), held)
      BY <1>3 DEF CallFails, ItemStates, IsTrue
    <2>2. CASE UNCHANGED <<obj, held>> /\ (UNCHANGED late \/ late' = late \cup {Turn(r)})
      <3>1. late' \subseteq Elements
        BY <1>3, <2>2, TurnType DEF Inv, Types
      <3> QED BY <1>1, <1>3, <2>1, <2>2, <3>1, DecidedAsIs
    <2>3. CASE SetObj([obj EXCEPT ![Turn(r).id] = Turn(r).spec]) /\ UNCHANGED late
      BY <1>1, <1>3, <2>1, <2>3, DecidedInPlace
    <2> QED BY <2>2, <2>3 DEF CallFails
  <1> QED BY <1>2, <1>3
-----------------------------------------------------------------------------
(***************************************************************************)
(* The steps of the world.                                                 *)
(***************************************************************************)
\* A creation without a client, and everyone else's writes and changes.
LEMMA WorldSteps ==
    ASSUME Inv,
           \/ \E e \in late : Land(e)
           \/ \E id \in Ids : \E v \in Writable[id] \cup {None} : OthersWrite(id, v)
           \/ \E p \in Revocable : RightsChange(p[1], p[2])
           \/ \E n \in Connections, state \in ConnStates : ConnectionChange(n, state)
    PROVE  Inv'
  <1>1. Types /\ Exists(obj) \subseteq held
    BY DEF Inv
  <1>2. CASE \E e \in late : Land(e)
    <2>1. PICK e \in late : Land(e)
      BY <1>2
    <2>2. /\ (IF obj[e.id] = None THEN [obj EXCEPT ![e.id] = e.spec] ELSE obj)
                \in [Ids -> Specs \cup {None}]
      BY <1>1 DEF Types, Elements
    <2>3. /\ obj' \in [Ids -> Specs \cup {None}]
          /\ held \subseteq held' /\ held' \subseteq Elements
          /\ Exists(obj)' \subseteq held'
      BY <2>1, <2>2, SetObjStep DEF Land
    <2>4. late' \subseteq Elements /\ UNCHANGED <<conn, rights, req, wiz, changes, faults>>
      BY <1>1, <2>1 DEF Land, world, Types
    <2> QED BY <1>1, <2>3, <2>4, WorldStep DEF Inv, Types
  <1>3. CASE \E id \in Ids : \E v \in Writable[id] \cup {None} : OthersWrite(id, v)
    <2>1. PICK id \in Ids : \E v \in Writable[id] \cup {None} : OthersWrite(id, v)
      BY <1>3
    <2>2. PICK v \in Writable[id] \cup {None} : OthersWrite(id, v)
      BY <2>1
    <2>3. [obj EXCEPT ![id] = v] \in [Ids -> Specs \cup {None}]
      BY <1>1, WorldAssumption DEF Types
    <2>4. /\ obj' \in [Ids -> Specs \cup {None}]
          /\ held \subseteq held' /\ held' \subseteq Elements
          /\ Exists(obj)' \subseteq held'
      BY <2>2, <2>3, SetObjStep DEF OthersWrite
    <2>5. changes' \in 0..MaxChanges /\ UNCHANGED <<late, conn, rights, req, wiz, faults>>
      BY <1>1, <2>2, WorldAssumption DEF OthersWrite, world, Types
    <2> QED BY <1>1, <2>4, <2>5, WorldStep DEF Inv, Types
  <1>4. CASE \E p \in Revocable : RightsChange(p[1], p[2])
    <2>1. PICK p \in Revocable : RightsChange(p[1], p[2])
      BY <1>4
    <2>2. p[1] \in Callers /\ p[2] \in AllRights
      BY WorldAssumption
    <2>3. rights' \in [Callers -> SUBSET AllRights]
      BY <1>1, <2>1, <2>2 DEF RightsChange, Types
    <2>4. changes' \in 0..MaxChanges /\ UNCHANGED <<obj, late, conn, req, wiz, held, faults>>
      BY <1>1, <2>1, WorldAssumption DEF RightsChange, Types
    <2> QED BY <1>1, <2>3, <2>4, WorldStep DEF Inv, Types, Exists
  <1>5. CASE \E n \in Connections, state \in ConnStates : ConnectionChange(n, state)
    <2>1. PICK n \in Connections, state \in ConnStates : ConnectionChange(n, state)
      BY <1>5
    <2>2. conn' \in [Connections -> ConnStates]
      BY <1>1, <2>1 DEF ConnectionChange, Types
    <2>3. changes' \in 0..MaxChanges /\ UNCHANGED <<obj, late, rights, req, wiz, held, faults>>
      BY <1>1, <2>1, WorldAssumption DEF ConnectionChange, Types
    <2> QED BY <1>1, <2>2, <2>3, WorldStep DEF Inv, Types, Exists
  <1> QED BY <1>2, <1>3, <1>4, <1>5

-----------------------------------------------------------------------------
(***************************************************************************)
(* The steps of the clients.                                               *)
(***************************************************************************)
\* Client c and its requests move: the other clients wait for requests of
\* their own.
LEMMA ClientStep ==
    ASSUME Inv, NEW c \in Callers, wiz' \in [Callers -> Wizard], req' \in [Slots -> Request],
           \A d \in Callers \ {c} : wiz'[d] = wiz[d],
           \A x \in Slots : req'[x] = req[x] \/ (Caller(x) = c /\ RequestInv(x)'),
           WizardInv(c)', UNCHANGED <<obj, late, world, held>>,
           changes' \in 0..MaxChanges, faults' \in 0..MaxFaults
    PROVE  Inv'
  <1>1. Types /\ UNCHANGED <<obj, late, conn, rights, held>>
    BY DEF Inv, world
  <1>2. ASSUME NEW x \in Slots PROVE RequestInv(x)'
    <2>1. RequestInv(x)
      BY DEF Inv
    <2> QED BY <1>1, <2>1 DEF RequestInv, Kind, Caller
  <1>3. ASSUME NEW d \in Callers PROVE WizardInv(d)'
    <2>1. CASE d = c
      BY <2>1
    <2>2. CASE d # c
      <3>1. WizardInv(d) /\ wiz[d] \in Wizard /\ wiz'[d] = wiz[d]
        BY <1>1, <2>2 DEF Inv, Types
      <3>2. wiz[d].waiting # None =>
               wiz[d].waiting \in Slots /\ req'[wiz[d].waiting] = req[wiz[d].waiting]
        BY <2>2, <3>1 DEF WizardInv, Wizard
      <3> QED BY <1>1, <3>1, <3>2 DEF WizardInv, Caller
    <2> QED BY <2>1, <2>2
  <1> QED BY <1>1, <1>2, <1>3 DEF Inv, Types, Exists

LEMMA FreeIsFine == Free \in Request /\ \A kind, h : Shape(Free, kind) /\ Vouched(Free, kind) /\ Truthful(Free, h)
  <1>1. Free \in Request
    BY DEF Free, Request, Stages
  <1>2. ASSUME NEW kind, NEW h PROVE Shape(Free, kind) /\ Vouched(Free, kind) /\ Truthful(Free, h)
    BY DEF Free, Shape, Vouched, Truthful, Calls, Reviews, PerItem
  <1> QED BY <1>1, <1>2

LEMMA CancelledRequest ==
    ASSUME NEW q \in Request, NEW flag
    PROVE  [q EXCEPT !.cancelled = flag]
              = [stage |-> q.stage, items |-> q.items, results |-> q.results,
                 seen |-> q.seen, cancelled |-> flag]
  BY DEF Request

\* The server notices that a client has gone, or drops its answer.
LEMMA AbandonedStep ==
    ASSUME Inv, NEW r \in Slots, Cancel(r) \/ Drop(r)
    PROVE  Inv'
  <1> DEFINE c == Caller(r)
  <1>1. /\ Types /\ req[r] \in Request /\ RequestInv(r) /\ c \in Callers /\ WizardInv(c)
        /\ UNCHANGED <<obj, late, world, wiz, held, changes, faults>>
        /\ wiz[c] \in Wizard /\ wiz[c].waiting # r
    BY CallersAssumption DEF Inv, Types, Caller, Cancel, Drop, Abandoned
  <1>2. wiz' \in [Callers -> Wizard] /\ changes' \in 0..MaxChanges /\ faults' \in 0..MaxFaults
    BY <1>1 DEF Types
  <1> DEFINE q == IF Cancel(r)
                  THEN [stage |-> req[r].stage, items |-> req[r].items, results |-> req[r].results,
                        seen |-> req[r].seen, cancelled |-> TRUE]
                  ELSE Free
  <1>3. q \in Request /\ req' = [req EXCEPT ![r] = q]
    <2>1. CASE Cancel(r)
      <3>1. req' = [req EXCEPT ![r] = [req[r] EXCEPT !.cancelled = TRUE]]
        BY <1>1, <2>1 DEF Cancel
      <3>2. [req[r] EXCEPT !.cancelled = TRUE]
              = [stage |-> req[r].stage, items |-> req[r].items, results |-> req[r].results,
                 seen |-> req[r].seen, cancelled |-> TRUE]
        BY <1>1, CancelledRequest
      <3> QED BY <1>1, <2>1, <3>1, <3>2 DEF Request
    <2>2. CASE ~Cancel(r)
      BY <2>2, FreeIsFine DEF Drop
    <2> QED BY <2>1, <2>2
  <1>4. Shape(q, Kind(r)) /\ Vouched(q, Kind(r)) /\ Truthful(q, held)
    <2>1. CASE Cancel(r)
      BY <1>1, <2>1 DEF Cancel, RequestInv, Shape, Vouched, Truthful, Calls, Reviews, PerItem
    <2>2. CASE ~Cancel(r)
      BY <2>2, FreeIsFine
    <2> QED BY <2>1, <2>2
  <1> HIDE DEF q
  <1>5. req' \in [Slots -> Request] /\ req'[r] = q /\ \A x \in Slots : x # r => req'[x] = req[x]
    BY <1>1, <1>3 DEF Types
  <1>6. RequestInv(r)'
    BY <1>1, <1>4, <1>5 DEF RequestInv, Kind, Caller
  <1>7. WizardInv(c)'
    <2>1. wiz[c].waiting # None => req'[wiz[c].waiting] = req[wiz[c].waiting]
      BY <1>1, <1>5 DEF Wizard
    <2> QED BY <1>1, <2>1 DEF WizardInv, Caller
  <1> HIDE DEF c
  <1>8. \A x \in Slots : req'[x] = req[x] \/ (Caller(x) = c /\ RequestInv(x)')
    BY <1>5, <1>6 DEF c
  <1> QED BY <1>1, <1>2, <1>5, <1>7, <1>8, ClientStep

\* A client that rests again, with results that are true of its items.
LEMMA RestStep ==
    ASSUME Inv, NEW c \in Callers, NEW results \in Seq(ItemStates),
           wiz' = [wiz EXCEPT ![c] = [Resting EXCEPT !.results = results]],
           Len(results) \in {0, Len(Items[c])},
           c \in Wizards => \A i \in 1..Len(results) : IsTrue(results[i], Normalize(c, i), held),
           \/ UNCHANGED req
           \/ \E r \in Slots : Caller(r) = c /\ req' = [req EXCEPT ![r] = Free],
           UNCHANGED <<obj, late, world, held>>,
           changes' \in 0..MaxChanges, faults' \in 0..MaxFaults
    PROVE  Inv'
  <1> DEFINE w == [waiting |-> None, sent |-> <<>>, results |-> results]
  <1>1. Types
    BY DEF Inv
  <1>2. w \in Wizard /\ wiz' = [wiz EXCEPT ![c] = w]
    <2>1. [Resting EXCEPT !.results = results] = w
      BY DEF Resting
    <2>2. w \in Wizard
      BY DEF Wizard
    <2> QED BY <2>1, <2>2
  <1>3. wiz' \in [Callers -> Wizard] /\ wiz'[c] = w /\ \A d \in Callers \ {c} : wiz'[d] = wiz[d]
    BY <1>1, <1>2 DEF Types
  <1>4. WizardInv(c)'
    BY <1>3 DEF WizardInv
  <1>5. /\ req' \in [Slots -> Request]
        /\ \A x \in Slots : req'[x] = req[x] \/ (Caller(x) = c /\ RequestInv(x)')
    <2>1. CASE UNCHANGED req
      BY <1>1, <2>1 DEF Types
    <2>2. CASE \E r \in Slots : Caller(r) = c /\ req' = [req EXCEPT ![r] = Free]
      <3>1. PICK r \in Slots : Caller(r) = c /\ req' = [req EXCEPT ![r] = Free]
        BY <2>2
      <3>2. req' \in [Slots -> Request] /\ req'[r] = Free /\ \A x \in Slots : x # r => req'[x] = req[x]
        BY <1>1, <3>1, FreeIsFine DEF Types
      <3>3. RequestInv(r)'
        BY <3>2, FreeIsFine DEF RequestInv
      <3> QED BY <3>1, <3>2, <3>3
    <2> QED BY <2>1, <2>2
  <1> QED BY <1>3, <1>4, <1>5, ClientStep

\* Without an answer, every item has a result, and a true one.
LEMMA UnansweredIsTrue ==
    ASSUME Inv, NEW c \in Wizards
    PROVE  /\ Unanswered(c) \in Seq(ItemStates) /\ Len(Unanswered(c)) = Len(Items[c])
           /\ \A i \in 1..Len(Items[c]) : IsTrue(Unanswered(c)[i], Normalize(c, i), held)
  <1>1. c \in Callers /\ Len(Items[c]) \in Nat
    BY CallersAssumption, ItemsAssumption
  <1>2. wiz[c].results \in Seq(ItemStates) /\ WizardInv(c)
    BY <1>1 DEF Inv, Types, Wizard
  <1>3. CASE wiz[c].results = <<>>
    <2>1. AllFailed(c) \in Seq(ItemStates) /\ Len(AllFailed(c)) = Len(Items[c])
      BY <1>1 DEF AllFailed, ItemStates
    <2>2. \A i \in 1..Len(Items[c]) : IsTrue(AllFailed(c)[i], Normalize(c, i), held)
      BY DEF AllFailed, IsTrue
    <2> QED BY <1>3, <2>1, <2>2 DEF Unanswered
  <1>4. CASE wiz[c].results # <<>>
    BY <1>1, <1>2, <1>4 DEF Unanswered, WizardInv
  <1> QED BY <1>3, <1>4

\* A retry renumbers the items; its results go back to where they belong.
LEMMA MergeIsTrue ==
    ASSUME NEW c \in Callers, NEW shown \in Seq(ItemStates), NEW batch \in Seq(1..Len(Items[c])),
           NEW results \in Seq(ItemStates), NEW h,
           Len(shown) = Len(Items[c]), Len(results) = Len(batch),
           \A i \in 1..Len(shown) : IsTrue(shown[i], Normalize(c, i), h),
           \A j \in 1..Len(batch) : IsTrue(results[j], Normalize(c, batch[j]), h)
    PROVE  LET merged == Merge(shown, batch, results) IN
           /\ merged \in Seq(ItemStates) /\ Len(merged) = Len(Items[c])
           /\ \A i \in 1..Len(merged) : IsTrue(merged[i], Normalize(c, i), h)
  <1> DEFINE merged == Merge(shown, batch, results)
  <1>1. Len(shown) \in Nat
    OBVIOUS
  <1>2. ASSUME NEW i \in 1..Len(shown)
        PROVE  merged[i] \in ItemStates /\ IsTrue(merged[i], Normalize(c, i), h)
    <2>1. CASE \E j \in 1..Len(batch) : batch[j] = i
      <3> DEFINE j == CHOOSE j \in 1..Len(batch) : batch[j] = i
      <3>1. j \in 1..Len(batch) /\ batch[j] = i
        BY <2>1
      <3>2. merged[i] = results[j]
        BY <2>1 DEF Merge
      <3> HIDE DEF j, merged
      <3> QED BY <3>1, <3>2
    <2>2. CASE ~\E j \in 1..Len(batch) : batch[j] = i
      <3>1. merged[i] = shown[i]
        BY <2>2 DEF Merge
      <3> HIDE DEF merged
      <3> QED BY <3>1
    <2> QED BY <2>1, <2>2
  <1>3. merged \in [1..Len(shown) -> ItemStates]
    <2>1. merged = [i \in 1..Len(shown) |-> merged[i]]
      BY DEF Merge
    <2> HIDE DEF merged
    <2> QED BY <1>2, <2>1
  <1> HIDE DEF merged
  <1>4. merged \in Seq(ItemStates) /\ Len(merged) = Len(shown)
    BY <1>1, <1>3
  <1>5. \A i \in 1..Len(merged) : IsTrue(merged[i], Normalize(c, i), h)
    BY <1>2, <1>4
  <1> QED BY <1>4, <1>5 DEF merged

\* A client receives its answer, gives up waiting, or is closed.
LEMMA ReceiveStep ==
    ASSUME Inv, NEW c \in Callers, Receive(c)
    PROVE  Inv'
  <1> DEFINE r == wiz[c].waiting
  <1>1. /\ Types /\ WizardInv(c) /\ wiz[c] \in Wizard /\ r \in Slots /\ Caller(r) = c
        /\ req[r] \in Request /\ RequestInv(r)
    BY DEF Inv, Types, Wizard, WizardInv, Receive
  <1>2. /\ wiz' = [wiz EXCEPT ![c] = [Resting EXCEPT !.results = Shown(c, r)]]
        /\ req' = [req EXCEPT ![r] = Free]
        /\ UNCHANGED <<obj, late, world, held, changes, faults>>
        /\ req[r].stage \in {"refused", "answered"}
    BY DEF Receive
  <1>3. changes' \in 0..MaxChanges /\ faults' \in 0..MaxFaults
    BY <1>1, <1>2 DEF Types
  <1>4. /\ Shown(c, r) \in Seq(ItemStates) /\ Len(Shown(c, r)) \in {0, Len(Items[c])}
        /\ c \in Wizards => \A i \in 1..Len(Shown(c, r)) : IsTrue(Shown(c, r)[i], Normalize(c, i), held)
    <2>1. CASE c \notin Wizards
      BY <1>1, <2>1 DEF Shown, WizardInv, Wizard
    <2>2. CASE c \in Wizards /\ req[r].stage = "refused"
      BY <2>2, UnansweredIsTrue DEF Shown
    <2>3. CASE c \in Wizards /\ req[r].stage = "answered"
      <3>1. /\ wiz[c].sent \in Seq(1..Len(Items[c]))
            /\ req[r].items = [j \in DOMAIN wiz[c].sent |-> Normalize(c, wiz[c].sent[j])]
            /\ req[r].results \in Seq(ItemStates) /\ Len(req[r].results) = Len(req[r].items)
            /\ Truthful(req[r], held)
        BY <1>1, <1>2, <2>3 DEF WizardInv, RequestInv, Shape, Request, Receive
      <3>2. Len(req[r].items) = Len(wiz[c].sent)
        BY <3>1
      <3>3. \A j \in 1..Len(wiz[c].sent) :
               IsTrue(req[r].results[j], Normalize(c, wiz[c].sent[j]), held)
        <4> SUFFICES ASSUME NEW j \in 1..Len(wiz[c].sent)
                     PROVE  IsTrue(req[r].results[j], Normalize(c, wiz[c].sent[j]), held)
          OBVIOUS
        <4>1. req[r].items[j] = Normalize(c, wiz[c].sent[j])
          BY <3>1
        <4>2. IsTrue(req[r].results[j], req[r].items[j], held)
          BY <3>1, <3>2 DEF Truthful
        <4> QED BY <4>1, <4>2
      <3>4. Shown(c, r) = Merge(Unanswered(c), wiz[c].sent, req[r].results)
        BY <2>3 DEF Shown
      <3>5. Len(req[r].results) = Len(wiz[c].sent)
        BY <3>1, <3>2
      <3>6. /\ Unanswered(c) \in Seq(ItemStates) /\ Len(Unanswered(c)) = Len(Items[c])
            /\ \A i \in 1..Len(Unanswered(c)) : IsTrue(Unanswered(c)[i], Normalize(c, i), held)
        BY <2>3, UnansweredIsTrue
      <3> DEFINE shown == Unanswered(c)
                 batch == wiz[c].sent
                 results == req[r].results
                 merged == Merge(shown, batch, results)
      <3>7. /\ merged \in Seq(ItemStates) /\ Len(merged) = Len(Items[c])
            /\ \A i \in 1..Len(merged) : IsTrue(merged[i], Normalize(c, i), held)
        <4>1. /\ shown \in Seq(ItemStates) /\ batch \in Seq(1..Len(Items[c]))
              /\ results \in Seq(ItemStates)
              /\ Len(shown) = Len(Items[c]) /\ Len(results) = Len(batch)
              /\ \A i \in 1..Len(shown) : IsTrue(shown[i], Normalize(c, i), held)
              /\ \A j \in 1..Len(batch) : IsTrue(results[j], Normalize(c, batch[j]), held)
          BY <3>1, <3>3, <3>5, <3>6
        <4> HIDE DEF shown, batch, results
        <4> QED BY <4>1, MergeIsTrue
      <3> HIDE DEF merged
      <3> QED BY <3>4, <3>7 DEF merged
    <2> QED BY <1>2, <2>1, <2>2, <2>3
  <1> HIDE DEF r
  <1> QED BY <1>1, <1>2, <1>3, <1>4, RestStep

LEMMA GoneStep ==
    ASSUME Inv, NEW c \in Callers, GiveUp(c) \/ Leave(c)
    PROVE  Inv'
  <1>1. Types /\ WizardInv(c) /\ wiz[c] \in Wizard
    BY DEF Inv, Types
  <1>2. CASE GiveUp(c)
    <2> DEFINE results == IF c \in Wizards THEN Unanswered(c) ELSE <<>>
    <2>1. /\ wiz' = [wiz EXCEPT ![c] = [Resting EXCEPT !.results = results]]
          /\ UNCHANGED <<obj, late, world, req, held, changes>>
      BY <1>2 DEF GiveUp, Resting
    <2>2. changes' \in 0..MaxChanges /\ faults' \in 0..MaxFaults
      BY <1>1, <1>2, <2>1, WorldAssumption DEF Types, GiveUp
    <2>3. /\ results \in Seq(ItemStates) /\ Len(results) \in {0, Len(Items[c])}
          /\ c \in Wizards => \A i \in 1..Len(results) : IsTrue(results[i], Normalize(c, i), held)
      BY UnansweredIsTrue
    <2> HIDE DEF results
    <2> QED BY <2>1, <2>2, <2>3, RestStep
  <1>3. CASE Leave(c)
    <2>1. wiz' = [wiz EXCEPT ![c] = [Resting EXCEPT !.results = <<>>]]
      <3>1. [Resting EXCEPT !.results = <<>>] = Resting
        BY DEF Resting
      <3> QED BY <1>3, <3>1 DEF Leave
    <2>2. /\ changes' \in 0..MaxChanges /\ faults' \in 0..MaxFaults
          /\ UNCHANGED <<obj, late, world, req, held>>
      BY <1>1, <1>3, WorldAssumption DEF Types, Leave
    <2> DEFINE results == <<>>
    <2>3. /\ results \in Seq(ItemStates) /\ Len(results) = 0
          /\ wiz' = [wiz EXCEPT ![c] = [Resting EXCEPT !.results = results]]
          /\ \A i \in 1..Len(results) : IsTrue(results[i], Normalize(c, i), held)
      BY <2>1
    <2> HIDE DEF results
    <2> QED BY <2>2, <2>3, RestStep
  <1> QED BY <1>2, <1>3

LEMMA ReceivedRequest ==
    ASSUME NEW q \in Request, NEW stage, NEW items
    PROVE  [q EXCEPT !.stage = stage, !.items = items]
              = [stage |-> stage, items |-> items, results |-> q.results,
                 seen |-> q.seen, cancelled |-> q.cancelled]
  <1> DEFINE p == [stage |-> stage, items |-> q.items, results |-> q.results,
                   seen |-> q.seen, cancelled |-> q.cancelled]
             t == [stage |-> stage, items |-> items, results |-> q.results,
                   seen |-> q.seen, cancelled |-> q.cancelled]
  <1>1. [q EXCEPT !.stage = stage] = p
    BY DEF Request
  <1>2. [p EXCEPT !.items = items] = t
    OBVIOUS
  <1>3. [[q EXCEPT !.stage = stage] EXCEPT !.items = items] = t
    BY <1>1, <1>2
  <1> QED BY <1>3

LEMMA WaitingClient ==
    ASSUME NEW w \in Wizard, NEW r, NEW batch
    PROVE  [w EXCEPT !.waiting = r, !.sent = batch]
              = [waiting |-> r, sent |-> batch, results |-> w.results]
  <1> DEFINE p == [waiting |-> r, sent |-> w.sent, results |-> w.results]
             t == [waiting |-> r, sent |-> batch, results |-> w.results]
  <1>1. [w EXCEPT !.waiting = r] = p
    BY DEF Wizard
  <1>2. [p EXCEPT !.sent = batch] = t
    OBVIOUS
  <1>3. [[w EXCEPT !.waiting = r] EXCEPT !.sent = batch] = t
    BY <1>1, <1>2
  <1> QED BY <1>3

\* A client without a request under way sends items it knows of.
LEMMA SendStep ==
    ASSUME Inv, NEW r \in Slots, NEW batch \in Seq(1..Len(Items[Caller(r)])), Send(r, batch),
           changes' \in 0..MaxChanges
    PROVE  Inv'
  <1> DEFINE c == Caller(r)
             items == [j \in DOMAIN batch |-> Normalize(c, batch[j])]
             q == [stage |-> "received", items |-> items, results |-> <<>>,
                   seen |-> {}, cancelled |-> FALSE]
             w == [waiting |-> r, sent |-> batch, results |-> wiz[c].results]
  <1>1. /\ Types /\ c \in Callers /\ wiz[c] \in Wizard /\ WizardInv(c)
        /\ req[r] = Free /\ UNCHANGED <<obj, late, world, held, faults>>
    BY CallersAssumption DEF Inv, Types, Caller, Send, RequestInv, Shape
  <1>2. /\ Len(Items[c]) \in Nat /\ \A i \in 1..Len(Items[c]) : Normalize(c, i) \in Elements
        /\ KindOf[c] = "discovery" => Len(Items[c]) = 0
    BY <1>1, ItemsAssumption
  <1>3. items \in Seq(Elements) /\ Len(items) = Len(batch)
    <2>1. DOMAIN batch = 1..Len(batch) /\ \A j \in 1..Len(batch) : batch[j] \in 1..Len(Items[c])
      OBVIOUS
    <2>2. Len(batch) \in Nat
      OBVIOUS
    <2> HIDE DEF c
    <2> QED BY <1>2, <2>1, <2>2
  <1>4. KindOf[c] = "discovery" => items = <<>>
    BY <1>2, <1>3
  <1> HIDE DEF items
  <1>5. req' = [req EXCEPT ![r] = q]
    <2>1. req' = [req EXCEPT ![r] = [Free EXCEPT !.stage = "received", !.items = items]]
      BY <1>1 DEF Send, items, Types
    <2>2. [Free EXCEPT !.stage = "received", !.items = items] = q
      <3>1. Free \in Request /\ Free.results = <<>> /\ Free.seen = {} /\ Free.cancelled = FALSE
        BY FreeIsFine DEF Free
      <3>2. [Free EXCEPT !.stage = "received", !.items = items]
               = [stage |-> "received", items |-> items, results |-> Free.results,
                  seen |-> Free.seen, cancelled |-> Free.cancelled]
        BY <3>1, ReceivedRequest
      <3> QED BY <3>1, <3>2
    <2> QED BY <2>1, <2>2
  <1>6. wiz' = [wiz EXCEPT ![c] = w]
    <2>1. wiz' = [wiz EXCEPT ![c] = [wiz[c] EXCEPT !.waiting = r, !.sent = batch]]
      BY <1>1 DEF Send, Types
    <2>2. [wiz[c] EXCEPT !.waiting = r, !.sent = batch] = w
      BY <1>1, WaitingClient
    <2> QED BY <2>1, <2>2
  <1>7. q \in Request /\ w \in Wizard
    <2>1. q \in Request
      BY <1>3 DEF Request, Stages
    <2>2. batch \in Seq(Nat)
      OBVIOUS
    <2>3. w \in Wizard
      BY <1>1, <2>2 DEF Wizard
    <2> QED BY <2>1, <2>3
  <1>8. Shape(q, Kind(r)) /\ Vouched(q, Kind(r)) /\ Truthful(q, held)
    BY <1>3, <1>4 DEF Shape, Vouched, Truthful, Calls, Reviews, PerItem, Kind
  <1>9. /\ wiz' \in [Callers -> Wizard] /\ req' \in [Slots -> Request]
        /\ wiz'[c] = w /\ \A d \in Callers \ {c} : wiz'[d] = wiz[d]
        /\ req'[r] = q /\ \A x \in Slots : x # r => req'[x] = req[x]
    BY <1>1, <1>5, <1>6, <1>7 DEF Types
  <1>10. RequestInv(r)'
    BY <1>1, <1>8, <1>9 DEF RequestInv, Kind, Caller
  <1>11. WizardInv(c)'
    <2>1. r # None
      BY WorldAssumption
    <2> QED BY <1>1, <1>9, <2>1 DEF WizardInv, items, Caller
  <1>12. \A x \in Slots : req'[x] = req[x] \/ (Caller(x) = c /\ RequestInv(x)')
    BY <1>9, <1>10
  <1>13. faults' \in 0..MaxFaults
    BY <1>1 DEF Types
  <1> HIDE DEF c, q, w
  <1> QED BY <1>1, <1>9, <1>11, <1>12, <1>13, ClientStep

LEMMA FirstStep ==
    ASSUME Inv, NEW r \in Slots, Register(r)
    PROVE  Inv'
  <1>1. PICK batch \in Batches[Caller(r)] :
           /\ Send(r, batch)
           /\ IF Caller(r) \in Wizards THEN UNCHANGED changes
              ELSE changes < MaxChanges /\ changes' = changes + 1
    BY DEF Register
  <1>2. batch \in Seq(1..Len(Items[Caller(r)]))
    BY CallersAssumption, ItemsAssumption DEF Caller
  <1>3. changes' \in 0..MaxChanges
    BY <1>1, WorldAssumption DEF Inv, Types
  <1> QED BY <1>1, <1>2, <1>3, SendStep

\* A retry sends positions of the review, in the order of the review.
LEMMA RetryBatch ==
    ASSUME Inv, NEW r \in Slots, RetryFailed(r)
    PROVE  \E batch \in Seq(1..Len(Items[Caller(r)])) : Send(r, batch)
  <1> DEFINE c == Caller(r)
             failed == Retryable(c)
  <1>1. c \in Callers /\ wiz[c] \in Wizard /\ WizardInv(c) /\ Len(Items[c]) \in Nat
    BY CallersAssumption, ItemsAssumption DEF Inv, Types, Caller
  <1>2. Len(wiz[c].results) \in Nat /\ failed \subseteq 1..Len(wiz[c].results) /\ failed # {}
    BY <1>1 DEF Retryable, RetryFailed, Wizard
  <1>3. failed \subseteq 1..Len(Items[c])
    BY <1>1, <1>2 DEF WizardInv
  <1>4. Cardinality(failed) \in Nat
    <2>1. IsFiniteSet(1..Len(wiz[c].results))
      BY <1>2, FS_Interval
    <2> QED BY <1>2, <2>1, FS_Subset, FS_CardinalityType
  <1>5. PICK batch \in [1..Cardinality(failed) -> failed] : Send(r, batch)
    BY DEF RetryFailed
  <1> HIDE DEF failed
  <1>6. batch \in Seq(1..Len(Items[c]))
    <2>1. batch \in [1..Cardinality(failed) -> 1..Len(Items[c])]
      BY <1>3
    <2> HIDE DEF c
    <2> QED BY <1>4, <2>1
  <1> QED BY <1>5, <1>6

LEMMA RetryStep ==
    ASSUME Inv, NEW r \in Slots, RetryFailed(r)
    PROVE  Inv'
  <1>1. PICK batch \in Seq(1..Len(Items[Caller(r)])) : Send(r, batch)
    BY RetryBatch
  <1>2. changes' \in 0..MaxChanges
    BY DEF RetryFailed, Inv, Types
  <1> QED BY <1>1, <1>2, SendStep
-----------------------------------------------------------------------------
(***************************************************************************)
(* The invariant holds.                                                    *)
(***************************************************************************)
LEMMA InitInv == Init => Inv
  <1> SUFFICES ASSUME Init PROVE Inv
    OBVIOUS
  <1>1. obj \in [Ids -> Specs \cup {None}] /\ held = Exists(obj) /\ held \subseteq Elements
    BY WorldAssumption DEF Init, Exists, Elements
  <1>2. conn \in [Connections -> ConnStates] /\ rights \in [Callers -> SUBSET AllRights]
    BY DEF Init, Usable, ConnStates
  <1>3. req \in [Slots -> Request] /\ \A r \in Slots : RequestInv(r)
    BY FreeIsFine DEF Init, RequestInv
  <1>4. wiz \in [Callers -> Wizard] /\ \A c \in Callers : WizardInv(c)
    <2>1. Resting \in Wizard /\ Resting.waiting = None /\ Resting.sent = <<>> /\ Resting.results = <<>>
      BY DEF Resting, Wizard
    <2>2. wiz \in [Callers -> Wizard] /\ \A c \in Callers : wiz[c] = Resting
      BY <2>1 DEF Init
    <2> QED BY <2>1, <2>2 DEF WizardInv
  <1>5. late \subseteq Elements /\ changes \in 0..MaxChanges /\ faults \in 0..MaxFaults
    BY WorldAssumption DEF Init
  <1> QED BY <1>1, <1>2, <1>3, <1>4, <1>5 DEF Inv, Types

LEMMA NextInv == Inv /\ [Next]_vars => Inv'
  <1> SUFFICES ASSUME Inv, [Next]_vars PROVE Inv'
    OBVIOUS
  <1>1. ASSUME NEW r \in Slots, Serve(r) PROVE Inv'
    BY <1>1, EntryStep, ReviewsStep, ItemStep, AbandonedStep, FailureStep DEF Serve
  <1>2. ASSUME NEW r \in Slots, CallFails(r) PROVE Inv'
    BY <1>2, FailureStep
  <1>3. ASSUME NEW r \in Slots, Register(r) \/ RetryFailed(r) PROVE Inv'
    BY <1>3, FirstStep, RetryStep
  <1>4. ASSUME NEW c \in Callers, Receive(c) \/ GiveUp(c) \/ Leave(c) PROVE Inv'
    BY <1>4, ReceiveStep, GoneStep
  <1>5. CASE UNCHANGED vars
    <2>1. UNCHANGED <<obj, late, conn, rights, req, wiz, held, changes, faults>>
      BY <1>5 DEF vars
    <2> QED BY <2>1, WorldStep DEF Inv, Types, Exists
  <1> QED BY <1>1, <1>2, <1>3, <1>4, <1>5, WorldSteps DEF Next

\* The inductive invariant holds in every reachable state.
THEOREM InvCorrect == Spec => []Inv
  BY InitInv, NextInv, PTL DEF Spec

\* In every state of bulk registration, for any callers, items and bounds, the
\* state has its type, a request never has more results than items and one per
\* item once answered, and a client waits for a request that is under way.
THEOREM TypeCorrect == Spec => []TypeOK
  <1>1. Inv => TypeOK
    <2> SUFFICES ASSUME Inv PROVE TypeOK
      OBVIOUS
    <2>1. ASSUME NEW r \in Slots
          PROVE  /\ Len(req[r].results) <= Len(req[r].items)
                 /\ req[r].stage = "answered" => Len(req[r].results) = Len(req[r].items)
      <3>1. req[r] \in Request /\ Shape(req[r], Kind(r))
        BY DEF Inv, Types, RequestInv
      <3>2. Len(req[r].results) \in Nat /\ Len(req[r].items) \in Nat
        BY <3>1 DEF Request
      <3> QED BY <3>1, <3>2 DEF Shape
    <2>2. \A c \in Callers :
             /\ wiz[c].waiting # None => req[wiz[c].waiting].stage # "free"
             /\ wiz[c].sent \in Seq(1..Len(Items[c]))
             /\ Len(wiz[c].results) \in {0, Len(Items[c])}
      BY DEF Inv, WizardInv
    <2> QED BY <2>1, <2>2 DEF Inv, Types, TypeOK
  <1> QED BY <1>1, InvCorrect, PTL

\* Whatever rights, Connections and Warehouses do between the calls of a
\* request, no item is looked at and no page fetched (registerOne, the
\* discovery handlers) before each fact it rests on was seen to hold.
THEOREM VouchedCorrect == Spec => []WorkIsVouched
  <1>1. Inv => WorkIsVouched
    BY DEF Inv, RequestInv, Vouched, WorkIsVouched
  <1> QED BY <1>1, InvCorrect, PTL

\* Through retries, lost answers and abandoned requests, what the import wizard
\* shows of an item (materializeRegistrationResults, mergeRegistrationResults)
\* is true of that item.
THEOREM ShownCorrect == Spec => []ShownIsTrue
  <1>1. Inv => ShownIsTrue
    <2> SUFFICES ASSUME Inv, NEW c \in Wizards, NEW i \in DOMAIN wiz[c].results
                 PROVE  IsTrue(wiz[c].results[i], Normalize(c, i), held)
      BY DEF ShownIsTrue, IsTrue
    <2>1. c \in Callers /\ wiz[c].results \in Seq(ItemStates) /\ WizardInv(c)
      BY CallersAssumption DEF Inv, Types, Wizard
    <2>2. i \in 1..Len(wiz[c].results)
      BY <2>1
    <2> QED BY <2>1, <2>2 DEF WizardInv
  <1> QED BY <1>1, InvCorrect, PTL
-----------------------------------------------------------------------------
(***************************************************************************)
(* The contract is implemented.  `call' is what the contract sees of the   *)
(* requests: nothing of the calls between arrival and answer.              *)
(***************************************************************************)
CallOf(q) ==
    [status  |-> IF q.stage \in {"free", "refused"} THEN q.stage ELSE "open",
     items   |-> q.items,
     answers |-> q.results]

call == [r \in Slots |-> CallOf(req[r])]

ToContract == [Registry!ContractNext]_(Registry!contractVars)

\* The actions of the contract in terms of `call'.
LEMMA ContractStutters ==
    ASSUME UNCHANGED <<obj, late, changes, call>>
    PROVE  ToContract
  BY DEF ToContract, Registry!contractVars, call, CallOf

LEMMA ContractRefuses ==
    ASSUME NEW r \in Slots, call[r].status = "open", call[r].answers = <<>>,
           call' = [call EXCEPT ![r].status = "refused"], UNCHANGED <<obj, late, changes>>
    PROVE  ToContract
  <1>1. Registry!Refuse(r)
    BY DEF Registry!Refuse, call, CallOf
  <1> QED BY <1>1 DEF ToContract, Registry!ContractNext

LEMMA ContractReleases ==
    ASSUME NEW r \in Slots,
           \/ call[r].status = "refused"
           \/ call[r].status = "open" /\ Len(call[r].answers) = Len(call[r].items),
           call' = [call EXCEPT ![r] = CallOf(Free)], UNCHANGED <<obj, late, changes>>
    PROVE  ToContract
  <1>1. CallOf(Free) = Registry!IdleCall
    BY DEF CallOf, Free, Registry!IdleCall
  <1>2. Registry!Release(r)
    BY <1>1 DEF Registry!Release, call, CallOf
  <1> QED BY <1>2 DEF ToContract, Registry!ContractNext

LEMMA ContractBegins ==
    ASSUME NEW r \in Slots, call[r].status = "free", NEW items \in Seq(Elements),
           call' = [call EXCEPT ![r] = [status |-> "open", answers |-> <<>>, items |-> items]],
           changes' \in {changes, changes + 1}, UNCHANGED <<obj, late>>
    PROVE  ToContract
  <1>1. call'[r].items = items
    BY DEF call
  <1>2. Registry!Begin(r)
    BY <1>1 DEF Registry!Begin, Elements, call, CallOf
  <1> QED BY <1>2 DEF ToContract, Registry!ContractNext

LEMMA ContractOthers ==
    ASSUME changes' = changes + 1,
           \E id \in Ids, v \in Specs \cup {None} : obj' = [obj EXCEPT ![id] = v],
           UNCHANGED <<late, call>>
    PROVE  ToContract
  <1>1. Registry!Others
    BY DEF Registry!Others, call, CallOf
  <1> QED BY <1>1 DEF ToContract, Registry!ContractNext

\* A change of rights or of a Connection leaves every resource as it is.
LEMMA SameObjects ==
    ASSUME Inv, UNCHANGED obj
    PROVE  \E id \in Ids, v \in Specs \cup {None} : obj' = [obj EXCEPT ![id] = v]
  <1>1. PICK id \in Ids : TRUE
    BY WorldAssumption
  <1>2. obj[id] \in Specs \cup {None} /\ obj' = [obj EXCEPT ![id] = obj[id]]
    BY DEF Inv, Types
  <1> QED BY <1>2

LEMMA ContractLands ==
    ASSUME NEW e \in late, late' = late \ {e},
           obj' = IF obj[e.id] = None THEN [obj EXCEPT ![e.id] = e.spec] ELSE obj,
           UNCHANGED <<changes, call>>
    PROVE  ToContract
  <1>1. Registry!Land(e)
    BY DEF Registry!Land, call, CallOf
  <1> QED BY <1>1 DEF ToContract, Registry!ContractNext

\* One indivisible look at the item's resource decides it.
LEMMA ContractDecides ==
    ASSUME NEW r \in Slots, NEW state \in ItemStates, call[r].status = "open",
           Len(call[r].answers) < Len(call[r].items),
           call' = [call EXCEPT ![r].answers = Append(@, state)], UNCHANGED changes,
           LET item == call[r].items[Len(call[r].answers) + 1] IN
             \/ state = "existing" /\ obj[item.id] = item.spec /\ UNCHANGED <<obj, late>>
             \/ state = "conflict" /\ obj[item.id] \notin {None, item.spec} /\ UNCHANGED <<obj, late>>
             \/ state = "failed" /\ UNCHANGED <<obj, late>>
             \/ state = "failed" /\ late' = late \cup {item} /\ UNCHANGED obj
             \/ /\ state \in {"created", "failed"} /\ obj[item.id] = None
                /\ obj' = [obj EXCEPT ![item.id] = item.spec] /\ UNCHANGED late
    PROVE  ToContract
  <1>1. Registry!Turn(r) = call[r].items[Len(call[r].answers) + 1]
    BY DEF Registry!Turn, call, CallOf
  <1>2. Registry!Decide(r, state)
    BY DEF Registry!Decide, call, CallOf
  <1>3. \/ Registry!DecideCreated(r) \/ Registry!DecideExisting(r)
        \/ Registry!DecideConflict(r) \/ Registry!DecideFailed(r)
    BY <1>1, <1>2
       DEF Registry!DecideCreated, Registry!DecideExisting, Registry!DecideConflict, Registry!DecideFailed
  <1> QED BY <1>3 DEF ToContract, Registry!ContractNext

\* What a change of one request is to the contract.
LEMMA CallMoves ==
    ASSUME Inv, NEW r \in Slots, NEW q, req' = [req EXCEPT ![r] = q]
    PROVE  /\ call[r] = CallOf(req[r])
           /\ call' = [call EXCEPT ![r] = CallOf(q)]
  <1>1. req \in [Slots -> Request]
    BY DEF Inv, Types
  <1> QED BY <1>1 DEF call

\* Calls before the items, and the two that come after a first look, are not
\* the contract's affair.
LEMMA GoMapped ==
    ASSUME Inv, NEW r \in Slots, NEW stage \in Stages \ {"free", "refused"}, Go(r, stage),
           req[r].stage \notin {"free", "refused"}, UNCHANGED <<obj, late, changes>>
    PROVE  ToContract
  <1> DEFINE q == Moved(req[r], stage, Facts(Caller(r)))
  <1>1. req' = [req EXCEPT ![r] = q]
    BY GoMoves
  <1>2. CallOf(q) = CallOf(req[r])
    BY DEF CallOf, Moved
  <1> HIDE DEF q
  <1>3. call' = call
    BY <1>1, <1>2, CallMoves DEF call
  <1> QED BY <1>3, ContractStutters

LEMMA RefusedMapped ==
    ASSUME Inv, NEW r \in Slots, Refused(r),
           req[r].stage \in Stages \ (PerItem \cup {"free", "refused", "answered"}),
           UNCHANGED <<obj, late, changes>>
    PROVE  ToContract
  <1> DEFINE q == Moved(req[r], "refused", Facts(Caller(r)))
  <1>1. req' = [req EXCEPT ![r] = q]
    BY GoMoves DEF Refused, Stages
  <1>2. req[r].results = <<>>
    BY DEF Inv, RequestInv, Shape
  <1>3. call[r] = CallOf(req[r]) /\ call' = [call EXCEPT ![r] = CallOf(q)]
    BY <1>1, CallMoves
  <1>4. CallOf(q) = [CallOf(req[r]) EXCEPT !.status = "refused"]
    BY DEF CallOf, Moved
  <1>5. call[r].status = "open" /\ call[r].answers = <<>>
    BY <1>2, <1>3 DEF CallOf
  <1> HIDE DEF q
  <1>6. call' = [call EXCEPT ![r].status = "refused"]
    BY <1>3, <1>4
  <1> QED BY <1>5, <1>6, ContractRefuses

LEMMA DecidedMapped ==
    ASSUME Inv, NEW r \in Slots, NEW state \in ItemStates, Decided(r, state),
           req[r].stage \in PerItem, UNCHANGED changes,
             \/ state = "existing" /\ obj[Turn(r).id] = Turn(r).spec /\ UNCHANGED <<obj, late>>
             \/ state = "conflict" /\ obj[Turn(r).id] \notin {None, Turn(r).spec} /\ UNCHANGED <<obj, late>>
             \/ state = "failed" /\ UNCHANGED <<obj, late>>
             \/ state = "failed" /\ late' = late \cup {Turn(r)} /\ UNCHANGED obj
             \/ /\ state \in {"created", "failed"} /\ obj[Turn(r).id] = None
                /\ obj' = [obj EXCEPT ![Turn(r).id] = Turn(r).spec] /\ UNCHANGED late
    PROVE  ToContract
  <1> DEFINE q == Answered(req[r], state)
  <1>1. req' = [req EXCEPT ![r] = q]
    BY DecidedAnswers
  <1>2. Len(req[r].results) < Len(req[r].items)
    BY DEF Inv, RequestInv, Shape
  <1>3. call[r] = CallOf(req[r]) /\ call' = [call EXCEPT ![r] = CallOf(q)]
    BY <1>1, CallMoves
  <1>4. call[r].status = "open" /\ call[r].items = req[r].items /\ call[r].answers = req[r].results
    BY <1>3 DEF CallOf, PerItem
  <1>5. CallOf(q) = [CallOf(req[r]) EXCEPT !.answers = Append(req[r].results, state)]
    BY SMTT(30) DEF CallOf, Answered, PerItem
  <1> HIDE DEF q
  <1>6. call' = [call EXCEPT ![r].answers = Append(@, state)]
    BY <1>3, <1>4, <1>5
  <1>7. Turn(r) = call[r].items[Len(call[r].answers) + 1]
    BY <1>4 DEF Turn
  <1> QED BY <1>2, <1>4, <1>6, <1>7, ContractDecides

\* The steps of the server.
LEMMA ServeMapped ==
    ASSUME Inv, NEW r \in Slots,
           \/ ParseQuery(r) \/ Validate(r) \/ ReviewConnection(r) \/ Resolve(r) \/ ResolveToken(r)
           \/ ReviewGet(r) \/ ReviewCreate(r) \/ Preflight(r) \/ List(r)
    PROVE  ToContract
  <1>1. /\ req[r].stage \in {"received", "list", "reviewConnection", "resolve", "token", "reviewGet",
                             "reviewCreate", "preflight"}
        /\ UNCHANGED <<obj, late, changes>>
        /\ \/ Refused(r)
           \/ \E stage \in {"reviewConnection", "resolve", "token", "list", "reviewGet", "reviewCreate",
                            "preflight", "get", "answered"} : Go(r, stage)
    BY DEF ParseQuery, Validate, ReviewConnection, Resolve, ResolveToken, ReviewGet, ReviewCreate,
           Preflight, List, Check, At
  <1>2. req[r].stage \in Stages \ (PerItem \cup {"free", "refused", "answered"})
    BY <1>1 DEF Stages, Calls, Reviews, PerItem
  <1>3. CASE Refused(r)
    BY <1>1, <1>2, <1>3, RefusedMapped
  <1>4. ASSUME NEW stage \in {"reviewConnection", "resolve", "token", "list", "reviewGet", "reviewCreate",
                              "preflight", "get", "answered"}, Go(r, stage)
        PROVE  ToContract
    <2>1. stage \in Stages \ {"free", "refused"}
      BY DEF Stages, Calls, Reviews, PerItem
    <2> QED BY <1>1, <1>2, <1>4, <2>1, GoMapped
  <1> QED BY <1>1, <1>3, <1>4

LEMMA ItemMapped ==
    ASSUME Inv, NEW r \in Slots, Get(r) \/ Create(r) \/ Verify(r)
    PROVE  ToContract
  <1>1. req[r].stage \in PerItem /\ req[r].stage \notin {"free", "refused"} /\ UNCHANGED <<late, changes>>
    BY DEF Get, Create, Verify, At, PerItem
  <1>2. {"created", "existing", "conflict", "failed"} = ItemStates
    BY DEF ItemStates
  <1>3. CASE Decided(r, "failed") /\ UNCHANGED obj
    BY <1>1, <1>2, <1>3, DecidedMapped
  <1>4. CASE Compare(r) /\ obj[Turn(r).id] # None /\ UNCHANGED obj
    <2>1. CASE obj[Turn(r).id] = Turn(r).spec
      BY <1>1, <1>2, <1>4, <2>1, DecidedMapped DEF Compare
    <2>2. CASE obj[Turn(r).id] # Turn(r).spec
      BY <1>1, <1>2, <1>4, <2>2, DecidedMapped DEF Compare
    <2> QED BY <2>1, <2>2
  <1>5. CASE (Go(r, "create") \/ Go(r, "verify")) /\ UNCHANGED obj
    BY <1>1, <1>5, GoMapped DEF Stages, Calls, PerItem
  <1>6. CASE /\ Decided(r, "created") /\ obj[Turn(r).id] = None
             /\ SetObj([obj EXCEPT ![Turn(r).id] = Turn(r).spec])
    BY <1>1, <1>2, <1>6, DecidedMapped DEF SetObj
  <1> QED BY <1>3, <1>4, <1>5, <1>6 DEF Get, Create, Verify

LEMMA FailureMapped ==
    ASSUME Inv, NEW r \in Slots, CallFails(r)
    PROVE  ToContract
  <1>1. req[r].stage \in Calls /\ UNCHANGED changes
    BY DEF CallFails
  <1>2. CASE req[r].stage \notin PerItem
    <2>1. req[r].stage \in Stages \ (PerItem \cup {"free", "refused", "answered"})
      BY <1>1, <1>2 DEF Stages, Calls, Reviews, PerItem
    <2>2. Refused(r) /\ UNCHANGED <<obj, late>>
      BY <1>2 DEF CallFails, PerItem
    <2> QED BY <1>1, <2>1, <2>2, RefusedMapped
  <1>3. CASE req[r].stage \in PerItem
    <2>1. Decided(r, "failed") /\ "failed" \in ItemStates
      BY <1>3 DEF CallFails, ItemStates
    <2>2. \/ UNCHANGED <<obj, late>>
          \/ late' = late \cup {Turn(r)} /\ UNCHANGED obj
          \/ /\ obj[Turn(r).id] = None
             /\ obj' = [obj EXCEPT ![Turn(r).id] = Turn(r).spec] /\ UNCHANGED late
      BY DEF CallFails, SetObj
    <2> QED BY <1>1, <1>3, <2>1, <2>2, DecidedMapped
  <1> QED BY <1>2, <1>3

\* A request that is over makes room for another one.
LEMMA ReleaseMapped ==
    ASSUME Inv, NEW r \in Slots, req' = [req EXCEPT ![r] = Free],
           req[r].stage \in {"refused", "answered"}, UNCHANGED <<obj, late, changes>>
    PROVE  ToContract
  <1>1. call[r] = CallOf(req[r]) /\ call' = [call EXCEPT ![r] = CallOf(Free)]
    BY CallMoves
  <1>2. req[r].stage = "answered" => Len(req[r].results) = Len(req[r].items)
    BY DEF Inv, RequestInv, Shape
  <1>3. \/ call[r].status = "refused"
        \/ call[r].status = "open" /\ Len(call[r].answers) = Len(call[r].items)
    BY <1>1, <1>2 DEF CallOf
  <1> QED BY <1>1, <1>3, ContractReleases

LEMMA AbandonedMapped ==
    ASSUME Inv, NEW r \in Slots, Cancel(r) \/ Drop(r)
    PROVE  ToContract
  <1>1. UNCHANGED <<obj, late, changes>>
    BY DEF Cancel, Drop
  <1>2. CASE Cancel(r)
    <2> DEFINE q == [stage |-> req[r].stage, items |-> req[r].items, results |-> req[r].results,
                     seen |-> req[r].seen, cancelled |-> TRUE]
    <2>1. req \in [Slots -> Request] /\ req[r] \in Request
      BY DEF Inv, Types
    <2>2. req' = [req EXCEPT ![r] = [req[r] EXCEPT !.cancelled = TRUE]]
      BY <1>2, <2>1 DEF Cancel
    <2>3. req' = [req EXCEPT ![r] = q]
      BY <2>1, <2>2, CancelledRequest
    <2>4. CallOf(q) = CallOf(req[r])
      BY DEF CallOf
    <2> HIDE DEF q
    <2>5. call' = call
      BY <2>3, <2>4, CallMoves DEF call
    <2> QED BY <1>1, <2>5, ContractStutters
  <1>3. CASE Drop(r)
    BY <1>1, <1>3, ReleaseMapped DEF Drop
  <1> QED BY <1>2, <1>3

\* A request arrives with items the client knows of.
LEMMA SendMapped ==
    ASSUME Inv, NEW r \in Slots, NEW batch \in Seq(1..Len(Items[Caller(r)])), Send(r, batch),
           changes' \in {changes, changes + 1}
    PROVE  ToContract
  <1> DEFINE items == [j \in DOMAIN batch |-> Normalize(Caller(r), batch[j])]
  <1>1. Caller(r) \in Callers /\ req[r] = Free /\ UNCHANGED <<obj, late>> /\ req \in [Slots -> Request]
    BY CallersAssumption DEF Inv, Types, Caller, Send, RequestInv, Shape
  <1>2. items \in Seq(Elements)
    <2>1. \A i \in 1..Len(Items[Caller(r)]) : Normalize(Caller(r), i) \in Elements
      BY <1>1, ItemsAssumption
    <2>2. DOMAIN batch = 1..Len(batch) /\ Len(batch) \in Nat
      OBVIOUS
    <2> QED BY <2>1, <2>2
  <1>3. req' = [req EXCEPT ![r] = [Free EXCEPT !.stage = "received", !.items = items]]
    BY <1>1 DEF Send
  <1> HIDE DEF items
  <1>4. [Free EXCEPT !.stage = "received", !.items = items]
           = [stage |-> "received", items |-> items, results |-> Free.results,
              seen |-> Free.seen, cancelled |-> Free.cancelled]
    BY FreeIsFine, ReceivedRequest
  <1>5. CallOf([Free EXCEPT !.stage = "received", !.items = items])
           = [status |-> "open", answers |-> <<>>, items |-> items]
    BY <1>4 DEF CallOf, Free
  <1>6. call[r] = CallOf(Free) /\ CallOf(Free).status = "free"
    BY <1>1 DEF call, CallOf, Free
  <1>7. call' = [call EXCEPT ![r] = [status |-> "open", answers |-> <<>>, items |-> items]]
    <2> DEFINE q == [Free EXCEPT !.stage = "received", !.items = items]
    <2>1. req' = [req EXCEPT ![r] = q]
      BY <1>3
    <2> HIDE DEF q
    <2>2. call' = [call EXCEPT ![r] = CallOf(q)]
      BY <2>1, CallMoves
    <2> QED BY <1>5, <2>2 DEF q
  <1> QED BY <1>1, <1>2, <1>6, <1>7, ContractBegins

LEMMA ClientsMapped ==
    ASSUME Inv,
           \/ \E r \in Slots : Register(r) \/ RetryFailed(r)
           \/ \E c \in Callers : Receive(c) \/ GiveUp(c) \/ Leave(c)
    PROVE  ToContract
  <1>1. ASSUME NEW r \in Slots, Register(r) PROVE ToContract
    <2>1. PICK batch \in Batches[Caller(r)] : Send(r, batch) /\ changes' \in {changes, changes + 1}
      BY <1>1 DEF Register
    <2>2. batch \in Seq(1..Len(Items[Caller(r)]))
      BY CallersAssumption, ItemsAssumption DEF Caller
    <2> QED BY <2>1, <2>2, SendMapped
  <1>2. ASSUME NEW r \in Slots, RetryFailed(r) PROVE ToContract
    <2>1. PICK batch \in Seq(1..Len(Items[Caller(r)])) : Send(r, batch)
      BY <1>2, RetryBatch
    <2> QED BY <1>2, <2>1, SendMapped DEF RetryFailed
  <1>3. ASSUME NEW c \in Callers, Receive(c) PROVE ToContract
    <2>1. wiz[c].waiting \in Slots /\ UNCHANGED <<obj, late, changes>>
      BY <1>3 DEF Receive, Inv, Types, Wizard
    <2> QED BY <1>3, <2>1, ReleaseMapped DEF Receive
  <1>4. ASSUME NEW c \in Callers, GiveUp(c) PROVE ToContract
    BY <1>4, ContractStutters DEF GiveUp, call
  <1>5. ASSUME NEW c \in Callers, Leave(c) PROVE ToContract
    <2>1. UNCHANGED <<obj, late, call>> /\ changes' = changes + 1
      BY <1>5 DEF Leave, call
    <2> QED BY <2>1, SameObjects, ContractOthers
  <1> QED BY <1>1, <1>2, <1>3, <1>4, <1>5

\* Everyone else.
LEMMA WorldMapped ==
    ASSUME Inv,
           \/ \E e \in late : Land(e)
           \/ \E id \in Ids : \E v \in Writable[id] \cup {None} : OthersWrite(id, v)
           \/ \E p \in Revocable : RightsChange(p[1], p[2])
           \/ \E n \in Connections, state \in ConnStates : ConnectionChange(n, state)
    PROVE  ToContract
  <1>1. ASSUME NEW e \in late, Land(e) PROVE ToContract
    BY <1>1, ContractLands DEF Land, SetObj, call
  <1>2. ASSUME NEW id \in Ids, NEW v \in Writable[id] \cup {None}, OthersWrite(id, v) PROVE ToContract
    <2>1. v \in Specs \cup {None}
      BY WorldAssumption
    <2> QED BY <1>2, <2>1, ContractOthers DEF OthersWrite, SetObj, call
  <1>3. ASSUME NEW p \in Revocable, RightsChange(p[1], p[2]) PROVE ToContract
    <2>1. UNCHANGED <<obj, late, call>> /\ changes' = changes + 1
      BY <1>3 DEF RightsChange, call
    <2> QED BY <2>1, SameObjects, ContractOthers
  <1>4. ASSUME NEW n \in Connections, NEW state \in ConnStates, ConnectionChange(n, state) PROVE ToContract
    <2>1. UNCHANGED <<obj, late, call>> /\ changes' = changes + 1
      BY <1>4 DEF ConnectionChange, call
    <2> QED BY <2>1, SameObjects, ContractOthers
  <1> QED BY <1>1, <1>2, <1>3, <1>4

\* Every behaviour of the handler and its clients, with its separate look,
\* creation and second look, its failures, races and late creations, is one
\* the contract allows: whole refusals, one indivisible decision per item, and
\* nothing overwritten.
THEOREM ContractImplemented == Spec => ImplementsContract
  <1>1. Init => Registry!ContractInit
    <2> SUFFICES ASSUME Init PROVE Registry!ContractInit
      OBVIOUS
    <2>1. obj \in [Ids -> Specs \cup {None}] /\ late = {} /\ changes = 0
      BY WorldAssumption DEF Init
    <2>2. call = [r \in Slots |-> CallOf(Free)]
      BY DEF Init, call
    <2>3. CallOf(Free) = Registry!IdleCall
      BY DEF CallOf, Free, Registry!IdleCall
    <2> QED BY <2>1, <2>2, <2>3 DEF Registry!ContractInit, call, CallOf
  <1>2. Inv /\ [Next]_vars => ToContract
    <2> SUFFICES ASSUME Inv, [Next]_vars PROVE ToContract
      OBVIOUS
    <2>1. ASSUME NEW r \in Slots, Serve(r) PROVE ToContract
      BY <2>1, ServeMapped, ItemMapped, AbandonedMapped, FailureMapped DEF Serve
    <2>2. ASSUME NEW r \in Slots, CallFails(r) PROVE ToContract
      BY <2>2, FailureMapped
    <2>3. CASE UNCHANGED vars
      BY <2>3, ContractStutters DEF vars, call
    <2> QED BY <2>1, <2>2, <2>3, ClientsMapped, WorldMapped DEF Next
  <1> QED BY <1>1, <1>2, InvCorrect, PTL DEF Spec, ToContract, ImplementsContract, Registry!Contract
=============================================================================
