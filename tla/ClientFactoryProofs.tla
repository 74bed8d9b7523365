------------------------ MODULE ClientFactoryProofs ------------------------
(***************************************************************************)
(* Proofs about ClientFactory, for any clusters, tokens and hosts, any     *)
(* number of concurrent requests and any capacity and TTL.                 *)
(***************************************************************************)
EXTENDS ClientFactory, TLAPS

\* A record's client is the one its key names.
Matches(e) == e.client.cluster = e.key[1] /\ e.client.token = e.key[2]

\* What holds of each cache: it is bounded, its keys are distinct and its
\* records match their keys.
GoodCache(s) ==
    /\ s \in Seq(Record)
    /\ Len(s) <= Capacity
    /\ \A i \in DOMAIN s : Matches(s[i])
    /\ \A i, j \in DOMAIN s : s[i].key = s[j].key => i = j

GoodRequest(q) ==
    /\ q \in Req
    /\ q.stage = "done" =>
          q.client \in Client /\ q.client.cluster = q.cluster /\ q.client.token = q.token

Inv ==
    /\ config \in Hosts \cup {None}
    /\ clearing \in BOOLEAN
    /\ hot \in [Kinds -> Seq(Record)]
    /\ \A k \in Kinds : GoodCache(hot[k])
    /\ req \in [Requests -> Req]
    /\ \A r \in Requests : GoodRequest(req[r])

\* Dropping a record leaves a good cache, one shorter.
LEMMA WithoutGood ==
    ASSUME NEW s, GoodCache(s), NEW i \in DOMAIN s
    PROVE  /\ GoodCache(Without(s, i))
           /\ Len(Without(s, i)) = Len(s) - 1
           /\ \A j \in DOMAIN Without(s, i) : Without(s, i)[j].key # s[i].key
<1> DEFINE t == Without(s, i)
<1>1. /\ s \in Seq(Record) /\ Len(s) \in Nat /\ DOMAIN s = 1..Len(s)
      /\ i \in 1..Len(s) /\ Len(s) - 1 \in Nat
  BY DEF GoodCache
<1>2. \A j \in 1..(Len(s) - 1) :
         /\ t[j] = IF j < i THEN s[j] ELSE s[j + 1]
         /\ j \in 1..Len(s) /\ j + 1 \in 1..Len(s)
  BY <1>1 DEF Without
<1>3. \A j \in 1..(Len(s) - 1) : t[j] \in Record
  BY <1>1, <1>2
<1>4. t \in Seq(Record) /\ Len(t) = Len(s) - 1 /\ DOMAIN t = 1..(Len(s) - 1)
  BY <1>1, <1>3 DEF Without
<1> HIDE DEF t
<1>5. \A j \in DOMAIN t : Matches(t[j])
  BY <1>1, <1>2, <1>4 DEF GoodCache
<1>6. \A j, k \in DOMAIN t : t[j].key = t[k].key => j = k
  <2> SUFFICES ASSUME NEW j \in DOMAIN t, NEW k \in DOMAIN t, t[j].key = t[k].key
               PROVE  j = k
    OBVIOUS
  <2> DEFINE p == IF j < i THEN j ELSE j + 1
             q == IF k < i THEN k ELSE k + 1
  <2>1. p \in DOMAIN s /\ q \in DOMAIN s /\ t[j] = s[p] /\ t[k] = s[q]
    BY <1>1, <1>2, <1>4
  <2>2. p = q
    BY <2>1 DEF GoodCache
  <2> QED BY <2>2, <1>1, <1>4
<1>7. \A j \in DOMAIN t : t[j].key # s[i].key
  <2> SUFFICES ASSUME NEW j \in DOMAIN t PROVE t[j].key # s[i].key
    OBVIOUS
  <2> DEFINE p == IF j < i THEN j ELSE j + 1
  <2>1. p \in DOMAIN s /\ p # i /\ t[j] = s[p]
    BY <1>1, <1>2, <1>4
  <2> QED BY <2>1 DEF GoodCache
<1>8. Len(t) <= Capacity
  BY <1>1, <1>4, CapacityAssumption DEF GoodCache
<1> QED BY <1>4, <1>5, <1>6, <1>7, <1>8 DEF GoodCache, t

\* Appending a record with a new key and evicting what is too much leaves a
\* good cache.
LEMMA AppendGood ==
    ASSUME NEW s, GoodCache(s), NEW e \in Record, Matches(e),
           \A i \in DOMAIN s : s[i].key # e.key
    PROVE  GoodCache(Evict(Append(s, e)))
<1> DEFINE t == Append(s, e)
<1>1. /\ s \in Seq(Record) /\ Len(s) \in Nat /\ DOMAIN s = 1..Len(s)
      /\ Len(s) <= Capacity /\ Capacity \in Nat
  BY CapacityAssumption DEF GoodCache
<1>2. /\ t \in Seq(Record) /\ Len(t) = Len(s) + 1 /\ DOMAIN t = 1..(Len(s) + 1)
      /\ \A i \in 1..Len(s) : t[i] = s[i]
      /\ t[Len(s) + 1] = e
  BY <1>1
<1> HIDE DEF t
<1>3. \A i \in DOMAIN t : i \in 1..Len(s) \/ i = Len(s) + 1
  BY <1>1, <1>2
<1>4. \A i \in DOMAIN t : Matches(t[i])
  BY <1>1, <1>2, <1>3 DEF GoodCache
<1>5. \A i, j \in DOMAIN t : t[i].key = t[j].key => i = j
  BY <1>1, <1>2, <1>3 DEF GoodCache
<1>6. CASE Len(t) > Capacity
  <2> DEFINE u == SubSeq(t, Len(t) - Capacity + 1, Len(t))
             shift == Len(t) - Capacity
  <2>1. shift \in Nat /\ Len(t) \in Nat /\ Len(t) = Capacity + shift
    BY <1>1, <1>2, <1>6
  <2>2. /\ u \in Seq(Record) /\ Len(u) = Capacity /\ DOMAIN u = 1..Capacity
        /\ \A i \in 1..Capacity : u[i] = t[i + shift]
    BY <1>1, <1>2, <2>1
  <2>3. \A i \in 1..Capacity : i + shift \in DOMAIN t
    BY <1>1, <1>2, <2>1
  <2>4. Evict(t) = u
    BY <1>6 DEF Evict
  <2> HIDE DEF u, shift
  <2>5. \A i, j \in 1..Capacity : i + shift = j + shift => i = j
    BY <1>1, <2>1
  <2>6. \A i \in DOMAIN u : Matches(u[i])
    BY <1>4, <2>2, <2>3
  <2>7. ASSUME NEW i \in DOMAIN u, NEW j \in DOMAIN u, u[i].key = u[j].key
        PROVE  i = j
    <3>1. i \in 1..Capacity /\ j \in 1..Capacity
      BY <2>2
    <3>2. i + shift \in DOMAIN t /\ j + shift \in DOMAIN t
      BY <3>1, <2>3
    <3>3. t[i + shift].key = t[j + shift].key
      BY <3>1, <2>2, <2>7
    <3>4. i + shift = j + shift
      BY <3>2, <3>3, <1>5
    <3> QED BY <3>1, <3>4, <2>5
  <2>8. Len(u) <= Capacity
    BY <1>1, <2>2
  <2>9. GoodCache(u)
    BY <2>2, <2>6, <2>7, <2>8 DEF GoodCache
  <2> QED BY <2>4, <2>9 DEF t
<1>7. CASE ~(Len(t) > Capacity)
  <2>1. Evict(t) = t
    BY <1>7 DEF Evict
  <2>2. Len(t) <= Capacity
    BY <1>1, <1>2, <1>7
  <2> QED BY <2>1, <2>2, <1>2, <1>4, <1>5 DEF GoodCache, t
<1> QED BY <1>6, <1>7

\* Marking a record as just used keeps a cache good.
LEMMA TouchGood ==
    ASSUME NEW s, GoodCache(s), NEW i \in DOMAIN s
    PROVE  GoodCache(Touch(s, i))
<1> DEFINE t == Without(s, i)
<1>1. /\ GoodCache(t) /\ Len(t) = Len(s) - 1
      /\ \A j \in DOMAIN t : t[j].key # s[i].key
  BY WithoutGood
<1>2. s[i] \in Record /\ Matches(s[i]) /\ Len(s) \in Nat /\ Len(s) <= Capacity
  BY DEF GoodCache
<1> HIDE DEF t
<1>3. GoodCache(Evict(Append(t, s[i])))
  BY <1>1, <1>2, AppendGood
<1>4. t \in Seq(Record)
  BY <1>1 DEF GoodCache
<1>5. Len(Append(t, s[i])) = Len(s)
  BY <1>1, <1>2, <1>4
<1>6. Evict(Append(t, s[i])) = Append(t, s[i])
  BY <1>2, <1>5, CapacityAssumption DEF Evict
<1> QED BY <1>3, <1>6 DEF Touch, t

\* Time only ages the records.
LEMMA OlderGood ==
    ASSUME NEW s, GoodCache(s)
    PROVE  GoodCache(Older(s))
<1> DEFINE t == Older(s)
<1>1. s \in Seq(Record) /\ Len(s) \in Nat /\ DOMAIN s = 1..Len(s)
  BY DEF GoodCache
<1>2. ASSUME NEW i \in DOMAIN s
      PROVE  t[i] \in Record /\ t[i].key = s[i].key /\ t[i].client = s[i].client
  <2> DEFINE age == IF s[i].age < TTL THEN s[i].age + 1 ELSE TTL
  <2>1. s[i] \in Record
    BY <1>1
  <2>2. age \in 0..TTL
    BY <2>1, TTLAssumption DEF Record
  <2>3. t[i] = [s[i] EXCEPT !.age = age]
    BY <2>1 DEF Older, Record
  <2> HIDE DEF age, t
  <2> QED BY <2>1, <2>2, <2>3 DEF Record
<1>3. DOMAIN t = 1..Len(s)
  BY <1>1 DEF Older
<1>4. t \in Seq(Record) /\ Len(t) = Len(s)
  BY <1>1, <1>2 DEF Older
<1> HIDE DEF t
<1> QED BY <1>1, <1>2, <1>3, <1>4 DEF GoodCache, Matches, t

\* A request that moves to a good state leaves the others as they were.
LEMMA MoveGood ==
    ASSUME req \in [Requests -> Req], \A p \in Requests : GoodRequest(req[p]),
           NEW r \in Requests, NEW new, GoodRequest(new), Move(r, new)
    PROVE  req' \in [Requests -> Req] /\ \A p \in Requests : GoodRequest(req'[p])
<1>1. new \in Req
  BY DEF GoodRequest
<1>2. req' = [req EXCEPT ![r] = new]
  BY DEF Move
<1>3. req' \in [Requests -> Req] /\ \A p \in Requests : req'[p] = IF p = r THEN new ELSE req[p]
  BY <1>1, <1>2
<1> QED BY <1>3

\* A cache that is replaced by a good one leaves the other as it was.
LEMMA CacheGood ==
    ASSUME hot \in [Kinds -> Seq(Record)], \A k \in Kinds : GoodCache(hot[k]),
           NEW k \in Kinds, NEW s, GoodCache(s), hot' = [hot EXCEPT ![k] = s]
    PROVE  hot' \in [Kinds -> Seq(Record)] /\ \A j \in Kinds : GoodCache(hot'[j])
<1>1. s \in Seq(Record)
  BY DEF GoodCache
<1>2. /\ hot' \in [Kinds -> Seq(Record)]
      /\ \A j \in Kinds : hot'[j] = IF j = k THEN s ELSE hot[j]
  BY <1>1
<1> QED BY <1>2

\* What a request past configFor knows.
LEMMA AskingRequest ==
    ASSUME NEW q \in Req, q.stage \in Asking
    PROVE  /\ q.kind \in Kinds /\ q.cluster \in Clusters /\ q.token \in Tokens
           /\ q.cfg \in Hosts /\ q.client \in Client \cup {None}
           /\ q = [stage |-> q.stage, kind |-> q.kind, cluster |-> q.cluster,
                   token |-> q.token, cfg |-> q.cfg, client |-> q.client]
BY DEF Req, Asking

\* A request is given a record found under its own key.
LEMMA AnswerGood ==
    ASSUME NEW r \in Requests, req[r] \in Req, req[r].stage \in Asking,
           NEW c \in Client, c.cluster = req[r].cluster, c.token = req[r].token
    PROVE  GoodRequest(Answer(r, c))
<1> DEFINE q == req[r]
           a == Answer(r, c)
<1>1. /\ q.kind \in Kinds /\ q.cluster \in Clusters /\ q.token \in Tokens
      /\ q.cfg \in Hosts
      /\ q = [stage |-> q.stage, kind |-> q.kind, cluster |-> q.cluster,
              token |-> q.token, cfg |-> q.cfg, client |-> q.client]
  BY AskingRequest
<1>2. a = [stage |-> "done", kind |-> q.kind, cluster |-> q.cluster,
           token |-> q.token, cfg |-> q.cfg, client |-> c]
  <2> DEFINE full == [stage |-> q.stage, kind |-> q.kind, cluster |-> q.cluster,
                      token |-> q.token, cfg |-> q.cfg, client |-> q.client]
  <2>1. a = [q EXCEPT !.stage = "done", !.client = c]
    BY DEF Answer
  <2>2. a = [full EXCEPT !.stage = "done", !.client = c]
    BY <1>1, <2>1
  <2> HIDE DEF a, q
  <2> QED BY <2>2
<1> HIDE DEF a, q
<1>3. a \in Req
  BY <1>1, <1>2 DEF Req, Asking
<1>4. a.stage = "done" /\ a.client = c /\ a.cluster = q.cluster /\ a.token = q.token
  BY <1>2
<1> QED BY <1>3, <1>4 DEF GoodRequest, a, q

LEMMA FailedGood ==
    ASSUME NEW kind \in Kinds
    PROVE  GoodRequest(Failed(kind))
BY DEF GoodRequest, Failed, Req

\* A miss sends a request on to build its client.
LEMMA BuildGood ==
    ASSUME NEW r \in Requests, req[r] \in Req, req[r].stage \in Asking
    PROVE  GoodRequest([req[r] EXCEPT !.stage = "build"])
<1> DEFINE q == req[r]
           a == [q EXCEPT !.stage = "build"]
<1>1. /\ q.kind \in Kinds /\ q.cluster \in Clusters /\ q.token \in Tokens
      /\ q.cfg \in Hosts /\ q.client \in Client \cup {None}
      /\ q = [stage |-> q.stage, kind |-> q.kind, cluster |-> q.cluster,
              token |-> q.token, cfg |-> q.cfg, client |-> q.client]
  BY AskingRequest
<1>2. a = [stage |-> "build", kind |-> q.kind, cluster |-> q.cluster,
           token |-> q.token, cfg |-> q.cfg, client |-> q.client]
  BY <1>1
<1> HIDE DEF a, q
<1>3. a \in Req /\ a.stage = "build"
  BY <1>1, <1>2 DEF Req, Asking
<1> QED BY <1>3 DEF GoodRequest, a, q

\* The record a request finds under its key holds its own client.
LEMMA FoundOwn ==
    ASSUME Inv, NEW r \in Requests, req[r].stage \in Asking,
           NEW i \in Positions(hot[req[r].kind], Key(r))
    PROVE  LET s == hot[req[r].kind] IN
           /\ i \in DOMAIN s /\ GoodCache(s) /\ s[i].client \in Client
           /\ s[i].client.cluster = req[r].cluster
           /\ s[i].client.token = req[r].token
<1> DEFINE s == hot[req[r].kind]
<1>1. req[r] \in Req
  BY DEF Inv
<1>2. req[r].kind \in Kinds
  BY <1>1, AskingRequest
<1>3. GoodCache(s) /\ i \in DOMAIN s /\ s[i].key = <<req[r].cluster, req[r].token>>
  BY <1>2 DEF Inv, Positions, Key
<1> HIDE DEF s
<1>4. s[i] \in Record /\ Matches(s[i])
  BY <1>3 DEF GoodCache
<1> QED BY <1>3, <1>4 DEF Matches, Record, s

\* Every step keeps the invariant.
LEMMA InvStep == Inv /\ [Next]_vars => Inv'
<1> SUFFICES ASSUME Inv, [Next]_vars PROVE Inv'
  OBVIOUS
<1>0. /\ config \in Hosts \cup {None} /\ clearing \in BOOLEAN
      /\ hot \in [Kinds -> Seq(Record)] /\ \A k \in Kinds : GoodCache(hot[k])
      /\ req \in [Requests -> Req] /\ \A r \in Requests : GoodRequest(req[r])
  BY DEF Inv
<1>1. ASSUME NEW r \in Requests, NEW kind \in Kinds, NEW c \in Clusters,
             NEW t \in Tokens \cup {None}, Ask(r, kind, c, t)
      PROVE  Inv'
  <2> DEFINE new == [stage |-> "lookup", kind |-> kind, cluster |-> c,
                     token |-> t, cfg |-> config, client |-> None]
  <2>1. UNCHANGED <<config, clearing, hot>>
    BY <1>1 DEF Ask
  <2>2. CASE t = None \/ config = None
    <3>1. Move(r, Failed(kind))
      BY <1>1, <2>2 DEF Ask
    <3> QED BY <1>0, <2>1, <3>1, MoveGood, FailedGood DEF Inv
  <2>3. CASE ~(t = None \/ config = None)
    <3>1. Move(r, new)
      BY <1>1, <2>3 DEF Ask
    <3>2. t \in Tokens /\ config \in Hosts
      BY <2>3, <1>0
    <3>3. GoodRequest(new)
      BY <3>2 DEF GoodRequest, Req, Asking
    <3> HIDE DEF new
    <3> QED BY <1>0, <2>1, <3>1, <3>3, MoveGood DEF Inv
  <2> QED BY <2>2, <2>3
<1>2. ASSUME NEW r \in Requests, Lookup(r) PROVE Inv'
  <2> DEFINE k == req[r].kind
             at == Positions(hot[k], Key(r))
  <2>1. /\ req[r].stage \in Asking /\ req[r] \in Req
        /\ UNCHANGED <<config, clearing>>
    BY <1>0, <1>2 DEF Lookup, Asking
  <2>2. k \in Kinds /\ GoodRequest([req[r] EXCEPT !.stage = "build"])
    BY <2>1, AskingRequest, BuildGood
  <2>3. CASE /\ Move(r, [req[r] EXCEPT !.stage = "build"])
             /\ UNCHANGED hot
    BY <1>0, <2>1, <2>2, <2>3, MoveGood DEF Inv
  <2>4. ASSUME NEW i \in at, hot' = [hot EXCEPT ![k] = Without(hot[k], i)],
               Move(r, [req[r] EXCEPT !.stage = "build"])
        PROVE  Inv'
    <3>1. i \in DOMAIN hot[k] /\ GoodCache(hot[k])
      BY <2>1, FoundOwn
    <3>2. GoodCache(Without(hot[k], i))
      BY <3>1, WithoutGood
    <3>3. hot' \in [Kinds -> Seq(Record)] /\ \A j \in Kinds : GoodCache(hot'[j])
      BY <1>0, <2>2, <2>4, <3>2, CacheGood
    <3> QED BY <1>0, <2>1, <2>2, <2>4, <3>3, MoveGood DEF Inv
  <2>5. ASSUME NEW i \in at, hot' = [hot EXCEPT ![k] = Touch(hot[k], i)],
               Move(r, Answer(r, hot[k][i].client))
        PROVE  Inv'
    <3>1. /\ i \in DOMAIN hot[k] /\ GoodCache(hot[k])
          /\ hot[k][i].client \in Client
          /\ hot[k][i].client.cluster = req[r].cluster
          /\ hot[k][i].client.token = req[r].token
      BY <2>1, FoundOwn
    <3>2. GoodCache(Touch(hot[k], i))
      BY <3>1, TouchGood
    <3>3. hot' \in [Kinds -> Seq(Record)] /\ \A j \in Kinds : GoodCache(hot'[j])
      BY <1>0, <2>2, <2>5, <3>2, CacheGood
    <3>4. GoodRequest(Answer(r, hot[k][i].client))
      BY <2>1, <3>1, AnswerGood
    <3> QED BY <1>0, <2>1, <2>5, <3>3, <3>4, MoveGood DEF Inv
  <2> QED BY <1>2, <2>3, <2>4, <2>5 DEF Lookup
<1>3. ASSUME NEW r \in Requests, Store(r) PROVE Inv'
  <2> DEFINE k == req[r].kind
             at == Positions(hot[k], Key(r))
             new == [key |-> Key(r), client |-> NewClient(r), age |-> 0]
  <2>1. /\ req[r].stage \in Asking /\ req[r] \in Req
        /\ UNCHANGED <<config, clearing>>
    BY <1>0, <1>3 DEF Store, Asking
  <2>2. k \in Kinds /\ GoodCache(hot[k])
    BY <1>0, <2>1, AskingRequest
  <2>3. ASSUME NEW i \in at, hot' = [hot EXCEPT ![k] = Touch(hot[k], i)],
               Move(r, Answer(r, hot[k][i].client))
        PROVE  Inv'
    <3>1. /\ i \in DOMAIN hot[k] /\ GoodCache(hot[k])
          /\ hot[k][i].client \in Client
          /\ hot[k][i].client.cluster = req[r].cluster
          /\ hot[k][i].client.token = req[r].token
      BY <2>1, FoundOwn
    <3>2. GoodCache(Touch(hot[k], i))
      BY <3>1, TouchGood
    <3>3. hot' \in [Kinds -> Seq(Record)] /\ \A j \in Kinds : GoodCache(hot'[j])
      BY <1>0, <2>2, <2>3, <3>2, CacheGood
    <3>4. GoodRequest(Answer(r, hot[k][i].client))
      BY <2>1, <3>1, AnswerGood
    <3> QED BY <1>0, <2>1, <2>3, <3>3, <3>4, MoveGood DEF Inv
  <2>4. ASSUME at = {}, hot' = [hot EXCEPT ![k] = Evict(Append(hot[k], new))],
               Move(r, Answer(r, new.client))
        PROVE  Inv'
    <3>1. /\ req[r].cluster \in Clusters /\ req[r].token \in Tokens
          /\ req[r].cfg \in Hosts
      BY <2>1, AskingRequest
    <3>2. /\ NewClient(r) \in Client /\ NewClient(r).cluster = req[r].cluster
          /\ NewClient(r).token = req[r].token
      BY <3>1 DEF NewClient, Client
    <3>3. new \in Record /\ Matches(new) /\ new.key = Key(r) /\ new.client = NewClient(r)
      BY <3>1, <3>2, TTLAssumption DEF Record, Matches, Key
    <3>4. \A i \in DOMAIN hot[k] : hot[k][i].key # Key(r)
      BY <2>4 DEF Positions
    <3> HIDE DEF new
    <3>5. GoodCache(Evict(Append(hot[k], new)))
      BY <2>2, <3>3, <3>4, AppendGood
    <3>6. hot' \in [Kinds -> Seq(Record)] /\ \A j \in Kinds : GoodCache(hot'[j])
      BY <1>0, <2>2, <2>4, <3>5, CacheGood
    <3>7. GoodRequest(Answer(r, new.client))
      BY <2>1, <3>2, <3>3, AnswerGood
    <3> QED BY <1>0, <2>1, <2>4, <3>6, <3>7, MoveGood DEF Inv
  <2> QED BY <1>3, <2>3, <2>4 DEF Store
<1>4. ASSUME NEW r \in Requests, BuildFails(r) PROVE Inv'
  <2>1. /\ req[r].kind \in Kinds /\ Move(r, Failed(req[r].kind))
        /\ UNCHANGED <<config, clearing, hot>>
    BY <1>0, <1>4, AskingRequest DEF BuildFails, Asking
  <2> QED BY <1>0, <2>1, MoveGood, FailedGood DEF Inv
<1>5. ASSUME NEW host \in Hosts, SetBaseConfig(host) PROVE Inv'
  BY <1>0, <1>5 DEF SetBaseConfig, Inv
<1>6. CASE ClearCaches
  <2>1. GoodCache(<<>>)
    BY CapacityAssumption DEF GoodCache
  <2>2. hot' = [k \in Kinds |-> <<>>] /\ clearing' = FALSE /\ UNCHANGED <<config, req>>
    BY <1>6 DEF ClearCaches
  <2>3. hot' \in [Kinds -> Seq(Record)]
    BY <2>2
  <2>4. \A k \in Kinds : GoodCache(hot'[k])
    BY <2>1, <2>2
  <2> QED BY <1>0, <2>2, <2>3, <2>4 DEF Inv
<1>7. CASE Tick
  <2>1. /\ hot' = [k \in Kinds |-> Older(hot[k])]
        /\ UNCHANGED <<config, clearing, req>>
    BY <1>7 DEF Tick
  <2>2. \A k \in Kinds : GoodCache(hot'[k])
    BY <1>0, <2>1, OlderGood
  <2>3. hot' \in [Kinds -> Seq(Record)]
    BY <2>1, <2>2 DEF GoodCache
  <2> QED BY <1>0, <2>1, <2>2, <2>3 DEF Inv
<1>8. CASE UNCHANGED vars
  BY <1>0, <1>8 DEF vars, Inv
<1> QED BY <1>1, <1>2, <1>3, <1>4, <1>5, <1>6, <1>7, <1>8 DEF Next

\* Both caches are empty and nothing was asked at first.
LEMMA InvInit == Init => Inv
<1> SUFFICES ASSUME Init PROVE Inv
  OBVIOUS
<1>1. GoodCache(<<>>)
  BY CapacityAssumption DEF GoodCache
<1>2. GoodRequest([stage |-> "idle", kind |-> "dynamic"])
  BY DEF GoodRequest, Req, Kinds
<1>3. [stage |-> "idle", kind |-> "dynamic"] \in Req
  BY <1>2 DEF GoodRequest
<1> QED BY <1>1, <1>2, <1>3 DEF Init, Inv, GoodCache

\* For and AuthorizationFor never hand one caller's token, or a client for
\* another tenant's cluster, to a request.
THEOREM OwnershipCorrect == Spec => []OwnClient
<1>1. Inv => OwnClient
  BY DEF Inv, GoodRequest, OwnClient
<1> QED BY <1>1, InvInit, InvStep, PTL DEF Spec

\* The two caches never exceed cacheCapacity, nor hold a key twice.
THEOREM CachesCorrect == Spec => []CachesBounded
<1>1. Inv => CachesBounded
  BY DEF Inv, GoodCache, CachesBounded
<1> QED BY <1>1, InvInit, InvStep, PTL DEF Spec

\* The factory's state keeps its types.
THEOREM FactoryTypeCorrect == Spec => []TypeOK
<1>1. Inv => TypeOK
  BY DEF Inv, TypeOK
<1> QED BY <1>1, InvInit, InvStep, PTL DEF Spec
-----------------------------------------------------------------------------
\* The record that was used or added last is still there.
LEMMA TouchKeeps ==
    ASSUME NEW s, GoodCache(s), NEW i \in DOMAIN s
    PROVE  \E j \in DOMAIN Touch(s, i) : Touch(s, i)[j] = s[i]
<1> DEFINE t == Without(s, i)
<1>1. t \in Seq(Record) /\ s[i] \in Record
  BY WithoutGood DEF GoodCache
<1> HIDE DEF t
<1>2. /\ Len(t) + 1 \in DOMAIN Append(t, s[i])
      /\ Append(t, s[i])[Len(t) + 1] = s[i]
  BY <1>1
<1> QED BY <1>2 DEF Touch, t

LEMMA EvictKeeps ==
    ASSUME NEW s \in Seq(Record), NEW e \in Record
    PROVE  \E j \in DOMAIN Evict(Append(s, e)) : Evict(Append(s, e))[j] = e
<1> DEFINE t == Append(s, e)
           n == Len(s) + 1
<1>1. /\ t \in Seq(Record) /\ Len(t) = n /\ n \in Nat \ {0} /\ DOMAIN t = 1..n
      /\ t[n] = e
  OBVIOUS
<1> HIDE DEF t, n
<1>2. CASE n > Capacity
  <2> DEFINE u == SubSeq(t, n - Capacity + 1, n)
  <2>1. n - Capacity \in Nat /\ Capacity \in 1..Capacity /\ Capacity + (n - Capacity) = n
    BY <1>1, <1>2, CapacityAssumption
  <2>2. DOMAIN u = 1..Capacity /\ \A j \in 1..Capacity : u[j] = t[j + (n - Capacity)]
    BY <1>1, <1>2, <2>1, CapacityAssumption
  <2>3. Evict(t) = u
    BY <1>1, <1>2 DEF Evict
  <2> HIDE DEF u
  <2>4. Capacity \in DOMAIN u /\ u[Capacity] = e
    BY <1>1, <2>1, <2>2
  <2> QED BY <2>3, <2>4 DEF t
<1>3. CASE ~(n > Capacity)
  <2>1. Evict(t) = t /\ n \in DOMAIN t
    BY <1>1, <1>3 DEF Evict
  <2> QED BY <1>1, <2>1 DEF t
<1> QED BY <1>2, <1>3

\* A request that is answered finds its client in the cache it asked.
Kept(r) ==
    req[r].stage # "done" /\ req'[r].stage = "done" =>
        \E i \in DOMAIN hot'[req'[r].kind] :
            hot'[req'[r].kind][i].client = req'[r].client

\* All that an answering step says of the cache and of the request.
LEMMA AnsweredKept ==
    ASSUME Inv, NEW r \in Requests, req[r].stage \in Asking, NEW t, NEW e, NEW c,
           hot' = [hot EXCEPT ![req[r].kind] = t], Move(r, Answer(r, c)),
           e.client = c, \E j \in DOMAIN t : t[j] = e
    PROVE  \A p \in Requests : Kept(p)
<1>1. /\ req \in [Requests -> Req] /\ req[r] \in Req
      /\ hot \in [Kinds -> Seq(Record)]
  BY DEF Inv
<1>2. /\ req[r].kind \in Kinds
      /\ req[r] = [stage |-> req[r].stage, kind |-> req[r].kind, cluster |-> req[r].cluster,
                   token |-> req[r].token, cfg |-> req[r].cfg, client |-> req[r].client]
  BY <1>1, AskingRequest
<1> DEFINE a == Answer(r, c)
<1>3. a.kind = req[r].kind /\ a.client = c
  BY <1>2 DEF Answer
<1>4. req'[r] = a /\ \A p \in Requests : p # r => req'[p] = req[p]
  BY <1>1 DEF Move
<1>5. hot'[req[r].kind] = t
  BY <1>1, <1>2
<1> HIDE DEF a
<1>6. Kept(r)
  BY <1>3, <1>4, <1>5 DEF Kept
<1>7. ASSUME NEW p \in Requests, p # r PROVE Kept(p)
  BY <1>4, <1>7 DEF Kept
<1> QED BY <1>6, <1>7

\* Only the two answering steps answer anyone.
LEMMA OthersKept ==
    ASSUME Inv, NEW r \in Requests, NEW new, new.stage # "done", Move(r, new)
    PROVE  \A p \in Requests : Kept(p)
<1>1. req'[r] = new /\ \A p \in Requests : p # r => req'[p] = req[p]
  BY DEF Inv, Move
<1> QED BY <1>1 DEF Kept

LEMMA KeptStep ==
    ASSUME Inv, [Next]_vars
    PROVE  \A r \in Requests : Kept(r)
<1>0. req \in [Requests -> Req] /\ hot \in [Kinds -> Seq(Record)]
      /\ \A k \in Kinds : GoodCache(hot[k])
  BY DEF Inv
<1>1. ASSUME NEW r \in Requests, NEW kind \in Kinds, NEW c \in Clusters,
             NEW t \in Tokens \cup {None}, Ask(r, kind, c, t)
      PROVE  \A p \in Requests : Kept(p)
  <2> DEFINE new == IF t = None \/ config = None THEN Failed(kind)
                    ELSE [stage |-> "lookup", kind |-> kind, cluster |-> c,
                          token |-> t, cfg |-> config, client |-> None]
  <2>1. Move(r, new) /\ new.stage # "done"
    BY <1>1 DEF Ask, Failed
  <2> HIDE DEF new
  <2> QED BY <2>1, OthersKept
<1>2. ASSUME NEW r \in Requests, Lookup(r) PROVE \A p \in Requests : Kept(p)
  <2> DEFINE k == req[r].kind
             at == Positions(hot[k], Key(r))
             new == [req[r] EXCEPT !.stage = "build"]
  <2>1. req[r].stage \in Asking /\ req[r] \in Req
    BY <1>0, <1>2 DEF Lookup, Asking
  <2>2. new.stage # "done"
    <3>1. req[r] = [stage |-> req[r].stage, kind |-> req[r].kind, cluster |-> req[r].cluster,
                    token |-> req[r].token, cfg |-> req[r].cfg, client |-> req[r].client]
      BY <2>1, AskingRequest
    <3> QED BY <3>1
  <2>3. CASE Move(r, new)
    <3> HIDE DEF new
    <3> QED BY <2>2, <2>3, OthersKept
  <2>4. ASSUME NEW i \in at, hot' = [hot EXCEPT ![k] = Touch(hot[k], i)],
               Move(r, Answer(r, hot[k][i].client))
        PROVE  \A p \in Requests : Kept(p)
    <3>1. i \in DOMAIN hot[k] /\ GoodCache(hot[k])
      BY <2>1, FoundOwn
    <3>2. \E j \in DOMAIN Touch(hot[k], i) : Touch(hot[k], i)[j] = hot[k][i]
      BY <3>1, TouchKeeps
    <3> QED BY <2>1, <2>4, <3>2, AnsweredKept
  <2> QED BY <1>2, <2>3, <2>4 DEF Lookup
<1>3. ASSUME NEW r \in Requests, Store(r) PROVE \A p \in Requests : Kept(p)
  <2> DEFINE k == req[r].kind
             at == Positions(hot[k], Key(r))
             new == [key |-> Key(r), client |-> NewClient(r), age |-> 0]
  <2>1. req[r].stage \in Asking /\ req[r] \in Req
    BY <1>0, <1>3 DEF Store, Asking
  <2>2. ASSUME NEW i \in at, hot' = [hot EXCEPT ![k] = Touch(hot[k], i)],
               Move(r, Answer(r, hot[k][i].client))
        PROVE  \A p \in Requests : Kept(p)
    <3>1. i \in DOMAIN hot[k] /\ GoodCache(hot[k])
      BY <2>1, FoundOwn
    <3>2. \E j \in DOMAIN Touch(hot[k], i) : Touch(hot[k], i)[j] = hot[k][i]
      BY <3>1, TouchKeeps
    <3> QED BY <2>1, <2>2, <3>2, AnsweredKept
  <2>3. ASSUME hot' = [hot EXCEPT ![k] = Evict(Append(hot[k], new))],
               Move(r, Answer(r, new.client))
        PROVE  \A p \in Requests : Kept(p)
    <3>1. /\ req[r].cluster \in Clusters /\ req[r].token \in Tokens
          /\ req[r].cfg \in Hosts /\ k \in Kinds
      BY <2>1, AskingRequest
    <3>2. new \in Record
      BY <3>1, TTLAssumption DEF Record, NewClient, Client, Key
    <3>3. hot[k] \in Seq(Record)
      BY <1>0, <3>1
    <3> HIDE DEF new
    <3>4. \E j \in DOMAIN Evict(Append(hot[k], new)) : Evict(Append(hot[k], new))[j] = new
      BY <3>2, <3>3, EvictKeeps
    <3> QED BY <2>1, <2>3, <3>4, AnsweredKept
  <2> QED BY <1>3, <2>2, <2>3 DEF Store
<1>4. ASSUME NEW r \in Requests, BuildFails(r) PROVE \A p \in Requests : Kept(p)
  <2>1. Move(r, Failed(req[r].kind)) /\ Failed(req[r].kind).stage # "done"
    BY <1>4 DEF BuildFails, Failed
  <2> QED BY <2>1, OthersKept
<1>5. CASE UNCHANGED req
  BY <1>5 DEF Kept
<1> QED BY <1>1, <1>2, <1>3, <1>4, <1>5 DEF Next, vars, SetBaseConfig, ClearCaches, Tick

\* The eviction after dynamicFromCache, authFromCache, storeDynamic and
\* storeAuth never takes the client that was just handed out.
THEOREM UsedCorrect == Spec => JustUsedIsKept
<1>1. Inv /\ [Next]_vars =>
        [\A r \in Requests :
            req[r].stage # "done" /\ req'[r].stage = "done" =>
                \E i \in DOMAIN hot'[req'[r].kind] :
                    hot'[req'[r].kind][i].client = req'[r].client]_vars
  BY KeptStep DEF Kept
<1> QED BY <1>1, InvInit, InvStep, PTL DEF Spec, JustUsedIsKept
=============================================================================
