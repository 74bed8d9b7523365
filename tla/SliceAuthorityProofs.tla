------------------------ MODULE SliceAuthorityProofs ------------------------
(***************************************************************************)
(* Proofs about SliceAuthority, for any finite set of shards, any clusters *)
(* and any number of concurrent requests.                                  *)
(***************************************************************************)
EXTENDS SliceAuthority, FiniteSetTheorems, TLAPS

\* A request past its beginning has a cluster, and the shard it was given is
\* right; a request still choosing has none to be wrong about.
Resolving == {"start", "reload", "probe", "bind", "client", "build"}

RequestInv(r) ==
    /\ req[r].stage \in Resolving => req[r].cluster \in Clusters
    /\ req[r].stage \in {"bind", "client", "build"} =>
          /\ req[r].shard \in Shards
          /\ \/ req[r].shard = Home[req[r].cluster]
             \/ req[r].stage # "bind" /\ req[r].known = {req[r].shard}

Inv ==
    /\ TypeOK
    /\ \A c \in Clusters : clusterShard[c] \in {None, Home[c]}
    /\ \A r \in Requests : RequestInv(r)
    /\ IsFiniteSet(clients)
    /\ CacheBounded

\* Of a single known shard, the one taken is that one.
LEMMA OnlyShard ==
    ASSUME NEW shards \in SUBSET Shards, Cardinality(shards) = 1
    PROVE  /\ (CHOOSE s \in shards : TRUE) \in Shards
           /\ shards = {CHOOSE s \in shards : TRUE}
<1>1. IsFiniteSet(shards)
  BY ShardsFinite, FS_Subset
<1>2. PICK x : shards = {x}
  BY <1>1, FS_Singleton
<1> QED BY <1>2

\* A request that moves to a state of its type about which RequestInv holds
\* leaves the others as they were.
LEMMA MoveKeeps ==
    ASSUME TypeOK, \A p \in Requests : RequestInv(p),
           NEW r \in Requests, NEW new \in Req, Move(r, new),
           new.stage \in Resolving => new.cluster \in Clusters,
           new.stage \in {"bind", "client", "build"} =>
              /\ new.shard \in Shards
              /\ \/ new.shard = Home[new.cluster]
                 \/ new.stage # "bind" /\ new.known = {new.shard}
    PROVE  /\ req' \in [Requests -> Req]
           /\ \A p \in Requests : RequestInv(p)'
<1>1. req' = [req EXCEPT ![r] = new]
  BY DEF Move
<1>2. req' \in [Requests -> Req] /\ req'[r] = new
  BY <1>1 DEF TypeOK
<1>3. RequestInv(r)'
  BY <1>2 DEF RequestInv
<1>4. ASSUME NEW p \in Requests, p # r PROVE RequestInv(p)'
  <2>1. req'[p] = req[p]
    BY <1>1, <1>4 DEF TypeOK
  <2> QED BY <2>1 DEF RequestInv
<1> QED BY <1>2, <1>3, <1>4

\* Choosing among known shards yields a right one or leaves it to the probes.
LEMMA ChooseKeeps ==
    ASSUME TypeOK, \A p \in Requests : RequestInv(p),
           NEW r \in Requests, req[r].cluster \in Clusters,
           Choose(r, shardURLs)
    PROVE  /\ req' \in [Requests -> Req]
           /\ \A p \in Requests : RequestInv(p)'
<1> DEFINE only == CHOOSE s \in shardURLs : TRUE
           stage == IF shardURLs = {} THEN "failed"
                    ELSE IF Cardinality(shardURLs) = 1 THEN "client" ELSE "probe"
           shard == IF Cardinality(shardURLs) = 1 THEN only ELSE None
           new == [req[r] EXCEPT !.stage = stage, !.shard = shard,
                                 !.left = shardURLs, !.known = shardURLs]
<1>1. Move(r, new)
  BY DEF Choose
<1>2. shardURLs \subseteq Shards /\ req[r] \in Req
  BY DEF TypeOK
<1>3. Cardinality(shardURLs) = 1 => only \in Shards /\ shardURLs = {only}
  BY <1>2, OnlyShard
<1>4. stage \in Stages /\ (stage = "client" => Cardinality(shardURLs) = 1)
      /\ stage \notin {"bind", "build"}
  BY DEF Stages
<1>5. shard \in Shards \cup {None}
  BY <1>3
<1>6. stage = "client" => shard \in Shards /\ shardURLs = {shard}
  BY <1>3, <1>4
<1> HIDE DEF stage, shard
<1>7. /\ new \in Req /\ new.stage = stage /\ new.cluster = req[r].cluster
      /\ new.shard = shard /\ new.known = shardURLs
  BY <1>2, <1>4, <1>5 DEF Req
<1> HIDE DEF new
<1> QED BY <1>1, <1>4, <1>6, <1>7, MoveKeeps

\* Every step keeps the invariant.
LEMMA InvStep == Inv /\ [Next]_vars => Inv'
<1> SUFFICES ASSUME Inv, [Next]_vars PROVE Inv'
  OBVIOUS
<1> USE DEF Inv
<1>0. ASSUME NEW r \in Requests
      PROVE  req[r] \in Req /\ RequestInv(r)
  BY DEF TypeOK
\* A request that only changes stage, to one with nothing more to show.
<1>s. ASSUME NEW r \in Requests, NEW stage \in Stages, To(r, stage),
             stage \in Resolving => req[r].cluster \in Clusters,
             stage # "bind",
             stage \in {"client", "build"} =>
                req[r].stage \in {"bind", "client", "build"}
      PROVE  /\ req' \in [Requests -> Req]
             /\ \A p \in Requests : RequestInv(p)'
  <2> DEFINE new == [req[r] EXCEPT !.stage = stage]
  <2>1. Move(r, new)
    BY <1>s DEF To
  <2>2. /\ new \in Req /\ new.stage = stage /\ new.cluster = req[r].cluster
        /\ new.shard = req[r].shard /\ new.known = req[r].known
    BY <1>0 DEF Req
  <2> HIDE DEF new
  <2> QED BY <1>s, <1>0, <2>1, <2>2, MoveKeeps DEF RequestInv
<1>1. ASSUME NEW r \in Requests, NEW c \in Clusters, Call(r, c) PROVE Inv'
  <2> DEFINE new == [Fresh EXCEPT !.stage = "start", !.cluster = c, !.published = slice]
  <2>1. new \in Req /\ new.stage = "start" /\ new.cluster = c
    BY DEF Fresh, Req, Stages, TypeOK
  <2>2. Move(r, new) /\ UNCHANGED <<slice, shardURLs, clusterShard, clients>>
    BY <1>1 DEF Call
  <2> HIDE DEF new
  <2>3. /\ req' \in [Requests -> Req] /\ \A p \in Requests : RequestInv(p)'
    BY <2>1, <2>2, MoveKeeps
  <2> QED BY <2>2, <2>3 DEF TypeOK, CacheBounded
<1>2. ASSUME NEW r \in Requests, CallReady(r) PROVE Inv'
  <2> DEFINE stage == IF shardURLs # {} THEN "done" ELSE "getSlice"
             new == [Fresh EXCEPT !.stage = stage, !.published = slice]
  <2>1. stage \in Stages /\ stage \notin Resolving
    BY DEF Stages, Resolving
  <2>2. Move(r, new) /\ UNCHANGED <<slice, shardURLs, clusterShard, clients>>
    BY <1>2 DEF CallReady
  <2> HIDE DEF stage
  <2>3. new \in Req /\ new.stage = stage
    BY <2>1 DEF Fresh, Req, TypeOK
  <2> HIDE DEF new
  <2>4. /\ req' \in [Requests -> Req] /\ \A p \in Requests : RequestInv(p)'
    BY <2>1, <2>2, <2>3, MoveKeeps DEF Resolving
  <2> QED BY <2>2, <2>4 DEF TypeOK, CacheBounded
<1>3. ASSUME NEW r \in Requests, Start(r) PROVE Inv'
  <2> DEFINE c == req[r].cluster
  <2>1. /\ c \in Clusters
        /\ UNCHANGED <<slice, shardURLs, clusterShard, clients>>
    BY <1>3, <1>0 DEF Start, RequestInv, Resolving
  <2>2. CASE clusterShard[c] # None
    <3> DEFINE new == [req[r] EXCEPT !.stage = "client", !.shard = clusterShard[c]]
    <3>1. clusterShard[c] \in Shards /\ clusterShard[c] = Home[c]
      BY <2>1, <2>2 DEF TypeOK
    <3>2. new \in Req /\ new.stage = "client" /\ new.cluster = c
          /\ new.shard = clusterShard[c]
      BY <1>0, <3>1 DEF Req, Stages
    <3>3. Move(r, new)
      BY <1>3, <2>2 DEF Start
    <3> HIDE DEF new
    <3> QED BY <2>1, <3>1, <3>2, <3>3, MoveKeeps DEF TypeOK, CacheBounded
  <2>3. CASE clusterShard[c] = None /\ shardURLs = {}
    <3>1. To(r, "getSlice")
      BY <1>3, <2>3 DEF Start
    <3> QED BY <2>1, <3>1, <1>s DEF TypeOK, CacheBounded, Stages, Resolving
  <2>4. CASE clusterShard[c] = None /\ shardURLs # {}
    <3>1. Choose(r, shardURLs)
      BY <1>3, <2>4 DEF Start
    <3> QED BY <2>1, <3>1, ChooseKeeps DEF TypeOK, CacheBounded
  <2> QED BY <2>2, <2>3, <2>4
<1>4. ASSUME NEW r \in Requests, GetSlice(r) \/ GetSliceFails(r) PROVE Inv'
  <2>1. UNCHANGED <<slice, shardURLs, clusterShard, clients>>
    BY <1>4 DEF GetSlice, GetSliceFails
  <2>2. CASE To(r, "failed")
    BY <2>1, <2>2, <1>s DEF TypeOK, CacheBounded, Stages, Resolving
  <2>3. CASE Move(r, [req[r] EXCEPT !.stage = "apply", !.left = slice])
    <3> DEFINE new == [req[r] EXCEPT !.stage = "apply", !.left = slice]
    <3>1. new \in Req /\ new.stage = "apply"
      BY <1>0 DEF Req, Stages, TypeOK
    <3> HIDE DEF new
    <3> QED BY <2>1, <2>3, <3>1, MoveKeeps DEF TypeOK, CacheBounded, Resolving, new
  <2> QED BY <1>4, <2>2, <2>3 DEF GetSlice, GetSliceFails
<1>5. ASSUME NEW r \in Requests, Apply(r) PROVE Inv'
  <2> DEFINE stage == IF req[r].cluster = None THEN "done" ELSE "reload"
  <2>1. req[r].left \subseteq Shards /\ req[r].cluster \in Clusters \cup {None}
    BY <1>0 DEF Req
  <2>2. /\ To(r, stage)
        /\ shardURLs' = req[r].left /\ slice' = slice
        /\ clusterShard' = [c \in Clusters |->
             IF clusterShard[c] \in req[r].left THEN clusterShard[c] ELSE None]
        /\ clients' = {k \in clients : k[1] \in req[r].left}
    BY <1>5 DEF Apply
  <2>3. /\ stage \in Stages /\ stage \notin {"bind", "client", "build"}
        /\ stage \in Resolving => req[r].cluster \in Clusters
    BY <2>1 DEF Stages, Resolving
  <2>4. /\ req' \in [Requests -> Req] /\ \A p \in Requests : RequestInv(p)'
    <3> HIDE DEF stage
    <3> QED BY <2>2, <2>3, <1>s
  <2>5. clients' \subseteq clients
    BY <2>2
  <2>6. IsFiniteSet(clients') /\ CacheBounded'
    <3>1. IsFiniteSet(clients') /\ Cardinality(clients') <= Cardinality(clients)
      BY <2>5, FS_Subset
    <3>2. Cardinality(clients) \in Nat /\ Cardinality(clients') \in Nat
      BY <3>1, FS_CardinalityType
    <3> QED BY <3>1, <3>2, CapAssumption DEF CacheBounded
  <2>7. /\ clusterShard' \in [Clusters -> Shards \cup {None}]
        /\ \A c \in Clusters : clusterShard'[c] \in {None, Home[c]}
    BY <2>2 DEF TypeOK
  <2> QED BY <2>1, <2>2, <2>4, <2>5, <2>6, <2>7 DEF TypeOK
<1>6. ASSUME NEW r \in Requests, Reload(r) PROVE Inv'
  <2>1. req[r].cluster \in Clusters
    BY <1>6, <1>0 DEF Reload, RequestInv, Resolving
  <2> QED BY <1>6, <2>1, ChooseKeeps DEF Reload, TypeOK, CacheBounded
<1>7. ASSUME NEW r \in Requests, NEW s \in Shards, NEW reachable \in BOOLEAN,
             Probe(r, s, reachable)
      PROVE  Inv'
  <2>1. /\ req[r].cluster \in Clusters /\ req[r].stage = "probe"
        /\ UNCHANGED <<slice, shardURLs, clusterShard, clients>>
    BY <1>7, <1>0 DEF Probe, RequestInv, Resolving
  <2>2. CASE reachable /\ Home[req[r].cluster] = s
    <3> DEFINE new == [req[r] EXCEPT !.stage = "bind", !.shard = s]
    <3>1. new \in Req /\ new.stage = "bind" /\ new.cluster = req[r].cluster
          /\ new.shard = s
      BY <1>0 DEF Req, Stages
    <3>2. Move(r, new)
      BY <1>7, <2>2 DEF Probe
    <3> HIDE DEF new
    <3> QED BY <2>1, <2>2, <3>1, <3>2, MoveKeeps DEF TypeOK, CacheBounded
  <2>3. CASE ~(reachable /\ Home[req[r].cluster] = s)
    <3> DEFINE stage == IF req[r].left = {s} THEN "failed" ELSE req[r].stage
               new == [req[r] EXCEPT !.left = req[r].left \ {s}, !.stage = stage]
    <3>1. stage \in {"failed", "probe"}
      BY <2>1
    <3>2. Move(r, new)
      BY <1>7, <2>3, <1>0 DEF Probe, Req
    <3> HIDE DEF stage
    <3>3. new \in Req /\ new.stage = stage /\ new.cluster = req[r].cluster
      BY <1>0, <3>1 DEF Req, Stages
    <3> HIDE DEF new
    <3> QED BY <2>1, <3>1, <3>2, <3>3, MoveKeeps DEF TypeOK, CacheBounded
  <2> QED BY <2>2, <2>3
<1>8. ASSUME NEW r \in Requests, Bind(r) PROVE Inv'
  <2> DEFINE c == req[r].cluster
  <2>1. /\ req[r].stage = "bind" /\ To(r, "client")
        /\ clusterShard' = [clusterShard EXCEPT ![c] = req[r].shard]
        /\ UNCHANGED <<slice, shardURLs, clients>>
    BY <1>8 DEF Bind
  <2>2. c \in Clusters /\ req[r].shard \in Shards
    BY <2>1, <1>0 DEF RequestInv, Resolving
  <2>3. req[r].shard = Home[c]
    BY <2>1, <1>0 DEF RequestInv
  <2>4. /\ req' \in [Requests -> Req] /\ \A p \in Requests : RequestInv(p)'
    BY <2>1, <2>2, <1>s DEF Stages
  <2> QED BY <2>1, <2>2, <2>3, <2>4 DEF TypeOK, CacheBounded
<1>9. ASSUME NEW r \in Requests, Lookup(r) PROVE Inv'
  <2> DEFINE stage == IF <<req[r].shard, req[r].cluster>> \in clients THEN "done" ELSE "build"
  <2>1. /\ req[r].stage = "client" /\ To(r, stage)
        /\ UNCHANGED <<slice, shardURLs, clusterShard, clients>>
    BY <1>9 DEF Lookup
  <2>2. stage \in Stages /\ stage # "bind" /\ req[r].cluster \in Clusters
    BY <2>1, <1>0 DEF Stages, RequestInv, Resolving
  <2> HIDE DEF stage
  <2> QED BY <2>1, <2>2, <1>s DEF TypeOK, CacheBounded
<1>10. ASSUME NEW r \in Requests, Build(r) PROVE Inv'
  <2> DEFINE base == IF Cardinality(clients) >= ClientCap THEN {} ELSE clients
             pair == <<req[r].shard, req[r].cluster>>
  <2>1. /\ req[r].stage = "build" /\ To(r, "done")
        /\ clients' = base \cup {pair}
        /\ UNCHANGED <<slice, shardURLs, clusterShard>>
    BY <1>10 DEF Build
  <2>2. pair \in Shards \X Clusters
    BY <2>1, <1>0 DEF RequestInv, Resolving
  <2>3. base \subseteq Shards \X Clusters /\ IsFiniteSet(base)
        /\ Cardinality(base) + 1 <= ClientCap
    <3>1. CASE Cardinality(clients) >= ClientCap
      BY <3>1, FS_EmptySet, CapAssumption
    <3>2. CASE ~(Cardinality(clients) >= ClientCap)
      <4>1. Cardinality(clients) \in Nat
        BY FS_CardinalityType
      <4> QED BY <3>2, <4>1, CapAssumption DEF TypeOK
    <3> QED BY <3>1, <3>2
  <2> HIDE DEF base, pair
  <2>4. /\ IsFiniteSet(base \cup {pair}) /\ Cardinality(base) \in Nat
        /\ \/ Cardinality(base \cup {pair}) = Cardinality(base)
           \/ Cardinality(base \cup {pair}) = Cardinality(base) + 1
    BY <2>3, FS_AddElement, FS_CardinalityType
  <2>5. IsFiniteSet(clients') /\ CacheBounded'
    BY <2>1, <2>3, <2>4, CapAssumption DEF CacheBounded
  <2>6. /\ req' \in [Requests -> Req] /\ \A p \in Requests : RequestInv(p)'
    BY <2>1, <1>s DEF Stages, Resolving
  <2> QED BY <2>1, <2>2, <2>3, <2>5, <2>6 DEF TypeOK
<1>11. ASSUME NEW urls \in SUBSET Shards, Publish(urls) PROVE Inv'
  BY <1>11 DEF Publish, TypeOK, RequestInv, CacheBounded
<1>12. ASSUME NEW r \in Requests, BuildFails(r) PROVE Inv'
  <2>1. To(r, "failed") /\ UNCHANGED <<slice, shardURLs, clusterShard, clients>>
    BY <1>12 DEF BuildFails
  <2> QED BY <2>1, <1>s DEF TypeOK, CacheBounded, Stages, Resolving
<1>13. CASE UNCHANGED vars
  BY <1>13 DEF vars, TypeOK, RequestInv, CacheBounded
<1> QED BY <1>1, <1>2, <1>3, <1>4, <1>5, <1>6, <1>7, <1>8, <1>9, <1>10, <1>11,
           <1>12, <1>13 DEF Next

\* Nothing is known and nothing is asked at first.
LEMMA InvInit == Init => Inv
<1> SUFFICES ASSUME Init PROVE Inv
  OBVIOUS
<1>1. Fresh \in Req /\ Fresh.stage = "idle"
  BY DEF Fresh, Req, Stages
<1>2. TypeOK /\ \A r \in Requests : req[r] = Fresh
  BY <1>1 DEF Init, TypeOK
<1>3. \A r \in Requests : RequestInv(r)
  BY <1>1, <1>2 DEF RequestInv, Resolving
<1>4. IsFiniteSet(clients) /\ CacheBounded
  BY FS_EmptySet, CapAssumption DEF Init, CacheBounded
<1> QED BY <1>2, <1>3, <1>4 DEF Inv, Init

\* ClusterClient never remembers a wrong shard for a cluster and never hands
\* out a client for one, but for the shard that is the only one known.
THEOREM RoutingCorrect == Spec => []RoutedHome
<1>1. Inv => RoutedHome
  BY DEF Inv, RequestInv, RoutedHome
<1> QED BY <1>1, InvInit, InvStep, PTL DEF Spec

\* The client cache of ClusterClient never outgrows authorityClientCacheCap.
THEOREM CacheCorrect == Spec => []CacheBounded
<1>1. Inv => CacheBounded
  BY DEF Inv
<1> QED BY <1>1, InvInit, InvStep, PTL DEF Spec

\* The authority's caches and its callers keep their types.
THEOREM AuthorityTypeCorrect == Spec => []TypeOK
<1>1. Inv => TypeOK
  BY DEF Inv
<1> QED BY <1>1, InvInit, InvStep, PTL DEF Spec
=============================================================================
