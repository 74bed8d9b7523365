--------------------------- MODULE SliceAuthority ---------------------------
(***************************************************************************)
(* tenant.SliceAuthority: which shard's virtual workspace serves a tenant's *)
(* logical cluster.  Requests run concurrently; the lock is held only for  *)
(* single reads and writes of the caches, never across the read of the     *)
(* endpoint slice, a probe or the construction of a client.                *)
(*                                                                         *)
(* URLs are trimmed and de-duplicated by SliceEndpointURLs, so the slice   *)
(* is a set of shards; the order in which they are probed does not matter  *)
(* because at most one shard hosts a cluster.                              *)
(***************************************************************************)
EXTENDS Naturals, FiniteSets

CONSTANTS
    Shards,       \* virtual-workspace URLs
    Clusters,     \* tenants' logical clusters
    Home,         \* the shard that hosts each cluster
    Requests,     \* concurrent callers of ClusterClient
    ClientCap,    \* authorityClientCacheCap
    None

ASSUME ShardsFinite == IsFiniteSet(Shards)
ASSUME HomeAssumption == Home \in [Clusters -> Shards]
ASSUME CapAssumption == ClientCap \in Nat \ {0}
ASSUME NoShard == None \notin Shards /\ None \notin Clusters

VARIABLES
    slice,          \* the URLs the APIExportEndpointSlice publishes
    shardURLs,      \* the URLs the authority knows
    clusterShard,   \* the shard each cluster was found on, or None
    clients,        \* the <<shard, cluster>> pairs with a cached client
    req             \* the requests

vars == <<slice, shardURLs, clusterShard, clients, req>>

\* `left' are the shards still to be probed or, in a refresh, the URLs read
\* from the slice; `known' are the shards the authority chose from, and
\* `published' those the slice listed when the request began.
Stages == {"idle", "start", "getSlice", "apply", "reload", "probe", "bind",
           "client", "build", "done", "failed"}

Req == [stage : Stages, cluster : Clusters \cup {None},
        shard : Shards \cup {None}, left : SUBSET Shards,
        known : SUBSET Shards, published : SUBSET Shards]

Fresh == [stage |-> "idle", cluster |-> None, shard |-> None,
          left |-> {}, known |-> {}, published |-> {}]

Move(r, new) == req' = [req EXCEPT ![r] = new]

To(r, stage) == Move(r, [req[r] EXCEPT !.stage = stage])
-----------------------------------------------------------------------------
\* ClusterClient is called for a cluster.
Call(r, c) ==
    /\ req[r].stage \in {"idle", "done", "failed"}
    /\ Move(r, [Fresh EXCEPT !.stage = "start", !.cluster = c, !.published = slice])
    /\ UNCHANGED <<slice, shardURLs, clusterShard, clients>>

\* Ready: a refresh when nothing is known yet, no cluster to resolve.
CallReady(r) ==
    /\ req[r].stage \in {"idle", "done", "failed"}
    /\ Move(r, [Fresh EXCEPT !.stage = IF shardURLs # {} THEN "done" ELSE "getSlice",
                             !.published = slice])
    /\ UNCHANGED <<slice, shardURLs, clusterShard, clients>>

\* What shardFor does with the shards it knows: none is an error, a single
\* one is taken unasked, several are probed.
Choose(r, shards) ==
    Move(r, [req[r] EXCEPT
        !.stage = IF shards = {} THEN "failed"
                  ELSE IF Cardinality(shards) = 1 THEN "client" ELSE "probe",
        !.shard = IF Cardinality(shards) = 1
                  THEN CHOOSE s \in shards : TRUE ELSE None,
        !.left = shards,
        !.known = shards])

\* The first look at the caches, under one read lock.
Start(r) ==
    /\ req[r].stage = "start"
    /\ IF clusterShard[req[r].cluster] # None
       THEN Move(r, [req[r] EXCEPT !.stage = "client",
                                   !.shard = clusterShard[req[r].cluster]])
       ELSE IF shardURLs = {} THEN To(r, "getSlice")
       ELSE Choose(r, shardURLs)
    /\ UNCHANGED <<slice, shardURLs, clusterShard, clients>>

\* refreshShards reads the slice without the lock; an empty one is an error.
GetSlice(r) ==
    /\ req[r].stage = "getSlice"
    /\ IF slice = {} THEN To(r, "failed")
       ELSE Move(r, [req[r] EXCEPT !.stage = "apply", !.left = slice])
    /\ UNCHANGED <<slice, shardURLs, clusterShard, clients>>

GetSliceFails(r) ==
    /\ req[r].stage = "getSlice"
    /\ To(r, "failed")
    /\ UNCHANGED <<slice, shardURLs, clusterShard, clients>>

\* refreshShards installs what it read and forgets what is gone.
Apply(r) ==
    /\ req[r].stage = "apply"
    /\ shardURLs' = req[r].left
    /\ clusterShard' = [c \in Clusters |->
          IF clusterShard[c] \in req[r].left THEN clusterShard[c] ELSE None]
    /\ clients' = {k \in clients : k[1] \in req[r].left}
    /\ To(r, IF req[r].cluster = None THEN "done" ELSE "reload")
    /\ UNCHANGED slice

\* shardFor reads the URLs again after the refresh.
Reload(r) ==
    /\ req[r].stage = "reload"
    /\ Choose(r, shardURLs)
    /\ UNCHANGED <<slice, shardURLs, clusterShard, clients>>

\* Slip: any answer counts, also a rejection.
ProbeAnyAnswer(r, s, reachable) ==
    /\ req[r].stage = "probe"
    /\ s \in req[r].left
    /\ IF reachable
       THEN Move(r, [req[r] EXCEPT !.stage = "bind", !.shard = s])
       ELSE Move(r, [req[r] EXCEPT !.left = @ \ {s},
                                   !.stage = IF req[r].left = {s} THEN "failed" ELSE @])
    /\ UNCHANGED <<slice, shardURLs, clusterShard, clients>>

\* probeShard: only the shard that hosts the cluster answers, if it can be
\* reached.
Probe(r, s, reachable) ==
    /\ req[r].stage = "probe"
    /\ s \in req[r].left
    /\ IF reachable /\ Home[req[r].cluster] = s
       THEN Move(r, [req[r] EXCEPT !.stage = "bind", !.shard = s])
       ELSE Move(r, [req[r] EXCEPT !.left = @ \ {s},
                                   !.stage = IF req[r].left = {s} THEN "failed" ELSE @])
    /\ UNCHANGED <<slice, shardURLs, clusterShard, clients>>

Bind(r) ==
    /\ req[r].stage = "bind"
    /\ clusterShard' = [clusterShard EXCEPT ![req[r].cluster] = req[r].shard]
    /\ To(r, "client")
    /\ UNCHANGED <<slice, shardURLs, clients>>

\* The client is looked up under the lock and built without it.
Lookup(r) ==
    /\ req[r].stage = "client"
    /\ To(r, IF <<req[r].shard, req[r].cluster>> \in clients THEN "done" ELSE "build")
    /\ UNCHANGED <<slice, shardURLs, clusterShard, clients>>

\* Slip: the cap is not enforced.
BuildUncapped(r) ==
    /\ req[r].stage = "build"
    /\ clients' = clients \cup {<<req[r].shard, req[r].cluster>>}
    /\ To(r, "done")
    /\ UNCHANGED <<slice, shardURLs, clusterShard>>

\* The whole map is dropped when it is full.
Build(r) ==
    /\ req[r].stage = "build"
    /\ clients' = (IF Cardinality(clients) >= ClientCap THEN {} ELSE clients)
                  \cup {<<req[r].shard, req[r].cluster>>}
    /\ To(r, "done")
    /\ UNCHANGED <<slice, shardURLs, clusterShard>>

BuildFails(r) ==
    /\ req[r].stage = "build"
    /\ To(r, "failed")
    /\ UNCHANGED <<slice, shardURLs, clusterShard, clients>>

\* kcp publishes a shard's endpoint, or withdraws one.
Publish(urls) ==
    /\ slice # urls
    /\ slice' = urls
    /\ UNCHANGED <<shardURLs, clusterShard, clients, req>>

Init ==
    /\ slice \in SUBSET Shards
    /\ shardURLs = {}
    /\ clusterShard = [c \in Clusters |-> None]
    /\ clients = {}
    /\ req = [r \in Requests |-> Fresh]

Next ==
    \/ \E r \in Requests :
          \/ \E c \in Clusters : Call(r, c)
          \/ CallReady(r)
          \/ Start(r) \/ GetSlice(r) \/ GetSliceFails(r) \/ Apply(r) \/ Reload(r)
          \/ \E s \in Shards, reachable \in BOOLEAN : Probe(r, s, reachable)
          \/ Bind(r) \/ Lookup(r) \/ Build(r) \/ BuildFails(r)
    \/ \E urls \in SUBSET Shards : Publish(urls)

Spec == Init /\ [][Next]_vars
-----------------------------------------------------------------------------
(***************************************************************************)
(* Properties                                                              *)
(***************************************************************************)
\* Every variable has its type.
TypeOK ==
    /\ slice \subseteq Shards
    /\ shardURLs \subseteq Shards
    /\ clusterShard \in [Clusters -> Shards \cup {None}]
    /\ clients \subseteq Shards \X Clusters
    /\ req \in [Requests -> Req]

\* A cluster is only ever sent to the shard that hosts it, except that a shard
\* which is the only one known is taken without asking; in particular no
\* wrong binding is remembered, whatever refreshes and probes overlap.
RoutedHome ==
    /\ \A c \in Clusters : clusterShard[c] \in {None, Home[c]}
    /\ \A r \in Requests :
          req[r].stage \in {"bind", "client", "build"} =>
              \/ req[r].shard = Home[req[r].cluster]
              \/ req[r].known = {req[r].shard}

\* The client cache stays within its cap although the check and the insertion
\* of concurrent requests come after an unlocked lookup.
CacheBounded == Cardinality(clients) <= ClientCap

\* refreshShards' comment: "a miss forces it so a fresh shard is picked up
\* immediately".  A request for a cluster whose shard was published before
\* the request began does not fail because the shard is unknown.
FreshShardPickedUp ==
    \A r \in Requests :
        req[r].stage = "failed" /\ req[r].left = {} /\ req[r].known # {} =>
            (Home[req[r].cluster] \in req[r].published =>
                Home[req[r].cluster] \in req[r].known)

\* refreshShards' comment: "bindings whose shard disappeared are forgotten so
\* they re-resolve instead of pinning a dead URL".
DeadBindingForgotten ==
    \A c \in Clusters : clusterShard[c] # None => clusterShard[c] \in shardURLs
=============================================================================
