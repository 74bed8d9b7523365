--------------------------- MODULE ClientFactory ---------------------------
(***************************************************************************)
(* tenant.ClientFactory: the caller-token clients of a tenant's logical    *)
(* cluster, kept in two caches (dynamic and authorization clients) that    *)
(* are bounded, expire and are shared by all concurrent requests.          *)
(*                                                                         *)
(* A cache is the sequence of its records in the order of `lastUsed', the  *)
(* least recently used one first: cacheClock is one counter under one      *)
(* lock, so no two records share a value and only their order is ever      *)
(* read.  `age' is the time since `createdAt', in units of which TTL make  *)
(* a record expire.  The key holds the first 64 bits of the token's hash;  *)
(* collisions are left out.                                                *)
(***************************************************************************)
EXTENDS Naturals, Sequences

CONSTANTS
    Clusters,     \* tenants' logical clusters
    Tokens,       \* callers' bearer tokens
    Hosts,        \* hosts of the provider kubeconfig
    Requests,     \* concurrent callers of For and AuthorizationFor
    Capacity,     \* cacheCapacity
    TTL,          \* cacheTTL, in ticks of the clock
    None

ASSUME CapacityAssumption == Capacity \in Nat \ {0}
ASSUME TTLAssumption == TTL \in Nat \ {0}
ASSUME NoneAssumption == None \notin Hosts /\ None \notin Tokens

VARIABLES
    config,       \* baseHost, or None while `configured' is false
    clearing,     \* SetBaseConfig has released configMu, not yet taken mu
    hot,          \* the two caches: hot and hotMeta, authHot and authMeta
    req           \* the requests

vars == <<config, clearing, hot, req>>

Kinds == {"dynamic", "authorization"}

Client == [cluster : Clusters, token : Tokens, host : Hosts]

Record == [key : Clusters \X Tokens, client : Client, age : 0..TTL]

\* `cfg' is the host of the configuration the request has read, `client' what
\* it was given.
Asking == {"lookup", "build", "done"}

Req == [stage : {"idle", "failed"}, kind : Kinds] \cup
       [stage : Asking, kind : Kinds, cluster : Clusters, token : Tokens,
        cfg : Hosts, client : Client \cup {None}]

Answer(r, client) == [req[r] EXCEPT !.stage = "done", !.client = client]

Failed(kind) == [stage |-> "failed", kind |-> kind]

Move(r, new) == req' = [req EXCEPT ![r] = new]
-----------------------------------------------------------------------------
\* Slip: the token is left out of the key.
KeyOfCluster(r) == <<req[r].cluster, CHOOSE t \in Tokens : TRUE>>

Key(r) == <<req[r].cluster, req[r].token>>

\* The positions of a key in a cache, and a cache without one position.
Positions(s, key) == {i \in DOMAIN s : s[i].key = key}

Without(s, i) == [j \in 1..(Len(s) - 1) |-> IF j < i THEN s[j] ELSE s[j + 1]]

\* A record becomes the most recently used one.
Touch(s, i) == Append(Without(s, i), s[i])

\* Slip: the capacity is exceeded by one before anything goes.
EvictLate(s) ==
    IF Len(s) > Capacity + 1 THEN SubSeq(s, Len(s) - Capacity, Len(s)) ELSE s

\* Slip: the most recently used records go first.
EvictNewest(s) == IF Len(s) > Capacity THEN SubSeq(s, 1, Capacity) ELSE s

\* The least recently used records go until the capacity is met.
Evict(s) ==
    IF Len(s) > Capacity THEN SubSeq(s, Len(s) - Capacity + 1, Len(s)) ELSE s

NewClient(r) == [cluster |-> req[r].cluster, token |-> req[r].token, host |-> req[r].cfg]
-----------------------------------------------------------------------------
\* For and AuthorizationFor read the configuration; without a token or a
\* configuration they fail.
Ask(r, kind, cluster, token) ==
    /\ req[r].stage \in {"idle", "done", "failed"}
    /\ Move(r, IF token = None \/ config = None THEN Failed(kind)
               ELSE [stage |-> "lookup", kind |-> kind, cluster |-> cluster,
                     token |-> token, cfg |-> config, client |-> None])
    /\ UNCHANGED <<config, clearing, hot>>

\* dynamicFromCache and authFromCache: an expired record is dropped.
Lookup(r) ==
    /\ req[r].stage = "lookup"
    /\ LET k == req[r].kind
           at == Positions(hot[k], Key(r)) IN
       \/ /\ at = {}
          /\ Move(r, [req[r] EXCEPT !.stage = "build"])
          /\ UNCHANGED hot
       \/ \E i \in at :
             \/ /\ hot[k][i].age = TTL
                /\ hot' = [hot EXCEPT ![k] = Without(hot[k], i)]
                /\ Move(r, [req[r] EXCEPT !.stage = "build"])
             \/ /\ hot[k][i].age < TTL
                /\ hot' = [hot EXCEPT ![k] = Touch(hot[k], i)]
                /\ Move(r, Answer(r, hot[k][i].client))
    /\ UNCHANGED <<config, clearing>>

\* storeDynamic and storeAuth, after the client was built without the lock:
\* a record that is there by now wins over the new client.
Store(r) ==
    /\ req[r].stage = "build"
    /\ LET k == req[r].kind
           at == Positions(hot[k], Key(r))
           new == [key |-> Key(r), client |-> NewClient(r), age |-> 0] IN
       \/ \E i \in at :
             /\ hot' = [hot EXCEPT ![k] = Touch(hot[k], i)]
             /\ Move(r, Answer(r, hot[k][i].client))
       \/ /\ at = {}
          /\ hot' = [hot EXCEPT ![k] = Evict(Append(hot[k], new))]
          /\ Move(r, Answer(r, new.client))
    /\ UNCHANGED <<config, clearing>>

BuildFails(r) ==
    /\ req[r].stage = "build"
    /\ Move(r, Failed(req[r].kind))
    /\ UNCHANGED <<config, clearing, hot>>

\* SetBaseConfig takes one lock for the configuration, then another for the
\* caches.  It is called before the factory is shared and by the one
\* goroutine that waits for the kubeconfig.
SetBaseConfig(host) ==
    /\ ~clearing
    /\ config' = host
    /\ clearing' = TRUE
    /\ UNCHANGED <<hot, req>>

ClearCaches ==
    /\ clearing
    /\ clearing' = FALSE
    /\ hot' = [k \in Kinds |-> <<>>]
    /\ UNCHANGED <<config, req>>

\* Time passes.
Older(s) == [i \in DOMAIN s |-> [s[i] EXCEPT !.age = IF @ < TTL THEN @ + 1 ELSE TTL]]

Tick ==
    /\ hot' = [k \in Kinds |-> Older(hot[k])]
    /\ hot' # hot
    /\ UNCHANGED <<config, clearing, req>>

\* NewClientFactory, or NewDeferredClientFactory when there is no kubeconfig.
Init ==
    /\ config \in Hosts \cup {None}
    /\ clearing = FALSE
    /\ hot = [k \in Kinds |-> <<>>]
    /\ req = [r \in Requests |-> [stage |-> "idle", kind |-> "dynamic"]]

Next ==
    \/ \E r \in Requests :
          \/ \E kind \in Kinds, c \in Clusters, t \in Tokens \cup {None} :
                Ask(r, kind, c, t)
          \/ Lookup(r) \/ Store(r) \/ BuildFails(r)
    \/ \E host \in Hosts : SetBaseConfig(host)
    \/ ClearCaches
    \/ Tick

Spec == Init /\ [][Next]_vars
-----------------------------------------------------------------------------
(***************************************************************************)
(* Properties                                                              *)
(***************************************************************************)
\* Every variable has its type.
TypeOK ==
    /\ config \in Hosts \cup {None}
    /\ clearing \in BOOLEAN
    /\ hot \in [Kinds -> Seq(Record)]
    /\ req \in [Requests -> Req]

\* A caller is only ever given a client that carries its own token and
\* addresses its own cluster, whichever requests share the caches and in
\* whatever order their lookups and stores come.
OwnClient ==
    \A r \in Requests :
        req[r].stage = "done" =>
            /\ req[r].client.cluster = req[r].cluster
            /\ req[r].client.token = req[r].token

\* Neither cache outgrows its capacity, and no two of its records are for the
\* same cluster and token although lookup and store are separate steps.
CachesBounded ==
    \A k \in Kinds :
        /\ Len(hot[k]) <= Capacity
        /\ \A i, j \in DOMAIN hot[k] : hot[k][i].key = hot[k][j].key => i = j

\* The client that a request was just given is in the cache for the next one:
\* eviction never takes what was just used or stored.
JustUsedIsKept ==
    [][\A r \in Requests :
          req[r].stage # "done" /\ req'[r].stage = "done" =>
              \E i \in DOMAIN hot'[req'[r].kind] :
                  hot'[req'[r].kind][i].client = req'[r].client]_vars

\* SetBaseConfig's comment: "A changed bootstrap host must not leave clients
\* for the previous host in the cache."
OldHostsCleared ==
    ~clearing =>
        \A k \in Kinds : \A i \in DOMAIN hot[k] : hot[k][i].client.host = config
=============================================================================
