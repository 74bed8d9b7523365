------------------------------- MODULE Query -------------------------------
(***************************************************************************)
(* query_table/v1: the direct action (actions.NewHandler and               *)
(* tenant.ActionExecutor.QueryTable), running beside the tenant and the    *)
(* reconcilers, of which it relies on nothing but their contract.          *)
(*                                                                         *)
(* A request reviews the caller's rights with the caller's token, then     *)
(* reads Table, Warehouse, Connection and Secret one by one with the       *)
(* provider's credential, live and not from a cache, and sends one         *)
(* statement to Databricks.  Each remote call is a step of its own: rights,*)
(* objects and hosts may change, and the deadline may pass, between any    *)
(* two.  One request at a time suffices, because requests share nothing    *)
(* that they write.                                                        *)
(***************************************************************************)
EXTENDS Resources, ActionErrors

VARIABLES
    rights,     \* the rights the caller holds now
    q           \* the request

qvars == <<rights, q>>
allVars == <<resources, qvars>>

\* get on the Table, create on its query_table subresource
Rights == {"get", "create"}

\* The columns asked for: none, ones the table has, one it does not have, or
\* one it does not have whose name contains a marker of
\* safeActionErrorMessage ("token", "secret", "password", ...).
Projections == {"none", "known", "unknown", "unknownMarked"}

Stages == {"idle", "reviewGet", "reviewCreate", "authority", "readTable",
           "readWarehouse", "readConnection", "readSecret", "execute",
           "answered"}

Calls == Stages \ {"idle", "answered"}

\* What a request met, for the properties to refer to.
Causes == {"none", "refused", "denied", "unreadable", "missing", "mismatch",
           "notReady", "noToken", "projection", "databricks", "deadline"}

Success == [code |-> "ok", status |-> 200, retryable |-> FALSE]

\* `held' are the rights the caller held at some moment of the request,
\* `cause' what ended it.
Idle == [stage |-> "idle", ref |-> None, projection |-> "none",
         tbl |-> None, wh |-> None, conn |-> None,
         held |-> {}, cause |-> "none", answer |-> None]
-----------------------------------------------------------------------------
Go(stage) == q' = [q EXCEPT !.stage = stage]

Err(type) == [type |-> type, retryable |-> FALSE, unsafe |-> FALSE]

\* The request is over, and what it has read is forgotten.
Done(cause, answer) ==
    q' = [Idle EXCEPT !.stage = "answered", !.projection = q.projection,
                      !.cause = cause, !.answer = answer]

Fail(err, cause) == Done(cause, Respond(err))

Arrive(t, projection) ==
    /\ q.stage \in {"idle", "answered"}
    /\ q' = [Idle EXCEPT !.stage = "reviewGet", !.ref = t,
                         !.projection = projection, !.held = rights]
    /\ UNCHANGED <<resources, rights>>

\* What the handler and the executor refuse before the first remote call: a
\* wrong method, no bearer, an unknown path, a body, name or deadline that is
\* not valid, no executor (all answered by the handler itself), no identity.
Refusal(code, status, retryable) ==
    [code |-> code, status |-> status, retryable |-> retryable]

Refusals == {Refusal("method_not_allowed", 405, FALSE),
             Refusal("unauthenticated", 401, FALSE),
             Refusal("action_not_found", 404, FALSE),
             Refusal("invalid_request", 400, FALSE),
             Refusal("action_unavailable", 503, TRUE),
             Refusal("invalid_deadline", 400, FALSE),
             Respond(Err("plain"))}

Refuse(answer) ==
    /\ q.stage \in {"idle", "answered"}
    /\ q' = [Idle EXCEPT !.stage = "answered", !.cause = "refused", !.answer = answer]
    /\ UNCHANGED <<resources, rights>>

\* AuthorizeTable and AuthorizeTableAction.
Review(stage, right, next) ==
    /\ q.stage = stage
    /\ IF right \in rights THEN Go(next)
       ELSE Fail(Err("apiForbidden"), "denied")
    /\ UNCHANGED <<resources, rights>>

ReviewGet == Review("reviewGet", "get", "reviewCreate")

\* Slip: the permission to read the Table is taken for the permission to
\* query it.
ReviewCreateAsGet == Review("reviewCreate", "get", "authority")

ReviewCreate == Review("reviewCreate", "create", "authority")

\* AuthorityClient; its failures are those of CallFails.
Authority ==
    /\ q.stage = "authority"
    /\ Go("readTable")
    /\ UNCHANGED <<resources, rights>>

ReadTable ==
    /\ q.stage = "readTable"
    /\ IF api[q.ref] = None THEN Fail(Err("plain"), "missing")
       ELSE q' = [q EXCEPT !.tbl = api[q.ref], !.stage = "readWarehouse"]
    /\ UNCHANGED <<resources, rights>>

\* Slip: a Ready condition counts whatever generation it observed.
ReadWarehouseAnyGeneration ==
    /\ q.stage = "readWarehouse"
    /\ LET wh == api[q.tbl.spec.warehouseRef] IN
       IF wh = None THEN Fail(Err("plain"), "missing")
       ELSE IF q.tbl.spec.connectionRef # wh.spec.connectionRef
            THEN Fail(Err("plain"), "mismatch")
       ELSE IF q.tbl.status.conditions["Ready"].status # "True"
               \/ wh.status.conditions["Ready"].status # "True"
            THEN Fail(Err("notReady"), "notReady")
       ELSE q' = [q EXCEPT !.wh = wh, !.stage = "readConnection"]
    /\ UNCHANGED <<resources, rights>>

ReadWarehouse ==
    /\ q.stage = "readWarehouse"
    /\ LET wh == api[q.tbl.spec.warehouseRef] IN
       IF wh = None THEN Fail(Err("plain"), "missing")
       ELSE IF q.tbl.spec.connectionRef # wh.spec.connectionRef
            THEN Fail(Err("plain"), "mismatch")
       ELSE IF ~CurrentConditionTrue(q.tbl, "Ready")
               \/ ~CurrentConditionTrue(wh, "Ready")
            THEN Fail(Err("notReady"), "notReady")
       ELSE q' = [q EXCEPT !.wh = wh, !.stage = "readConnection"]
    /\ UNCHANGED <<resources, rights>>

ReadConnection ==
    /\ q.stage = "readConnection"
    /\ LET conn == api[q.tbl.spec.connectionRef] IN
       IF conn = None THEN Fail(Err("plain"), "missing")
       ELSE IF ~ConnectionReady(conn) \/ conn.spec.authType # "PAT"
            THEN Fail(Err("notReady"), "notReady")
       ELSE q' = [q EXCEPT !.conn = conn, !.stage = "readSecret"]
    /\ UNCHANGED <<resources, rights>>

\* ResolveBearerToken, and the check that a projection has an allowlist.
ReadSecret ==
    /\ q.stage = "readSecret"
    /\ IF ~secrets[q.tbl.spec.connectionRef] THEN Fail(Err("plain"), "noToken")
       ELSE IF q.projection # "none" /\ q.tbl.status.columns = {}
            THEN Fail(Err("notReady"), "notReady")
       ELSE Go("execute")
    /\ UNCHANGED <<resources, rights>>

\* What executeStatement may fail with, given how Databricks stands: an HTTP
\* error or a statement that did not succeed carries its own verdict on a
\* retry, a failed transport does not.
StatementErrors ==
    LET host == q.conn.spec.host IN
    IF dbx[host] = "unavailable"
    THEN {Err("plain"), [type |-> "metadata", retryable |-> TRUE, unsafe |-> FALSE]}
    ELSE IF \/ dbx[host] = "denied"
            \/ <<host, q.wh.spec.warehouseID>> \notin Provisioned
            \/ TableKind[host, q.tbl.spec.table] # "queryable"
    THEN {Err("metadata")}
    ELSE {}

\* ExecuteTableQuery: SelectTableSQL checks the projection against the
\* allowlist before anything is sent.
Execute ==
    /\ q.stage = "execute"
    /\ IF q.projection \in {"unknown", "unknownMarked"}
       THEN Fail([type |-> "projection", retryable |-> FALSE,
                  unsafe |-> q.projection = "unknownMarked"], "projection")
       ELSE IF StatementErrors # {}
       THEN \E err \in StatementErrors : Fail(err, "databricks")
       ELSE Done("none", Success)
    /\ UNCHANGED <<resources, rights>>

\* A call to kcp fails: a transport or server error, or one the layers
\* above look into because it is wrapped with %w.  The Resolve functions
\* replace NotFound and Forbidden by a text of their own, so a read can only
\* surface Unauthorized; the reviews and AuthorityClient wrap whatever they
\* met.
CallErrors ==
    IF q.stage \in {"reviewGet", "reviewCreate", "authority"}
    THEN {"plain", "apiForbidden", "apiNotFound"}
    ELSE IF q.stage \in {"readTable", "readWarehouse", "readConnection",
                         "readSecret"}
    THEN {"plain", "apiForbidden"}
    ELSE {}

CallFails ==
    /\ \E type \in CallErrors : Fail(Err(type), "unreadable")
    /\ UNCHANGED <<resources, rights>>

\* The action deadline passes, or the caller goes away.
Expire ==
    /\ q.stage \in Calls
    /\ Fail(Err("deadline"), "deadline")
    /\ UNCHANGED <<resources, rights>>

\* RBAC changes, for instance a revoked project grant.
RightsChange(granted) ==
    /\ rights # granted
    /\ rights' = granted
    /\ q' = [q EXCEPT !.held = IF q.stage \in Calls THEN @ \cup granted ELSE @]
    /\ UNCHANGED resources

Step == \/ ReviewGet \/ ReviewCreate \/ Authority \/ ReadTable
        \/ ReadWarehouse \/ ReadConnection \/ ReadSecret \/ Execute

QueryInit == /\ ContractInit
             /\ rights \in SUBSET Rights
             /\ q = Idle

QueryNext == \/ ContractNext /\ UNCHANGED qvars
             \/ \E t \in Tables, p \in Projections : Arrive(t, p)
             \/ \E answer \in Refusals : Refuse(answer)
             \/ Step
             \/ CallFails
             \/ Expire
             \/ \E granted \in SUBSET Rights : RightsChange(granted)

QuerySpec == QueryInit /\ [][QueryNext]_allVars
-----------------------------------------------------------------------------
(***************************************************************************)
(* Properties                                                              *)
(***************************************************************************)
\* A copy of an object that a request has taken, or none yet.
Snapshot == AnyObject \cup {None}

\* The provider's credential reads nothing for a caller who did not hold both
\* the right to see the Table and the right to run the action during this
\* very request, however rights come and go between the two reviews.
ReadsAreAuthorized == q.tbl # None => q.held = Rights

\* The tenant never points this Connection at another host.
HostIsFixed(c) == \A spec1, spec2 \in TenantSpecs[c] : spec1.host = spec2.host

\* Once the whole chain is read, and although its objects were read at
\* different times while reconcilers and tenant kept writing them: Table and
\* Warehouse name the same Connection, and the projection will be checked
\* against a non-empty schema of the table that the statement names, fetched
\* from the host that the statement goes to unless the tenant moves the
\* Connection between hosts.  That exception is needed: nothing in the chain
\* ties the Table's Ready to the Connection's generation, see
\* QueryOfTenant!AllowlistIsOfHost.
TargetIsVouched ==
    q.conn # None =>
        /\ q.wh.spec.connectionRef = q.tbl.spec.connectionRef
        /\ q.tbl.status.columns # {}
        /\ \A s \in q.tbl.status.columns :
              /\ s.table = q.tbl.spec.table
              /\ HostIsFixed(q.tbl.spec.connectionRef) => s.host = q.conn.spec.host

\* The handler's own answers and the three error tables agree: what ended the
\* request decides the code, the HTTP status and the retry flag the caller
\* sees, and no layer downgrades the verdict of the one below.
AnswerMatchesCause ==
    q.stage = "answered" =>
        LET a == q.answer
            Is(code, status, retryable) ==
                a = [code |-> code, status |-> status, retryable |-> retryable]
        IN  /\ q.cause = "none" => a = Success
            /\ q.cause = "refused" /\ a.code # "method_not_allowed" =>
                  actionErrorStatusAllowed(a.code, a.status)
            /\ q.cause = "denied" => Is("resource_forbidden", 403, FALSE)
            /\ q.cause = "notReady" => Is("resource_not_ready", 409, FALSE)
            /\ q.cause = "deadline" => Is("action_timeout", 504, TRUE)
            /\ q.cause = "databricks" =>
                  \/ Is("backend_failure", 503, TRUE)
                  \/ Is("backend_failure", 502, FALSE)
                  \/ Is("action_failed", 502, FALSE)
            /\ q.cause = "projection" /\ q.projection = "unknown" =>
                  Is("schema_projection_invalid", 400, FALSE)

\* What the published contract says of a bound Table that cannot be resolved:
\* resource_not_found, resource_forbidden or resource_not_ready, while
\* action_failed means that the binding was resolved and Databricks failed.
MissingIsReported ==
    q.stage = "answered" /\ q.cause = "missing" =>
        q.answer.code \in {"resource_not_found", "resource_forbidden",
                           "resource_not_ready"}
=============================================================================
