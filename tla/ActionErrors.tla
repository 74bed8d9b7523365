---------------------------- MODULE ActionErrors ----------------------------
(***************************************************************************)
(* How a failure of query_table becomes what the caller sees.  Three       *)
(* separately written layers each have their own table of codes and HTTP   *)
(* statuses: the tenant executor (sanitizeActionError), the handler        *)
(* (normalizeActionError) and the writer of the response (writeFailure).   *)
(*                                                                         *)
(* A Go error is abstracted to what those layers test: its type, whether   *)
(* it is retryable, and whether its message is the default one, a safe     *)
(* text, or a text in which safeActionErrorMessage finds a marker ("token",*)
(* "secret", "://", "select ", ...).                                       *)
(***************************************************************************)
EXTENDS Naturals

\* metadata      statementHTTPError and statementStateError of the backend
\* deadline      context.DeadlineExceeded or context.Canceled in the chain
\* projection    queryapi.ValidationError with code schema_projection_invalid
\* apiNotFound   a Kubernetes API error, wrapped, for which IsNotFound holds
\* apiForbidden  the same for IsForbidden or IsUnauthorized
\* notReady      any other text with "not ready", "schema is not available"
\*               or "unsupported" in it
\* plain         everything else
ErrorTypes == {"metadata", "deadline", "projection", "apiNotFound",
               "apiForbidden", "notReady", "plain"}

GoErrors == [type : ErrorTypes, retryable : BOOLEAN, unsafe : BOOLEAN]

ActionError(code, message, status, retryable) ==
    [code |-> code, message |-> message, status |-> status,
     retryable |-> retryable]

DefaultFailure == ActionError("action_failed", "default", 502, FALSE)

gatewayFailureStatus(retryable) == IF retryable THEN 503 ELSE 502

sanitizeActionError(err) ==
    CASE err.type = "metadata" ->
           ActionError("backend_failure", "safe",
                       gatewayFailureStatus(err.retryable), err.retryable)
      [] err.type = "deadline" -> ActionError("action_timeout", "safe", 504, TRUE)
      [] err.type = "projection" ->
           ActionError("schema_projection_invalid",
                       IF err.unsafe THEN "unsafe" ELSE "safe", 400, FALSE)
      [] err.type = "apiNotFound" ->
           ActionError("resource_not_found", "safe", 404, FALSE)
      [] err.type = "apiForbidden" ->
           ActionError("resource_forbidden", "safe", 403, FALSE)
      [] err.type = "notReady" ->
           ActionError("resource_not_ready", "safe", 409, FALSE)
      [] err.type = "plain" ->
           ActionError("backend_failure", "default", 502, FALSE)

\* Slip: one list of statuses for all codes, and it lacks Conflict.
actionErrorStatusAllowedAnyCode(code, status) ==
    status \in {400, 401, 403, 404, 422, 502, 503, 504}

actionErrorStatusAllowed(code, status) ==
    CASE code = "unauthenticated" -> status = 401
      [] code \in {"tenant_required", "resource_forbidden"} -> status = 403
      [] code \in {"action_not_found", "resource_not_found"} -> status = 404
      [] code \in {"invalid_request", "invalid_deadline",
                   "schema_projection_invalid"} -> status \in {400, 422}
      [] code = "action_unavailable" -> status = 503
      [] code = "action_timeout" -> status \in {503, 504}
      [] code = "resource_not_ready" -> status \in {409, 503}
      [] code \in {"backend_failure", "action_failed"} -> status \in {502, 503}

\* A message with a marker in it takes its code with it.
normalizeActionError(failure) ==
    LET gateway == failure.code \in {"backend_failure", "action_failed"}
        allowed == actionErrorStatusAllowed(failure.code, failure.status)
    IN  IF failure.message = "unsafe" \/ (~allowed /\ ~gateway)
        THEN DefaultFailure
        ELSE [failure EXCEPT
                !.status = IF allowed THEN @
                           ELSE gatewayFailureStatus(failure.retryable)]

\* The default message goes out under the default code only.
writeFailure(failure) ==
    LET code == IF failure.message = "default" THEN "action_failed"
                ELSE failure.code
        Sent(c, status, retryable) ==
            [code |-> c, status |-> status, retryable |-> retryable]
    IN  IF actionErrorStatusAllowed(code, failure.status)
        THEN Sent(code, failure.status, failure.retryable)
        ELSE IF code \in {"backend_failure", "action_failed"}
        THEN Sent(code, gatewayFailureStatus(failure.retryable), failure.retryable)
        ELSE Sent("action_failed", 502, FALSE)

\* NewHandler after QueryTable returned an error.
Respond(err) ==
    IF err.type = "deadline"
    THEN [code |-> "action_timeout", status |-> 504, retryable |-> TRUE]
    ELSE writeFailure(normalizeActionError(sanitizeActionError(err)))
=============================================================================
