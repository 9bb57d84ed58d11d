----------------------------- MODULE ApiResponse -----------------------------
(***************************************************************************)
(* What the provider concludes from one answer of a Confluent Cloud API    *)
(* (internal/provider/utils.go).                                           *)
(*                                                                         *)
(* An answer keeps what the code can tell apart: the status code ("none"   *)
(* when no response came back at all), the phase of the object it          *)
(* describes, whether its text contains "invalid API key", whether the     *)
(* generated client could decode an error detail from it, and whether the  *)
(* one-shot body stream can still be read.                                 *)
(***************************************************************************)

\* Everything that is neither success nor classified by some caller is "500".
StatusCodes == {"none", "200", "400", "401", "403", "404", "500"}

\* The phases the refresh functions name, the phases that stand for an object
\* without one (a tag, a key, a resize), and OTHER for anything else.
Phases ==
    {"ACTIVE", "ALTERING", "APPLIED", "COMPLETED", "CREATED", "CREATING",
     "DEGRADED", "DISCONNECTED", "ERROR", "EXPIRED", "FAILED", "FAILING",
     "INACTIVE", "PAUSED", "PENDING", "PENDING_ACCEPT", "PENDING_STOPPED",
     "PROCESSING", "PROVISIONED", "PROVISIONING", "READY", "RUNNING",
     "STARTING", "STOPPED", "STOPPING", "UNAVAILABLE",
     "WAITING_FOR_CONNECTIONS", "WAITING_FOR_PROCESSING",
     "EXISTS", "NO_STATUS", "UNSYNCED", "PARTLY_SYNCED", "SYNCED",
     "CKU_EXPANDING", "CKU_STALE", "CKU_SETTLED", "OTHER"}

Found(p) == [code |-> "200", phase |-> p, invalidKey |-> FALSE,
             parsed |-> FALSE, body |-> "unread"]

Refused(c, k, d) == [code |-> c, phase |-> "OTHER", invalidKey |-> k,
                     parsed |-> d, body |-> "unread"]

\* The same refusal with and without a detail the client can decode.
Refusals(c, k) == {Refused(c, k, TRUE), Refused(c, k, FALSE)}

\* Only a 403 is ever searched for the invalid-key text, so only a 403 carries
\* it; a call that got no response has no body to decode.
Answers ==
    {Found(p) : p \in Phases}
        \cup {Refused("none", FALSE, FALSE)}
        \cup Refusals("400", FALSE) \cup Refusals("401", FALSE) \cup Refusals("403", FALSE)
        \cup Refusals("404", FALSE) \cup Refusals("500", FALSE) \cup Refusals("403", TRUE)

-----------------------------------------------------------------------------

\* createDescriptiveError(err, resp): when the error model yields no detail the
\* raw body is read instead, and an http.Response body can be read only once.
createDescriptiveError(r) ==
    IF r.parsed \/ r.code = "none" THEN r ELSE [r EXCEPT !.body = "drained"]

ResponseHasExpectedStatusCode(r, expected) == r.code = expected

\* Reads the body and puts it back, so this test itself leaves r alone; a body
\* drained earlier reads as empty and cannot contain the text.
ResponseHasStatusForbiddenDueToInvalidAPIKey(r) ==
    /\ ResponseHasExpectedStatusCode(r, "403")
    /\ r.body = "unread"
    /\ r.invalidKey


\* Mutated form: a 403 is never "not found".
OnlyStatusIsNotFound(r) == r.code = "404"

isNonKafkaRestApiResourceNotFound(r) ==
    \/ ResponseHasExpectedStatusCode(r, "404")
    \/ /\ ResponseHasExpectedStatusCode(r, "403")
       /\ ~ResponseHasStatusForbiddenDueToInvalidAPIKey(r)

\* The three ways callers decide that an object is gone.
DescribeThenClassify(r) == isNonKafkaRestApiResourceNotFound(createDescriptiveError(r))
ClassifyThenDescribe(r) == isNonKafkaRestApiResourceNotFound(r)
StatusIsNotFound(r) == ResponseHasExpectedStatusCode(r, "404")
=============================================================================
