------------------------------- MODULE Answer -------------------------------
(***************************************************************************)
(* What the API client makes of an HTTP answer whose body it has read:      *)
(* CloudflareClient::send of src/cloudflare.rs, the questions that can be   *)
(* asked of a CloudflareError, and the failure the updater reports for it   *)
(* (cloudflare_failure of src/updater.rs).  Messages are left out.          *)
(***************************************************************************)
EXTENDS Integers

CONSTANT MaxRetryAfter  \* MAX_RETRY_AFTER, in the unit of the header

ASSUME AnswerAssumption == MaxRetryAfter \in Nat \ {0}

\* The statuses the client tells apart, and one for each other class: a
\* success, a redirect (not followed), a client error, a server error.
Status == {200, 302, 401, 403, 404, 408, 409, 429, 503}
IsSuccess(status) == status \in 200..299
IsServerError(status) == status \in 500..599

\* The envelope in a body: with its result, without it, with success = false,
\* or no envelope at all.
Envelope == {"result", "empty", "refused", "garbage"}

\* A Retry-After header: absent, one that is not a number (a date), or seconds.
NoHeader == -1
Unreadable == -2
NoDelay == 0

\* parse_retry_after.  No delay and a delay of zero have the same effect.
ParseRetryAfter(header) ==
  IF header < 0 THEN NoDelay
  ELSE IF header > MaxRetryAfter THEN MaxRetryAfter ELSE header

\* A CloudflareError: its variant, and status and retry_after where it has them.
Error(variant, status, delay) == [variant |-> variant, status |-> status, delay |-> delay]
Bare(variant) == Error(variant, 0, NoDelay)
NoError == Bare("none")

\* Mutant of Send: Retry-After is only looked for in a rate limit.
ForgetfulSend(status, envelope, header) ==
  IF status = 401 THEN Error("Authentication", status, NoDelay)
  ELSE IF status = 403 THEN Error("PermissionDenied", status, NoDelay)
  ELSE IF status = 429 THEN Error("RateLimited", status, ParseRetryAfter(header))
  ELSE IF ~IsSuccess(status) THEN Error("Api", status, NoDelay)
  ELSE IF envelope = "garbage" THEN Bare("MalformedResponse")
  ELSE IF envelope = "refused" THEN Error("Api", status, NoDelay)
  ELSE IF envelope = "empty" THEN Bare("MissingResult")
  ELSE NoError

\* send, once the body is there: the error, or NoError and the result.
Send(status, envelope, header) ==
  CASE status = 401 -> Error("Authentication", status, NoDelay)
    [] status = 403 -> Error("PermissionDenied", status, NoDelay)
    [] status = 429 -> Error("RateLimited", status, ParseRetryAfter(header))
    [] ~IsSuccess(status) /\ status \notin {401, 403, 429} ->
         Error("Api", status, ParseRetryAfter(header))
    [] IsSuccess(status) /\ envelope = "garbage" -> Bare("MalformedResponse")
    [] IsSuccess(status) /\ envelope = "refused" ->
         Error("Api", status, ParseRetryAfter(header))
    [] IsSuccess(status) /\ envelope = "empty" -> Bare("MissingResult")
    [] OTHER -> NoError

\* is_authentication_failure, is_rate_limited, is_not_found, is_transient
IsAuthenticationFailure(e) == e.variant \in {"Authentication", "TokenInactive"}
IsRateLimited(e) == e.variant = "RateLimited"
IsNotFound(e) == e.variant = "Api" /\ e.status = 404
IsTransient(e) ==
  \/ e.variant \in {"Request", "RateLimited", "MalformedResponse", "ResponseTooLarge",
                    "MissingResult"}
  \/ e.variant = "Api" /\ (IsServerError(e.status) \/ e.status \in {408, 409})

\* The kind of the failure cloudflare_failure reports.
FailureKind(e) ==
  IF IsAuthenticationFailure(e) THEN "auth"
  ELSE IF IsRateLimited(e) THEN "rate"
  ELSE IF IsTransient(e) THEN "transient"
  ELSE "permanent"
=============================================================================
