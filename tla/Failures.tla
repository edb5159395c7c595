------------------------------- MODULE Failures -------------------------------
(***************************************************************************)
(* How a failure is classified, twice: what a vendor's answer is taken for *)
(* (providers/http.py, providers/errors.py) decides whether it is retried, *)
(* hopped or judged; what the class is answered as (routes.py) decides     *)
(* whom the caller blames.                                                 *)
(***************************************************************************)
EXTENDS Integers

\* ProviderError.retryable, by the class raised: bad_request, unroutable, auth,
\* rate_limited, timeout, unavailable, protocol, circuit_open or foreign.
Retryable(kind) == kind \in {"rate_limited", "timeout", "unavailable"}

\* Mutant: our own bad key taken for the caller's bad request.
StatusErrorAuthless(status) ==
    CASE status \in {408, 504} -> "timeout"
      [] status = 429          -> "rate_limited"
      [] OTHER                 -> IF status >= 500 THEN "unavailable" ELSE "bad_request"

\* _status_error: the named statuses, then the class of the code.
StatusError(status) ==
    CASE status \in {408, 504} -> "timeout"
      [] status \in {401, 403} -> "auth"
      [] status = 429          -> "rate_limited"
      [] OTHER                 -> IF status >= 500 THEN "unavailable" ELSE "bad_request"

\* _transport_error: no status arrived.
TransportError(timedOut) == IF timedOut THEN "timeout" ELSE "unavailable"

\* What went wrong with an attempt: a status of 400 or more; no answer, in
\* time or at all; an answer nobody can read; a request this vendor's dialect
\* cannot express; something that is not a ProviderError.
Mishaps == {"timed_out", "unreachable", "unreadable", "inexpressible", "foreign"}

Causes == [what : {"status"}, status : 400 .. 599] \cup [what : Mishaps, status : {0}]

\* What the gateway says of itself: no rule claims the model, the breaker is
\* open, the caller went away, a stream broke; or nothing is wrong.
Own(what) == [what |-> what, status |-> 0]
OwnCauses == {Own(what) : what \in {"unroutable", "circuit_open", "cancelled", "broken", "none"}}

\* The class a cause is raised as.
KindOf(cause) ==
    CASE cause.what = "status"                        -> StatusError(cause.status)
      [] cause.what \in {"timed_out", "unreachable"} -> TransportError(cause.what = "timed_out")
      [] cause.what = "unreadable"                    -> "protocol"
      [] cause.what = "inexpressible"                 -> "bad_request"
      [] OTHER                                        -> cause.what

\* _failure and FAILURE_STATUSES: the status a caller is answered with.
FailureStatus(kind) ==
    CASE kind = "unroutable"   -> 404
      [] kind = "bad_request"  -> 400
      [] kind = "rate_limited" -> 429
      [] kind = "timeout"      -> 504
      [] kind = "circuit_open" -> 503
      [] kind \in {"auth", "unavailable", "protocol", "foreign"} -> 502

=============================================================================
