----------------------------- MODULE HttpEngine -----------------------------
(***************************************************************************)
(* One call of HttpRequestEngine.request() or .stream()                    *)
(* (_core/http/engine.py) with any call and policy, against a server, an   *)
(* auth strategy and a location policy that may do anything they can.      *)
(* Bodies, URLs and header values are left out; a response is where it is  *)
(* in its life, and auth headers are ones the server has refused or not.   *)
(***************************************************************************)
EXTENDS Integers

CONSTANTS
    Attempts,        \* values of RetryPolicy.max_attempts
    RetryOns,        \* values of RetryPolicy.retry_on_status
    MaxRedirects,    \* RedirectPolicy.max_redirects
    BackoffBase,     \* RetryPolicy.backoff_base
    BackoffMax,      \* RetryPolicy.backoff_max
    MaxRetryAfter,   \* RetryPolicy.max_retry_after
    RetryAfters,     \* parsed Retry-After headers: seconds, NoHeader or NotANumber
    NoHeader, NotANumber,
    TriesCap         \* bound on the counter `tries`

ASSUME NumbersAssumption ==
    /\ MaxRedirects \in Nat /\ TriesCap \in Nat /\ TriesCap > 1
    /\ BackoffBase \in Nat /\ BackoffMax \in Nat /\ MaxRetryAfter \in Nat

ASSUME AttemptsAssumption == Attempts \subseteq Int /\ \A n \in Attempts : n < TriesCap

ASSUME HeadersAssumption ==
    /\ RetryAfters \subseteq Nat \cup {NoHeader, NotANumber}
    /\ NoHeader \notin Nat /\ NotANumber \notin Nat /\ NoHeader # NotANumber

\* One of each kind of status that request() and stream() tell apart.
Statuses == {200, 304, 401, 404, 429, 503}

ASSUME StatusAssumption == RetryOns \subseteq SUBSET Statuses

VARIABLES
    call,        \* the arguments and the policy, fixed for the call
    pc,          \* where the call is
    attempt,     \* the code's attempt counter
    refreshed,   \* auth_refreshed / refreshed
    hops,        \* redirects followed in this attempt
    challenged,  \* the client's own auth flow has answered a challenge
    status,      \* of the last response, 0 if none
    retryAfter,  \* its Retry-After header
    resp,        \* the response object: "none", "open" or "closed"
    pause,       \* what time.sleep is called with
    refused,     \* the server answered 401 to the merged headers
    renewed,     \* a refresh succeeded and the request was sent again for it
    acted,       \* the server may have acted on a request of this call
    tries,       \* attempts begun, refreshes included (saturates at TriesCap)
    outcome      \* how the call ended, "none" before

vars == <<call, pc, attempt, refreshed, hops, challenged, status, retryAfter, resp,
          pause, refused, renewed, acted, tries, outcome>>
flow == <<hops, challenged>>
auth == <<refreshed, refused, renewed>>

Calls == [mode: {"request", "stream"},
          repeatable: BOOLEAN,      \* method in IDEMPOTENT_METHODS or retry_unsafe_methods
          replayable: BOOLEAN,      \* _is_body_replayable; stream() takes bytes only
          onTransport: BOOLEAN,     \* retry_on_transport
          refreshable: BOOLEAN,     \* the auth strategy is a RefreshableAuthStrategy
          on401: BOOLEAN,           \* auth_refresh_on_401
          max: Attempts, retryOn: RetryOns]

Least(a, b) == IF a < b THEN a ELSE b
Pauses == 0 .. BackoffMax \cup 0 .. MaxRetryAfter \cup {NotANumber}
Faults == {"timeout", "connection", "other"}
Outcomes == {"none", "ok", "statusError", "redirectError", "refused", "strategyError",
             "valueError"} \cup Faults

CountersOK ==
    /\ attempt \in Nat
    /\ tries \in 0 .. TriesCap
    /\ hops \in 0 .. MaxRedirects
    /\ pause \in Pauses

TypeOK ==
    /\ CountersOK
    /\ call \in Calls
    /\ pc \in {"start", "ready", "wire", "judge", "refresh", "sleep", "yielded", "done"}
    /\ challenged \in BOOLEAN /\ refreshed \in BOOLEAN
    /\ status \in Statuses \cup {0}
    /\ retryAfter \in RetryAfters \cup {NoHeader}
    /\ resp \in {"none", "open", "closed"}
    /\ refused \in BOOLEAN /\ renewed \in BOOLEAN
    /\ acted \in BOOLEAN
    /\ outcome \in Outcomes

Init ==
    /\ call \in Calls /\ (call.mode = "stream" => call.replayable)
    /\ pc = "start" /\ attempt = 0 /\ tries = 0
    /\ hops = 0 /\ challenged = FALSE /\ refreshed = FALSE
    /\ status = 0 /\ retryAfter = NoHeader /\ resp = "none" /\ pause = 0
    /\ refused = FALSE /\ renewed = FALSE /\ acted = FALSE
    /\ outcome = "none"

End(how) == pc' = "done" /\ outcome' = how

\* The head of the loop: `attempt` becomes n, and a fresh _send_with_redirects.
BeginTry(n) ==
    /\ pc' = "ready" /\ attempt' = n
    /\ tries' = Least(tries + 1, TriesCap)
    /\ hops' = 0 /\ challenged' = FALSE

----------------------------------------------------------------------------
(* The auth strategy.  get_headers is called before the loop and after a    *)
(* refresh; it and refresh() may raise, and the error is passed on.         *)

GetHeaders ==
    /\ pc = "start"
    /\ BeginTry(1)
    /\ UNCHANGED <<call, status, retryAfter, resp, pause, auth, acted, outcome>>

HeadersRaise ==
    /\ pc = "start" /\ call.refreshable
    /\ End("strategyError")
    /\ UNCHANGED <<call, attempt, flow, status, retryAfter, resp, pause, auth, acted, tries>>

\* Mutant: the flag that a refresh was tried is not looked at.
CanRefreshAgain == status = 401 /\ call.on401 /\ call.refreshable
CanRefresh == status = 401 /\ call.on401 /\ call.refreshable /\ ~refreshed

StartRefreshHolding(held) ==
    /\ pc = "judge" /\ CanRefresh
    /\ pc' = "refresh" /\ resp' = held
    /\ refreshed' = (call.mode = "stream")
    /\ UNCHANGED <<call, attempt, flow, status, retryAfter, pause, refused,
                   renewed, acted, tries, outcome>>

\* Mutant: stream() leaves the response of the 401 open.
StartRefreshOpen == StartRefreshHolding(resp)

\* stream() closes the response and sets its flag before refresh().
StartRefresh == StartRefreshHolding("closed")

ResendAs(n, rejected) ==
    /\ pc = "refresh"
    /\ refreshed' = TRUE /\ refused' = rejected /\ renewed' = TRUE
    /\ BeginTry(n)
    /\ UNCHANGED <<call, status, retryAfter, resp, pause, acted, outcome>>

\* Mutants: the headers are not merged again; the resend counts as an attempt.
RefreshedUnmerged == ResendAs(attempt, refused)
RefreshedCounted == ResendAs(attempt + 1, FALSE)

\* refresh() is True: the resend with new headers does not count as an attempt.
Refreshed == ResendAs(attempt, FALSE)

\* refresh() is False: request() raises, stream() goes on judging the status.
RefreshDenied ==
    /\ pc = "refresh"
    /\ IF call.mode = "request" THEN End("statusError")
                                ELSE pc' = "judge" /\ UNCHANGED outcome
    /\ UNCHANGED <<call, attempt, flow, status, retryAfter, resp, pause, auth, acted, tries>>

\* refresh(), or get_headers() after it, raises.
RefreshRaises ==
    /\ pc = "refresh"
    /\ End("strategyError")
    /\ UNCHANGED <<call, attempt, flow, status, retryAfter, resp, pause, auth, acted, tries>>

----------------------------------------------------------------------------
(* _send_with_redirects. *)

\* location_check raises before the request is sent.
Refuse ==
    /\ pc = "ready"
    /\ End("refused")
    /\ UNCHANGED <<call, attempt, flow, status, retryAfter, resp, pause, auth, acted, tries>>

Send ==
    /\ pc = "ready"
    /\ pc' = "wire" /\ resp' = "none"
    /\ UNCHANGED <<call, attempt, flow, status, retryAfter, pause, auth, acted, tries, outcome>>

RedirectWhile(allowed) ==
    /\ pc = "wire" /\ allowed
    /\ pc' = "ready" /\ hops' = hops + 1 /\ resp' = "closed"
    /\ UNCHANGED <<call, attempt, challenged, status, retryAfter, pause, auth, acted, tries,
                   outcome>>

\* Mutant: one redirect too many is followed.
RedirectOnceMore == RedirectWhile(hops <= MaxRedirects)

\* 3xx with a next request, and follow_redirects: the response is read and
\* closed, and the next request goes through the location check again.  What
\* the server did before it redirected (a 303) is not counted in `acted`.
Redirect == RedirectWhile(hops < MaxRedirects)

TooManyRedirects ==
    /\ pc = "wire" /\ hops >= MaxRedirects
    /\ End("redirectError") /\ resp' = "closed"
    /\ UNCHANGED <<call, attempt, flow, status, retryAfter, pause, auth, acted, tries>>

\* The httpx client's own auth (digest) answers a challenge, once.
Challenge ==
    /\ pc = "wire" /\ ~challenged
    /\ resp' = "closed"
    /\ pc' = "ready" /\ challenged' = TRUE
    /\ UNCHANGED <<call, attempt, hops, status, retryAfter, pause, auth, acted, tries, outcome>>

\* The final response of the attempt.  request() reads and closes it here.
Answer(s, after) ==
    /\ pc = "wire"
    /\ status' = s
    /\ retryAfter' = IF s = 429 THEN after ELSE NoHeader
    /\ resp' = IF call.mode = "request" THEN "closed" ELSE "open"
    /\ refused' = (refused \/ s = 401)
    /\ acted' = (acted \/ s \in {200, 503})
    /\ pc' = "judge"
    /\ UNCHANGED <<call, attempt, refreshed, renewed, flow, pause, tries, outcome>>

\* The waits after attempt n: up to backoff_base * 2^(n-1) with jitter, capped.
Backoff(n) == {d \in 0 .. BackoffMax : d <= BackoffBase * 2 ^ (n - 1)}

\* Mutants: the method is not looked at; one attempt too many.
CanRepeatAny == call.replayable /\ attempt < call.max
CanRepeatOnceMore == call.repeatable /\ call.replayable /\ attempt <= call.max
CanRepeat == call.repeatable /\ call.replayable /\ attempt < call.max
Retryable(kind) == kind \in {"timeout", "connection"} /\ call.onTransport /\ CanRepeat

\* An httpx error while sending or reading.  What was received is closed, and
\* whether the server acted on the request is unknown.
TransportFails ==
    /\ pc = "wire"
    /\ acted' = TRUE /\ resp' = "closed" /\ status' = 0 /\ retryAfter' = NoHeader
    /\ UNCHANGED <<call, attempt, auth, flow, tries>>

RetryTransport(kind) ==
    /\ TransportFails /\ Retryable(kind)
    /\ pc' = "sleep" /\ pause' \in Backoff(attempt)
    /\ UNCHANGED outcome

RaiseTransport(kind) ==
    /\ TransportFails /\ ~Retryable(kind)
    /\ End(kind)
    /\ UNCHANGED pause

----------------------------------------------------------------------------
(* Judging the response. *)

WantsRetryIf(attemptsLeft) ==
    /\ status \in call.retryOn /\ attemptsLeft
    /\ \/ status = 429
       \/ call.repeatable /\ (call.mode = "request" => call.replayable /\ status # 304)

\* Mutant: one attempt too many.
WantsRetryOnceMore == WantsRetryIf(attempt <= call.max)

\* request() raises for 3xx before it looks at the other retryable statuses.
WantsRetry == WantsRetryIf(attempt < call.max)

Succeed ==
    /\ pc = "judge" /\ status = 200 /\ call.mode = "request"
    /\ End("ok")
    /\ UNCHANGED <<call, attempt, flow, status, retryAfter, resp, pause, auth, acted, tries>>

Yield ==
    /\ pc = "judge" /\ status = 200 /\ call.mode = "stream"
    /\ pc' = "yielded"
    /\ UNCHANGED <<call, attempt, flow, status, retryAfter, resp, pause, auth, acted, tries,
                   outcome>>

RetryStatus ==
    /\ pc = "judge" /\ status # 200 /\ ~CanRefresh /\ WantsRetry
    /\ pc' = "sleep" /\ resp' = "closed"
    /\ IF retryAfter = NoHeader THEN pause' \in Backoff(attempt)
       ELSE pause' = IF retryAfter = NotANumber THEN NotANumber
                     ELSE Least(retryAfter, MaxRetryAfter)
    /\ UNCHANGED <<call, attempt, flow, status, retryAfter, auth, acted, tries, outcome>>

RaiseStatus ==
    /\ pc = "judge" /\ status # 200 /\ ~CanRefresh /\ ~WantsRetry
    /\ resp' = "closed"
    /\ End(IF status = 304 THEN "redirectError" ELSE "statusError")
    /\ UNCHANGED <<call, attempt, flow, status, retryAfter, pause, auth, acted, tries>>

\* time.sleep, then the next attempt.
Sleep ==
    /\ pc = "sleep" /\ pause # NotANumber
    /\ BeginTry(attempt + 1)
    /\ UNCHANGED <<call, status, retryAfter, resp, pause, auth, acted, outcome>>

\* Sleeping for NaN raises ValueError.
SleepRaises ==
    /\ pc = "sleep" /\ pause = NotANumber
    /\ End("valueError")
    /\ UNCHANGED <<call, attempt, flow, status, retryAfter, resp, pause, auth, acted, tries>>

\* The caller leaves the with block, or its reading fails: never a replay.
Consumed ==
    /\ pc = "yielded"
    /\ resp' = "closed"
    /\ \E how \in {"ok"} \cup Faults : End(how)
    /\ UNCHANGED <<call, attempt, flow, status, retryAfter, pause, auth, acted, tries>>

----------------------------------------------------------------------------
Next ==
    \/ GetHeaders \/ HeadersRaise
    \/ StartRefresh \/ Refreshed \/ RefreshDenied \/ RefreshRaises
    \/ Refuse \/ Send \/ Redirect \/ TooManyRedirects \/ Challenge
    \/ \E s \in Statuses, after \in RetryAfters : Answer(s, after)
    \/ \E kind \in Faults : RetryTransport(kind) \/ RaiseTransport(kind)
    \/ Succeed \/ Yield \/ RetryStatus \/ RaiseStatus
    \/ Sleep \/ SleepRaises \/ Consumed

Spec == Init /\ [][Next]_vars

\* The calling thread runs, every send is answered or times out, a refresh
\* returns, and the caller of stream() leaves its with block.
FairSpec == Spec /\ WF_vars(Next)

----------------------------------------------------------------------------
(* Properties. *)

\* max_attempts bounds the tries although a refresh takes one off the counter:
\* one more try for a refresh, and one even when max_attempts is zero or less.
TriesAreBounded ==
    tries <= (IF call.max < 1 THEN 1 ELSE call.max) + (IF renewed THEN 1 ELSE 0)

\* A request that may not be repeated is never sent again once the server may
\* have acted on it: neither after a transport error, nor after a 5xx, nor by
\* way of the 401 and 429 retries that ignore the method.
NoBlindRepeat ==
    ~call.repeatable /\ acted => pc \notin {"ready", "wire", "sleep"}

\* No response stays open while the engine sleeps, refreshes or sends again, or
\* after the call; only the caller of stream() holds one.
ResponseReleased == resp = "open" => pc \in {"judge", "yielded"}

\* Headers the server has refused are sent again only if the policy retries
\* 401 as a status.
RefusedHeadersNotResent == 401 \notin call.retryOn /\ pc = "wire" => ~refused

\* A repeatable call gives up on a retryable failure only when all its attempts
\* are used: the refresh in between took none of them.
FullBudgetUsed ==
    /\ pc = "done" /\ call.repeatable /\ call.replayable
    /\ \/ outcome = "statusError" /\ status \in call.retryOn \ {401}
       \/ outcome \in {"timeout", "connection"} /\ call.onTransport /\ status = 0
    => tries >= call.max + (IF renewed THEN 1 ELSE 0)

\* Every call ends: the refresh that does not count cannot repeat for ever.
CallEnds == <>(pc = "done")

\* policy.py:62, "Requests with a Retry-After exceeding this value will not be
\* retried."
LongRetryAfterIsNotRetried ==
    pc = "sleep" /\ retryAfter \notin {NoHeader, NotANumber} => retryAfter <= MaxRetryAfter

\* Chapter 12 of the docs: "Only 2xx responses are returned. Anything else
\* raises a subclass of HttpTransportError".
AnswersBecomeTransportErrors == outcome # "valueError"

\* Chapter 12: "If the refresh fails or the retried request also gets 401, the
\* engine raises HttpAuthenticationError."
FailedRefreshIsAuthenticationError ==
    [][pc = "refresh" /\ pc' = "done" => outcome' = "statusError"]_vars
=============================================================================
