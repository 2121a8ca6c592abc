-------------------------- MODULE HttpEngineProofs --------------------------
(* The inductive invariant of HttpEngine, and what follows from it. *)
EXTENDS HttpEngine, TLAPS

Begun == pc \notin {"start", "done"}

\* The counters: what `tries` counts, and that attempt stays within the policy.
CounterInv ==
    /\ tries = Least(attempt + (IF renewed THEN 1 ELSE 0), TriesCap)
    /\ pc = "start" => attempt = 0
    /\ Begun => attempt >= 1
    /\ attempt <= 1 \/ attempt <= call.max
    /\ pc = "sleep" => attempt < call.max

\* The refresh happens once, and only for a 401.
RefreshInv ==
    /\ renewed => refreshed
    /\ pc = "start" => ~refreshed
    /\ pc = "refresh" => ~renewed /\ status = 401

\* Who may hold the response, and what the last status says of the call.
AnswerInv ==
    /\ resp = "open" => pc \in {"judge", "yielded"} /\ call.mode = "stream"
    /\ pc = "yielded" => status = 200
    /\ ~call.repeatable /\ acted =>
         pc \in {"judge", "yielded", "done"} /\ (pc = "judge" => status \in {200, 503})
    /\ 401 \notin call.retryOn /\ refused =>
         pc \in {"judge", "refresh", "yielded", "done"} /\ (pc = "judge" => status = 401)
    /\ pc = "start" => ~acted /\ ~refused

IInv ==
    /\ TypeOK
    /\ CounterInv
    /\ RefreshInv
    /\ AnswerInv
    /\ FullBudgetUsed

----------------------------------------------------------------------------
(* The inductive invariant. *)

\* Beginning a try keeps its counter in its range.
LEMMA TriesRange ==
    ASSUME tries \in 0 .. TriesCap PROVE Least(tries + 1, TriesCap) \in 0 .. TriesCap
BY NumbersAssumption DEF Least

\* A call that has used its attempts has begun one try for each, and one for
\* the refresh.
LEMMA FullTries ==
    ASSUME IInv, attempt >= call.max
    PROVE  tries >= call.max + (IF renewed THEN 1 ELSE 0)
<1>1. call.max \in Int /\ call.max < TriesCap
  BY AttemptsAssumption DEF IInv, TypeOK, Calls
<1>2. attempt \in Nat /\ TriesCap \in Nat
  BY NumbersAssumption DEF IInv, TypeOK, CountersOK
<1>3. tries = Least(attempt + (IF renewed THEN 1 ELSE 0), TriesCap)
  BY DEF IInv, CounterInv
<1>4. QED
  BY <1>1, <1>2, <1>3 DEF Least

\* A call that ends with attempts left was not refused a retry it had a right to.
LEMMA EarlyEnd ==
    ASSUME attempt \in Nat, call.max \in Int, attempt < call.max,
           RaiseStatus \/ \E kind \in Faults : RaiseTransport(kind)
    PROVE  FullBudgetUsed'
<1> SUFFICES ASSUME (call.repeatable /\ call.replayable)',
                    \/ (outcome = "statusError" /\ status \in call.retryOn \ {401})'
                    \/ (outcome \in {"timeout", "connection"} /\ call.onTransport
                         /\ status = 0)'
             PROVE  FALSE
  BY DEF FullBudgetUsed
<1>1. CASE RaiseStatus
  BY <1>1 DEF RaiseStatus, WantsRetry, WantsRetryIf, End
<1>2. ASSUME NEW kind \in Faults, RaiseTransport(kind) PROVE FALSE
  BY <1>2 DEF RaiseTransport, TransportFails, Retryable, CanRepeat, End, Faults
<1>3. QED
  BY <1>1, <1>2

\* Every call starts in it.
LEMMA InitIInv == Init => IInv
<1> SUFFICES ASSUME Init PROVE IInv
  OBVIOUS
<1>1. TypeOK
  <2>1. CountersOK
    BY NumbersAssumption DEF Init, CountersOK, Pauses
  <2>2. QED
    BY <2>1 DEF Init, TypeOK, Outcomes
<1>2. CounterInv /\ RefreshInv /\ AnswerInv /\ FullBudgetUsed
  BY NumbersAssumption
     DEF Init, CounterInv, RefreshInv, AnswerInv, FullBudgetUsed, Begun, Least
<1>3. QED
  BY <1>1, <1>2 DEF IInv

\* Every step keeps the counters in their ranges.
LEMMA CountersStep == TypeOK /\ [Next]_vars => CountersOK'
<1> SUFFICES ASSUME TypeOK, [Next]_vars PROVE CountersOK'
  OBVIOUS
<1> USE NumbersAssumption, TriesRange
    DEF TypeOK, CountersOK, flow, auth, End, BeginTry
<1>1. CASE GetHeaders
  BY <1>1 DEF GetHeaders
<1>2. CASE HeadersRaise
  BY <1>2 DEF HeadersRaise
<1>4. CASE StartRefresh
  BY <1>4 DEF StartRefresh, StartRefreshHolding
<1>5. CASE Refreshed
  BY <1>5 DEF Refreshed, ResendAs
<1>6. CASE RefreshDenied
  BY <1>6 DEF RefreshDenied
<1>7. CASE RefreshRaises
  BY <1>7 DEF RefreshRaises
<1>8. CASE Refuse
  BY <1>8 DEF Refuse
<1>9. CASE Send
  BY <1>9 DEF Send
<1>10. CASE Redirect
  BY <1>10 DEF Redirect, RedirectWhile
<1>11. CASE TooManyRedirects
  BY <1>11 DEF TooManyRedirects
<1>12. CASE Challenge
  BY <1>12 DEF Challenge
<1>13. CASE Succeed
  BY <1>13 DEF Succeed
<1>14. CASE Yield
  BY <1>14 DEF Yield
<1>15. CASE RetryStatus
  BY <1>15, HeadersAssumption DEF RetryStatus, Pauses, Backoff, Least
<1>16. CASE RaiseStatus
  BY <1>16 DEF RaiseStatus
<1>17. CASE Sleep
  BY <1>17 DEF Sleep
<1>18. CASE SleepRaises
  BY <1>18 DEF SleepRaises
<1>19. CASE Consumed
  BY <1>19 DEF Consumed
<1>20. ASSUME NEW s \in Statuses, NEW after \in RetryAfters, Answer(s, after)
       PROVE  CountersOK'
  BY <1>20 DEF Answer
<1>21. ASSUME NEW kind \in Faults, RetryTransport(kind) PROVE CountersOK'
  BY <1>21 DEF RetryTransport, TransportFails, Pauses, Backoff
<1>22. ASSUME NEW kind \in Faults, RaiseTransport(kind) PROVE CountersOK'
  BY <1>22 DEF RaiseTransport, TransportFails, Pauses, Backoff
<1>23. CASE UNCHANGED vars
  BY <1>23 DEF vars
<1>24. QED
  BY <1>1, <1>2, <1>4, <1>5, <1>6, <1>7, <1>8, <1>9, <1>10, <1>11, <1>12,
     <1>13, <1>14, <1>15, <1>16, <1>17, <1>18, <1>19, <1>20, <1>21, <1>22, <1>23
     DEF Next

\* Every step keeps the other variables in their types.
LEMMA TypeStep == TypeOK /\ [Next]_vars => TypeOK'
<1> SUFFICES ASSUME TypeOK, [Next]_vars PROVE TypeOK'
  OBVIOUS
<1> USE CountersStep DEF TypeOK, Outcomes, Faults, flow, auth, End, BeginTry
<1>1. CASE GetHeaders
  <2>1. CountersOK'
    OBVIOUS
  <2>2. pc' = "ready" /\ challenged' = FALSE
    BY <1>1 DEF GetHeaders
  <2>3. UNCHANGED <<call, refreshed, status, retryAfter, resp, refused, renewed, acted,
                    outcome>>
    BY <1>1 DEF GetHeaders
  <2>4. QED
    BY <2>1, <2>2, <2>3, ZenonT(30)
<1>2. CASE HeadersRaise
  BY <1>2 DEF HeadersRaise
<1>4. CASE StartRefresh
  BY <1>4 DEF StartRefresh, StartRefreshHolding
<1>5. CASE Refreshed
  BY <1>5 DEF Refreshed, ResendAs
<1>6. CASE RefreshDenied
  BY <1>6 DEF RefreshDenied
<1>7. CASE RefreshRaises
  BY <1>7 DEF RefreshRaises
<1>8. CASE Refuse
  BY <1>8 DEF Refuse
<1>9. CASE Send
  BY <1>9 DEF Send
<1>10. CASE Redirect
  BY <1>10 DEF Redirect, RedirectWhile
<1>11. CASE TooManyRedirects
  BY <1>11 DEF TooManyRedirects
<1>12. CASE Challenge
  BY <1>12 DEF Challenge
<1>13. CASE Succeed
  BY <1>13 DEF Succeed
<1>14. CASE Yield
  BY <1>14 DEF Yield
<1>15. CASE RetryStatus
  BY <1>15 DEF RetryStatus
<1>16. CASE RaiseStatus
  BY <1>16 DEF RaiseStatus
<1>17. CASE Sleep
  <2>1. CountersOK'
    OBVIOUS
  <2>2. pc' = "ready" /\ challenged' = FALSE
    BY <1>17 DEF Sleep
  <2>3. UNCHANGED <<call, refreshed, status, retryAfter, resp, refused, renewed, acted,
                    outcome>>
    BY <1>17 DEF Sleep
  <2>4. QED
    BY <2>1, <2>2, <2>3, ZenonT(30)
<1>18. CASE SleepRaises
  BY <1>18 DEF SleepRaises
<1>19. CASE Consumed
  BY <1>19 DEF Consumed
<1>20. ASSUME NEW s \in Statuses, NEW after \in RetryAfters, Answer(s, after)
       PROVE  TypeOK'
  BY <1>20 DEF Answer
<1>21. ASSUME NEW kind \in Faults, RetryTransport(kind) PROVE TypeOK'
  BY <1>21 DEF RetryTransport, TransportFails
<1>22. ASSUME NEW kind \in Faults, RaiseTransport(kind) PROVE TypeOK'
  BY <1>22 DEF RaiseTransport, TransportFails
<1>23. CASE UNCHANGED vars
  BY <1>23 DEF vars
<1>24. QED
  BY <1>1, <1>2, <1>4, <1>5, <1>6, <1>7, <1>8, <1>9, <1>10, <1>11, <1>12,
     <1>13, <1>14, <1>15, <1>16, <1>17, <1>18, <1>19, <1>20, <1>21, <1>22, <1>23
     DEF Next

\* Every step preserves the invariant.
LEMMA NextIInv == IInv /\ [Next]_vars => IInv'
<1> SUFFICES ASSUME IInv, [Next]_vars PROVE IInv'
  OBVIOUS
<1> DEFINE Rest == CounterInv /\ RefreshInv /\ AnswerInv /\ FullBudgetUsed
<1>0. TypeOK'
  BY TypeStep DEF IInv
<1> USE NumbersAssumption, AttemptsAssumption
    DEF IInv, CounterInv, RefreshInv, AnswerInv, FullBudgetUsed, Begun,
        TypeOK, CountersOK, Calls, flow, auth, End, BeginTry, Least
<1>1. ASSUME GetHeaders PROVE Rest'
  BY <1>1 DEF GetHeaders
<1>2. ASSUME HeadersRaise PROVE Rest'
  BY <1>2 DEF HeadersRaise
<1>4. ASSUME StartRefresh PROVE Rest'
  BY <1>4 DEF StartRefresh, StartRefreshHolding, CanRefresh
<1>5. ASSUME Refreshed PROVE Rest'
  BY <1>5 DEF Refreshed, ResendAs
<1>6. ASSUME RefreshDenied PROVE Rest'
  BY <1>6 DEF RefreshDenied
<1>7. ASSUME RefreshRaises PROVE Rest'
  BY <1>7 DEF RefreshRaises
<1>8. ASSUME Refuse PROVE Rest'
  BY <1>8 DEF Refuse
<1>9. ASSUME Send PROVE Rest'
  BY <1>9 DEF Send
<1>10. ASSUME Redirect PROVE Rest'
  BY <1>10 DEF Redirect, RedirectWhile
<1>11. ASSUME TooManyRedirects PROVE Rest'
  BY <1>11 DEF TooManyRedirects
<1>12. ASSUME Challenge PROVE Rest'
  BY <1>12 DEF Challenge
<1>13. ASSUME Succeed PROVE Rest'
  <2>1. CounterInv'
    BY <1>13 DEF Succeed
  <2>2. RefreshInv'
    BY <1>13 DEF Succeed
  <2>3. AnswerInv'
    BY <1>13 DEF Succeed
  <2>4. FullBudgetUsed'
    BY <1>13 DEF Succeed
  <2>5. QED
    BY <2>1, <2>2, <2>3, <2>4
<1>14. ASSUME Yield PROVE Rest'
  BY <1>14 DEF Yield
<1>15. ASSUME RetryStatus PROVE Rest'
  BY <1>15 DEF RetryStatus, CanRefresh, WantsRetry, WantsRetryIf
<1>16. ASSUME RaiseStatus PROVE Rest'
  <2>1. CounterInv'
    BY <1>16 DEF RaiseStatus, CanRefresh, WantsRetry, WantsRetryIf
  <2>2. RefreshInv'
    BY <1>16 DEF RaiseStatus, CanRefresh, WantsRetry, WantsRetryIf
  <2>3. AnswerInv'
    BY <1>16 DEF RaiseStatus, CanRefresh, WantsRetry, WantsRetryIf
  <2>4. FullBudgetUsed'
    <3>1. CASE attempt >= call.max
      BY <1>16, <3>1, FullTries DEF RaiseStatus
    <3>2. CASE ~(attempt >= call.max)
      <4>1. attempt \in Nat /\ call.max \in Int
        BY AttemptsAssumption DEF Calls
      <4>2. QED
        BY <1>16, <3>2, <4>1, EarlyEnd
    <3>3. QED
      BY <3>1, <3>2
  <2>5. QED
    BY <2>1, <2>2, <2>3, <2>4
<1>17. ASSUME Sleep PROVE Rest'
  <2>1. CounterInv'
    <3>1. call.max \in Int
      BY AttemptsAssumption DEF Calls
    <3>2. QED
      BY <1>17, <3>1 DEF Sleep
  <2>2. RefreshInv'
    BY <1>17 DEF Sleep
  <2>3. AnswerInv'
    BY <1>17 DEF Sleep
  <2>4. FullBudgetUsed'
    BY <1>17 DEF Sleep
  <2>5. QED
    BY <2>1, <2>2, <2>3, <2>4
<1>18. ASSUME SleepRaises PROVE Rest'
  BY <1>18 DEF SleepRaises
<1>19. ASSUME Consumed PROVE Rest'
  <2>1. CounterInv'
    BY <1>19 DEF Consumed
  <2>2. RefreshInv'
    BY <1>19 DEF Consumed
  <2>3. AnswerInv'
    BY <1>19 DEF Consumed
  <2>4. FullBudgetUsed'
    <3>1. status' = 200 /\ outcome' # "statusError"
      BY <1>19 DEF Consumed, Faults
    <3>2. QED
      BY <3>1
  <2>5. QED
    BY <2>1, <2>2, <2>3, <2>4
<1>20. ASSUME NEW s \in Statuses, NEW after \in RetryAfters, Answer(s, after)
       PROVE  Rest'
  BY <1>20 DEF Answer
<1>21. ASSUME NEW kind \in Faults, RetryTransport(kind) PROVE Rest'
  BY <1>21 DEF RetryTransport, TransportFails, Retryable, CanRepeat
<1>22. ASSUME NEW kind \in Faults, RaiseTransport(kind) PROVE Rest'
  <2>1. CounterInv'
    BY <1>22 DEF RaiseTransport, TransportFails, Retryable, CanRepeat
  <2>2. RefreshInv'
    BY <1>22 DEF RaiseTransport, TransportFails, Retryable, CanRepeat
  <2>3. AnswerInv'
    BY <1>22 DEF RaiseTransport, TransportFails, Retryable, CanRepeat
  <2>4. FullBudgetUsed'
    <3>1. CASE attempt >= call.max
      BY <1>22, <3>1, FullTries DEF RaiseTransport, TransportFails
    <3>2. CASE ~(attempt >= call.max)
      <4>1. attempt \in Nat /\ call.max \in Int
        BY AttemptsAssumption DEF Calls
      <4>2. QED
        BY <1>22, <3>2, <4>1, EarlyEnd
    <3>3. QED
      BY <3>1, <3>2
  <2>5. QED
    BY <2>1, <2>2, <2>3, <2>4
<1>23. ASSUME UNCHANGED vars PROVE Rest'
  BY <1>23 DEF vars
<1>24. QED
  BY <1>0, <1>1, <1>2, <1>4, <1>5, <1>6, <1>7, <1>8, <1>9, <1>10, <1>11, <1>12,
     <1>13, <1>14, <1>15, <1>16, <1>17, <1>18, <1>19, <1>20, <1>21, <1>22, <1>23
     DEF Next
----------------------------------------------------------------------------
(* The theorems. *)

\* The invariant holds of every call, for every value of the constants.
THEOREM Invariance == Spec => []IInv
<1>1. Init => IInv
  BY InitIInv
<1>2. IInv /\ [Next]_vars => IInv'
  BY NextIInv
<1>3. QED
  BY <1>1, <1>2, PTL DEF Spec

\* Every variable keeps its type: the pause is within the policy's bounds or
\* NaN, the redirects within max_redirects.
THEOREM TypeCorrect == Spec => []TypeOK
<1>1. IInv => TypeOK
  BY DEF IInv
<1>2. QED
  BY <1>1, Invariance, PTL

\* The number of tries of a call is bounded by max_attempts and one refresh.
THEOREM BoundedTries == Spec => []TriesAreBounded
<1>1. IInv => TriesAreBounded
  <2> SUFFICES ASSUME IInv PROVE TriesAreBounded
    OBVIOUS
  <2>1. call.max \in Int /\ attempt \in Nat /\ TriesCap \in Nat
    BY NumbersAssumption, AttemptsAssumption DEF IInv, TypeOK, CountersOK, Calls
  <2>2. attempt <= 1 \/ attempt <= call.max
    BY DEF IInv, CounterInv
  <2>3. tries = Least(attempt + (IF renewed THEN 1 ELSE 0), TriesCap)
    BY DEF IInv, CounterInv
  <2>4. QED
    BY <2>1, <2>2, <2>3 DEF TriesAreBounded, Least
<1>2. QED
  BY <1>1, Invariance, PTL

\* A request that may not be repeated is not sent again once the server may
\* have acted on it.
THEOREM NeverBlind == Spec => []NoBlindRepeat
<1>1. IInv => NoBlindRepeat
  BY DEF IInv, AnswerInv, NoBlindRepeat
<1>2. QED
  BY <1>1, Invariance, PTL

\* The engine holds no response while it sleeps, refreshes or sends again, nor
\* after the call.
THEOREM Released == Spec => []ResponseReleased
<1>1. IInv => ResponseReleased
  BY DEF IInv, AnswerInv, ResponseReleased
<1>2. QED
  BY <1>1, Invariance, PTL

\* Headers that met a 401 go out again only under a policy that retries 401.
THEOREM RefusedNotResent == Spec => []RefusedHeadersNotResent
<1>1. IInv => RefusedHeadersNotResent
  BY DEF IInv, AnswerInv, RefusedHeadersNotResent
<1>2. QED
  BY <1>1, Invariance, PTL

\* A repeatable call that gives up on a retryable failure has used its budget.
THEOREM FullBudget == Spec => []FullBudgetUsed
<1>1. IInv => FullBudgetUsed
  BY DEF IInv
<1>2. QED
  BY <1>1, Invariance, PTL
=============================================================================
