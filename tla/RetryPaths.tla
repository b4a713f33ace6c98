----------------------------- MODULE RetryPaths -----------------------------
(***************************************************************************)
(* mailrelay retries a webhook in two places.  With a database the worker  *)
(* decides after every attempt and stores the count (runQueued in          *)
(* internal/webhook/queue.go); without one a loop holds the count in a     *)
(* local variable (dispatchOne in internal/webhook/dispatcher.go).  This   *)
(* module lets one receiver answer both, for one delivery and one retry    *)
(* configuration, with no shutdown in between.                             *)
(***************************************************************************)
EXTENDS RetryPolicy

CONSTANTS Retries, Waits  \* values of max_retries and of the two waits

ASSUME PathsAssumption == Retries \subseteq Nat /\ Waits \subseteq 0..MaxDuration

VARIABLES
    retry,    \* the retry configuration
    queued,   \* the queue's row: [status, attempts, wait]
    direct    \* the loop of dispatchOne: [status, attempts, wait]

vars == <<retry, queued, direct>>

Fresh == [status |-> "pending", attempts |-> 0, wait |-> 0]

\* runQueued and FinishDelivery, for a delivery whose context is not cancelled.
QueuedAttempt(answer) ==
    LET attempts == queued.attempts + 1
    IN  queued' =
          IF answer = "ok"
          THEN [queued EXCEPT !.status = "success", !.attempts = attempts]
          ELSE IF Retryable(retry, answer) /\ attempts <= retry.maxRetries
          THEN [status |-> "pending", attempts |-> attempts, wait |-> backoff(retry, attempts)]
          ELSE [queued EXCEPT !.status = FailureStatus(answer), !.attempts = attempts]

\* Faulty variant: the loop ends one iteration early.
DirectAttempt_ShortLoop(answer) ==
    LET attempt == direct.attempts
    IN  direct' =
          IF answer = "ok" THEN [direct EXCEPT !.status = "success", !.attempts = attempt + 1]
          ELSE IF answer \in Rejections
          THEN [direct EXCEPT !.status = "rejected", !.attempts = attempt + 1]
          ELSE IF attempt + 1 < retry.maxRetries
          THEN [direct EXCEPT !.attempts = attempt + 1, !.wait = backoff(retry, attempt + 1)]
          ELSE [direct EXCEPT !.status = "failed", !.attempts = attempt + 1]

\* One iteration of dispatchOne's loop, from the request to the wait before the
\* next one; attempt is the loop variable.
DirectAttempt(answer) ==
    LET attempt == direct.attempts
        ended == [direct EXCEPT !.attempts = attempt + 1]
    IN  \/ /\ answer = "ok"
           /\ direct' = [ended EXCEPT !.status = "success"]
        \/ /\ answer \in {"private", "client_error"}
           /\ direct' = [ended EXCEPT !.status = "rejected"]
        \/ /\ answer = "timeout" /\ ~retry.retryOnTimeout
           /\ direct' = [ended EXCEPT !.status = "failed"]
        \/ /\ answer = "server_error" \/ (answer = "timeout" /\ retry.retryOnTimeout)
           /\ direct' = IF attempt + 1 <= retry.maxRetries
                        THEN [ended EXCEPT !.wait = backoff(retry, attempt + 1)]
                        ELSE [ended EXCEPT !.status = "failed"]

Init ==
    /\ retry \in RetryPolicies(Retries, Waits)
    /\ queued = Fresh
    /\ direct = Fresh

Next ==
    /\ queued.status = "pending" \/ direct.status = "pending"
    /\ \E answer \in Answers \ {"canceled"} :
         /\ IF queued.status = "pending" THEN QueuedAttempt(answer) ELSE UNCHANGED queued
         /\ IF direct.status = "pending" THEN DirectAttempt(answer) ELSE UNCHANGED direct
    /\ UNCHANGED retry

Spec == Init /\ [][Next]_vars
-----------------------------------------------------------------------------
\* The two paths judge every sequence of answers alike: same status, same number
\* of requests, same waiting times.
PathsAgree == queued = direct

\* Exponential backoff as a reader of the documentation expects it: every wait is
\* twice the one before, up to max_wait.
ExpectedWait[n \in Nat] ==
    LET base == IF n <= 1 THEN retry.initialWait ELSE 2 * ExpectedWait[n - 1]
    IN  IF base < retry.maxWait THEN base ELSE retry.maxWait

\* The product of initial_wait and the power of two is a time.Duration.
Fits(n) == retry.initialWait * 2^(n - 1) <= MaxDuration

\* "Retried with exponential backoff": as long as backoff's product fits, the wait
\* before a retry is the expected one, also where max_wait takes over. (On amd64 a
\* product that does not fit makes the wait negative.)
WaitIsExponential ==
    (queued.status = "pending" /\ queued.attempts > 0 /\ Fits(queued.attempts)) =>
        queued.wait = ExpectedWait[queued.attempts]
=============================================================================
