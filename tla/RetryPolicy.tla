----------------------------- MODULE RetryPolicy -----------------------------
(***************************************************************************)
(* How mailrelay judges one request to a receiver and when it sends the    *)
(* next one (internal/webhook/dispatcher.go, queue.go).                    *)
(*                                                                         *)
(* The waiting time before a retry is                                      *)
(*                                                                         *)
(*     wait := time.Duration(float64(InitialWait) * math.Pow(2, attempt-1))*)
(*     return min(wait, MaxWait)                                           *)
(*                                                                         *)
(* A time.Duration is a signed integer of 64 bits and the conversion from  *)
(* float64 is implementation-specific when the value does not fit: the     *)
(* amd64 build produces the smallest duration, the arm64 build the largest *)
(* one.  The width is scaled down to the constant MaxDuration; the outcome *)
(* of the conversion is the constant Overflow.                             *)
(***************************************************************************)
EXTENDS Integers

CONSTANTS
    MaxDuration,  \* the largest time.Duration (2^63 - 1 in the program)
    Overflow      \* what a float that is too large converts to

ASSUME DurationAssumption ==
    /\ MaxDuration \in Nat \ {0}
    /\ Overflow \in {MaxDuration, -MaxDuration - 1}

\* models.RetryConfig.  Timeout is left out: that a request times out is one of
\* the answers below.
RetryPolicies(limits, waits) ==
    [maxRetries: limits, initialWait: waits, maxWait: waits, retryOnTimeout: BOOLEAN]

\* What one request may come back with.  "server_error" stands for every answer
\* and transport error that is none of the others; "private" is a target refused
\* by the network guard; "canceled" is a request aborted because its context is
\* cancelled.
Answers == {"ok", "client_error", "server_error", "timeout", "private", "canceled"}

\* Answers that sending the same request again cannot change.
Rejections == {"client_error", "private"}

\* A failure is retried unless it is a rejection or an unwanted timeout.
Retryable(retry, answer) ==
    /\ answer \notin Rejections
    /\ answer = "timeout" => retry.retryOnTimeout

\* The status of a delivery that is given up after this answer.
FailureStatus(answer) == IF answer \in Rejections THEN "rejected" ELSE "failed"

\* time.Duration(x) for a non-negative float x.
ToDuration(x) == IF x <= MaxDuration THEN x ELSE Overflow

\* Faulty variant: doubles once too often.
backoff_Early(retry, attempt) ==
    LET wait == ToDuration(retry.initialWait * 2^attempt)
    IN  IF wait < retry.maxWait THEN wait ELSE retry.maxWait

\* func backoff(retry, attempt); attempt is at least 1.
backoff(retry, attempt) ==
    LET wait == ToDuration(retry.initialWait * 2^(attempt - 1))
    IN  IF wait < retry.maxWait THEN wait ELSE retry.maxWait
=============================================================================
