--------------------------- MODULE MCDeliveryQueue ---------------------------
(***************************************************************************)
(* Small instances of DeliveryQueue for TLC.                               *)
(***************************************************************************)
EXTENDS DeliveryQueue, TLC

\* Timeouts retried, one retry; and timeouts final, no retry.
MCRetryConfigs ==
    {[maxRetries |-> 1, initialWait |-> 1, maxWait |-> 2, retryOnTimeout |-> TRUE],
     [maxRetries |-> 0, initialWait |-> 1, maxWait |-> 2, retryOnTimeout |-> FALSE]}

\* One policy that retries.
MCRetryOnce ==
    {[maxRetries |-> 1, initialWait |-> 1, maxWait |-> 2, retryOnTimeout |-> TRUE]}

Symmetry == Permutations(Emails) \cup Permutations(Deliveries) \cup Permutations(Workers)
=============================================================================
