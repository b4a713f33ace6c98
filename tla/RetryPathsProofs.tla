-------------------------- MODULE RetryPathsProofs --------------------------
(***************************************************************************)
(* Proofs about RetryPaths: for every retry configuration, every width of  *)
(* a duration and every sequence of answers, the two implementations of    *)
(* the retries agree, and their waits are those of exponential backoff.    *)
(*                                                                         *)
(* The provers know nothing of x^y. That 2^(n + 1) is twice 2^n comes from *)
(* the library's theorem on the number of subsets; the induction over the  *)
(* attempts is an argument on the least counterexample.                    *)
(***************************************************************************)
EXTENDS RetryPaths, FiniteSetTheorems, FunctionTheorems, WellFoundedInduction, TLAPS

\* Every nonempty set of naturals has a least element.
LEMMA LeastNumber ==
    ASSUME NEW T \in SUBSET Nat, T # {}
    PROVE  \E x \in T : \A y \in T : x <= y
<1>1. PICK x \in T : \A y \in T : ~ (<<y, x>> \in OpToRel(<, Nat))
    BY NatLessThanWellFounded, WFMin, Zenon
<1>2. \A y \in Nat : y < x => <<y, x>> \in OpToRel(<, Nat)
    BY Zenon DEF OpToRel
<1>3. \A y \in T : ~ (y < x)
    BY <1>1, <1>2
<1> QED
    BY <1>3

SubsetsUpTo(n) == SUBSET (1..n)

LEMMA PowerOfTwo ==
    ASSUME NEW n \in Nat
    PROVE  /\ IsFiniteSet(SubsetsUpTo(n))
           /\ Cardinality(SubsetsUpTo(n)) = 2^n
           /\ 2^n \in Nat
<1>1. IsFiniteSet(1..n) /\ Cardinality(1..n) = n
    BY FS_Interval
<1>2. IsFiniteSet(SUBSET (1..n)) /\ Cardinality(SUBSET (1..n)) = 2^n
    BY <1>1, FS_SUBSET
<1> QED
    BY <1>2, FS_CardinalityType DEF SubsetsUpTo

\* Each subset of 1..n makes two of 1..n+1.
LEMMA PowerDoubles ==
    ASSUME NEW n \in Nat
    PROVE  2^(n + 1) = 2 * 2^n
<1> DEFINE old == SubsetsUpTo(n)
           new == {s \cup {n + 1} : s \in SubsetsUpTo(n)}
<1>1. SubsetsUpTo(n + 1) = old \cup new
  <2>1. ASSUME NEW s \in SubsetsUpTo(n + 1), n + 1 \in s
        PROVE  s \in new
    <3>1. s \ {n + 1} \in old /\ s = (s \ {n + 1}) \cup {n + 1}
      BY <2>1 DEF SubsetsUpTo
    <3> QED
      BY <3>1
  <2>2. ASSUME NEW s \in SubsetsUpTo(n + 1), n + 1 \notin s
        PROVE  s \in old
    BY <2>2 DEF SubsetsUpTo
  <2>3. n + 1 \in 1..n + 1 /\ \A k \in 1..n : k \in 1..n + 1
    OBVIOUS
  <2>4. old \subseteq SubsetsUpTo(n + 1) /\ new \subseteq SubsetsUpTo(n + 1)
    BY <2>3 DEF SubsetsUpTo
  <2> HIDE DEF new, old
  <2> QED
    BY <2>1, <2>2, <2>4
<1>2. old \cap new = {}
    BY DEF SubsetsUpTo
<1>3. ExistsBijection(old, new)
  <2> DEFINE f == [s \in old |-> s \cup {n + 1}]
  <2>1. f \in [old -> new]
    OBVIOUS
  <2>2. \A a, b \in old : f[a] = f[b] => a = b
    BY DEF SubsetsUpTo
  <2>3. \A t \in new : \E s \in old : f[s] = t
    OBVIOUS
  <2>4. f \in Bijection(old, new)
    BY <2>1, <2>2, <2>3 DEF Bijection, Injection, Surjection, IsInjective
  <2> QED
    BY <2>4 DEF ExistsBijection
<1>4. IsFiniteSet(old) /\ Cardinality(old) = 2^n /\ 2^n \in Nat
    BY PowerOfTwo
<1> HIDE DEF new, old
<1>5. IsFiniteSet(new) /\ Cardinality(new) = 2^n
    BY <1>3, <1>4, FS_Bijection
<1>6. Cardinality(old \cup new) = Cardinality(old) + Cardinality(new) - Cardinality({})
    BY <1>2, <1>4, <1>5, FS_Union
<1>7. Cardinality({}) = 0
    BY FS_EmptySet
<1>8. n + 1 \in Nat
    OBVIOUS
<1>9. Cardinality(SubsetsUpTo(n + 1)) = 2^(n + 1)
    BY <1>8, PowerOfTwo
<1> DEFINE c == Cardinality(SubsetsUpTo(n + 1))
           p == 2^n
<1>10. c = p + p - 0 /\ p \in Nat
    BY <1>1, <1>4, <1>5, <1>6, <1>7
<1> HIDE DEF c, p
<1>11. c = 2 * p
    BY <1>10
<1> QED
    BY <1>9, <1>11 DEF c, p
-----------------------------------------------------------------------------
Capped(x) == IF x < retry.maxWait THEN x ELSE retry.maxWait

\* The expected wait without recursion.
ClosedWait(n) == Capped(IF n <= 1 THEN retry.initialWait ELSE retry.initialWait * 2^(n - 1))

RetryInv == retry.initialWait \in Nat /\ retry.maxWait \in Nat

\* The cap commutes with doubling.
LEMMA ClosedWaitDoubles ==
    ASSUME RetryInv, NEW n \in Nat, n > 1
    PROVE  /\ ClosedWait(n - 1) \in Nat
           /\ ClosedWait(n) = Capped(2 * ClosedWait(n - 1))
<1> DEFINE p == 2^(n - 2)
           w == retry.initialWait * p
<1>1. n - 2 \in Nat /\ (n - 2) + 1 = n - 1
    OBVIOUS
<1>2. p \in Nat /\ 2^(n - 1) = 2 * p
    BY <1>1, PowerOfTwo, PowerDoubles
<1>3. 2^0 = 1
    BY SMT
<1>4. n = 2 => p = 1
    BY <1>3
<1> HIDE DEF p
<1>5. w \in Nat /\ retry.initialWait * (2 * p) = 2 * w
    BY <1>2 DEF RetryInv
<1>6. n = 2 => w = retry.initialWait
    BY <1>4 DEF RetryInv
<1>7. ClosedWait(n - 1) = Capped(w)
  <2>1. CASE n = 2
    BY <2>1, <1>6 DEF ClosedWait
  <2>2. CASE n # 2
    <3>1. (n - 1) - 1 = n - 2 /\ ~(n - 1 <= 1)
      BY <2>2
    <3> QED
      BY <3>1 DEF ClosedWait, p
  <2> QED
    BY <2>1, <2>2
<1>8. ClosedWait(n) = Capped(2 * w)
    BY <1>2, <1>5 DEF ClosedWait
<1> HIDE DEF w
<1> QED
    BY <1>5, <1>7, <1>8 DEF Capped, RetryInv

\* The recursive definition of the expected wait has a solution, and only this one.
LEMMA ExpectedWaitClosed ==
    ASSUME RetryInv, NEW n \in Nat
    PROVE  ExpectedWait[n] = ClosedWait(n)
<1> DEFINE body(f, k) == Capped(IF k <= 1 THEN retry.initialWait ELSE 2 * f[k - 1])
           solution == [k \in Nat |-> ClosedWait(k)]
<1>1. solution = [k \in Nat |-> body(solution, k)]
  <2> SUFFICES ASSUME NEW k \in Nat
               PROVE  ClosedWait(k) = body(solution, k)
    OBVIOUS
  <2>1. CASE k <= 1
    BY <2>1 DEF ClosedWait
  <2>2. CASE k > 1
    <3>1. k - 1 \in Nat /\ ~(k <= 1)
      BY <2>2
    <3>2. solution[k - 1] = ClosedWait(k - 1)
      BY <3>1
    <3> HIDE DEF solution
    <3> QED
      BY <2>2, <3>1, <3>2, ClosedWaitDoubles
  <2> QED
    BY <2>1, <2>2
<1>2. ExpectedWait = [k \in Nat |-> body(ExpectedWait, k)]
    BY <1>1 DEF ExpectedWait, Capped
<1>3. \A k \in Nat : ExpectedWait[k] = body(ExpectedWait, k)
    BY <1>2
<1> HIDE DEF solution
<1> DEFINE wrong == {k \in Nat : ExpectedWait[k] # ClosedWait(k)}
<1>4. ASSUME wrong # {}
      PROVE  FALSE
  <2>1. PICK k \in wrong : \A j \in wrong : k <= j
    BY <1>4, LeastNumber
  <2>2. CASE k <= 1
    BY <1>3, <2>2 DEF ClosedWait
  <2>3. CASE k > 1
    <3>1. k - 1 \in Nat /\ ~(k <= k - 1) /\ ~(k <= 1)
      BY <2>3
    <3>2. ExpectedWait[k - 1] = ClosedWait(k - 1)
      BY <2>1, <3>1
    <3>3. ExpectedWait[k] = Capped(2 * ClosedWait(k - 1))
      BY <1>3, <3>1, <3>2
    <3> QED
      BY <2>3, <3>3, ClosedWaitDoubles
  <2> QED
    BY <2>2, <2>3
<1> QED
    BY <1>4

\* backoff is the expected wait whenever its product fits.
LEMMA BackoffIsExpected ==
    ASSUME RetryInv, NEW n \in Nat \ {0}, Fits(n)
    PROVE  backoff(retry, n) = ExpectedWait[n]
<1>1. n - 1 \in Nat /\ 2^0 = 1
    BY SMT
<1>2. backoff(retry, n) = Capped(retry.initialWait * 2^(n - 1))
    BY DEF backoff, ToDuration, Fits, Capped
<1>3. retry.initialWait * 2^(n - 1) = IF n <= 1 THEN retry.initialWait
                                      ELSE retry.initialWait * 2^(n - 1)
  <2>1. CASE n = 1
    <3>1. n - 1 = 0
      BY <2>1
    <3> QED
      BY <1>1, <2>1, <3>1 DEF RetryInv
  <2>2. CASE n # 1
    BY <2>2
  <2> QED
    BY <2>1, <2>2
<1> QED
    BY <1>2, <1>3, ExpectedWaitClosed DEF ClosedWait
-----------------------------------------------------------------------------
Row(r) == [status |-> r.status, attempts |-> r.attempts, wait |-> r.wait]

\* Both paths are at the same attempt, and the last wait is that of backoff.
PathsInv ==
    /\ retry \in RetryPolicies(Retries, Waits)
    /\ queued = Row(queued)
    /\ queued.attempts \in Nat
    /\ PathsAgree
    /\ queued.status = "pending" /\ queued.attempts > 0 =>
         queued.wait = backoff(retry, queued.attempts)

LEMMA InitPathsInv ==
    ASSUME Init
    PROVE  PathsInv
    BY DEF Init, Fresh, PathsInv, PathsAgree, Row

LEMMA NextPathsInv ==
    ASSUME PathsInv, [Next]_vars
    PROVE  PathsInv'
<1>1. CASE UNCHANGED vars
    BY <1>1 DEF vars, PathsInv, PathsAgree, Row
<1>2. CASE Next
  <2>1. direct = queued /\ queued.attempts \in Nat /\ queued = Row(queued)
    BY DEF PathsInv, PathsAgree
  <2>2. PICK answer \in Answers \ {"canceled"} :
               /\ queued.status = "pending"
               /\ QueuedAttempt(answer) /\ DirectAttempt(answer)
    BY <1>2, <2>1 DEF Next
  <2>3. retry' = retry
    BY <1>2 DEF Next
  <2> DEFINE attempts == queued.attempts + 1
             waits == backoff(retry, attempts)
  <2>4. attempts \in Nat
    BY <2>1
  <2>5. CASE answer = "ok"
    <3>1. /\ queued' = [status |-> "success", attempts |-> attempts, wait |-> queued.wait]
          /\ direct' = queued'
      BY <2>1, <2>2, <2>5 DEF QueuedAttempt, DirectAttempt, Row, Rejections
    <3> QED
      BY <2>3, <2>4, <3>1 DEF PathsInv, PathsAgree, Row
  <2>6. CASE answer # "ok" /\ Retryable(retry, answer) /\ attempts <= retry.maxRetries
    <3> HIDE DEF waits
    <3>1. queued' = [status |-> "pending", attempts |-> attempts, wait |-> waits]
      BY <2>1, <2>2, <2>6 DEF QueuedAttempt, waits
    <3>2. direct' = [status |-> "pending", attempts |-> attempts, wait |-> waits]
      BY <2>1, <2>2, <2>6 DEF DirectAttempt, Row, Retryable, Rejections, waits
    <3> QED
      BY <2>3, <2>4, <3>1, <3>2 DEF PathsInv, PathsAgree, Row, waits
  <2>7. CASE answer # "ok" /\ ~(Retryable(retry, answer) /\ attempts <= retry.maxRetries)
    <3>1. queued' = [status |-> FailureStatus(answer), attempts |-> attempts, wait |-> queued.wait]
      BY <2>1, <2>2, <2>7 DEF QueuedAttempt, Row
    <3>2. direct' = queued'
      BY <2>1, <2>2, <2>7, <3>1
         DEF DirectAttempt, Row, Retryable, FailureStatus, Rejections, Answers
    <3>3. FailureStatus(answer) # "pending"
      BY DEF FailureStatus
    <3> QED
      BY <2>3, <2>4, <3>1, <3>2, <3>3 DEF PathsInv, PathsAgree, Row
  <2> QED
    BY <2>5, <2>6, <2>7
<1> QED
    BY <1>1, <1>2

LEMMA PathsInvariant == Spec => []PathsInv
<1>1. Init => PathsInv
    BY InitPathsInv
<1>2. PathsInv /\ [Next]_vars => PathsInv'
    BY NextPathsInv
<1> QED
    BY <1>1, <1>2, PTL DEF Spec

\* The queue and the loop of dispatchOne give every sequence of answers the same
\* verdict, after the same number of requests and the same waits.
THEOREM TwoPathsAgree == Spec => []PathsAgree
<1>1. PathsInv => PathsAgree
    BY DEF PathsInv
<1> QED
    BY <1>1, PathsInvariant, PTL

\* The waits of the queue double up to max_wait, for every configuration and every
\* number of attempts whose product fits.
THEOREM WaitsAreExponential == Spec => []WaitIsExponential
<1>1. ASSUME PathsInv
      PROVE  WaitIsExponential
  <2>1. RetryInv
    <3>1. Waits \subseteq Nat
      BY PathsAssumption, DurationAssumption
    <3>2. retry.initialWait \in Waits /\ retry.maxWait \in Waits
      BY <1>1 DEF PathsInv, RetryPolicies
    <3> QED
      BY <3>1, <3>2 DEF RetryInv
  <2> SUFFICES ASSUME queued.status = "pending", queued.attempts > 0, Fits(queued.attempts)
               PROVE  queued.wait = ExpectedWait[queued.attempts]
    BY DEF WaitIsExponential
  <2>2. queued.attempts \in Nat \ {0} /\ queued.wait = backoff(retry, queued.attempts)
    BY <1>1 DEF PathsInv
  <2> QED
    BY <2>1, <2>2, BackoffIsExpected
<1> QED
    BY <1>1, PathsInvariant, PTL
=============================================================================
