------------------------- MODULE DeliveryQueueProofs -------------------------
(***************************************************************************)
(* Theorems about DeliveryQueue for any number of emails, deliveries,      *)
(* workers, restarts and storage failures, and any retry configurations:   *)
(* types and claims, the status of an email, what a receiver sees, and the *)
(* implementation of DeliveryLedger.                                       *)
(***************************************************************************)
EXTENDS DeliveryQueue, TLAPS

-----------------------------------------------------------------------------
(* Types: the operators on the tables.                                     *)

\* The waiting time is an integer, negative after an overflow.
LEMMA BackoffType ==
    ASSUME NEW retry \in RetryConfigs, NEW n \in Nat
    PROVE  backoff(retry, n + 1) \in Int
<1> retry \in [maxRetries: Nat, initialWait: Nat, maxWait: Nat, retryOnTimeout: BOOLEAN]
  BY QueueAssumption DEF RetryPolicies
<1>1. 2^((n + 1) - 1) \in Int
  OBVIOUS
<1> DEFINE product == retry.initialWait * 2^((n + 1) - 1)
<1>2. product \in Int
  BY <1>1
<1>3. ToDuration(product) \in Int
  <2> HIDE DEF product
  <2> QED BY <1>2, DurationAssumption DEF ToDuration
<1> QED BY <1>3 DEF backoff

\* SaveEmail keeps the tables well typed.
LEMMA InsertEmailTypes ==
    ASSUME TableTypes, NEW e \in Emails, NEW s \in {"received", "rejected"}, InsertEmail(e, s)
    PROVE  TableTypes'
BY DEF TableTypes, InsertEmail, EmailStatuses, NoBatch

\* EnqueueDeliveries keeps the tables well typed.
LEMMA EnqueueTypes ==
    ASSUME TableTypes, now \in Nat,
           NEW e \in Emails, NEW D \in SUBSET Deliveries, NEW policy \in [D -> RetryConfigs],
           EnqueueDeliveries(e, D, policy)
    PROVE  TableTypes'
<1>1. deliveries' \in [DOMAIN deliveries' -> Rows]
  BY DEF TableTypes, EnqueueDeliveries, Rows, Unfinished
<1>2. emails' \in [DOMAIN emails' -> [status: EmailStatuses, batch: Nat]]
  BY DEF TableTypes, EnqueueDeliveries, EmailStatuses
<1> QED BY <1>1, <1>2 DEF TableTypes, EnqueueDeliveries

\* UpdateEmailStatus(dropped) keeps the tables well typed.
LEMMA DropTypes ==
    ASSUME TableTypes, NEW e \in Emails, DropEmail(e)
    PROVE  TableTypes'
BY DEF TableTypes, DropEmail, EmailStatuses

\* Deleting emails keeps the tables well typed.
LEMMA DeleteTypes ==
    ASSUME TableTypes, NEW E \in SUBSET Emails, DeleteEmails(E)
    PROVE  TableTypes'
BY DEF TableTypes, DeleteEmails

\* The row that FinishDelivery writes is well typed, and no row is added or removed.
LEMMA SavedRowsTypes ==
    ASSUME TableTypes, NEW d \in Deliveries, NEW r \in Results
    PROVE  /\ DOMAIN SavedRows(d, r) = DOMAIN deliveries
           /\ SavedRows(d, r) \in [DOMAIN deliveries -> Rows]
BY DEF TableTypes, SavedRows, Results, Rows

\* FinishDelivery keeps the tables well typed.
LEMMA FinishTypes ==
    ASSUME TableTypes, NEW j \in Jobs, NEW r \in Results, FinishDelivery(j, r)
    PROVE  TableTypes'
<1>1. j.id \in Deliveries
  BY DEF Jobs
<1>2. BatchStatus(SavedRows(j.id, r), j.email, emails[j.email].batch) \in EmailStatuses
  BY DEF BatchStatus, EmailStatuses
<1>3. emails' \in [DOMAIN emails -> [status: EmailStatuses, batch: Nat]]
  BY <1>2 DEF FinishDelivery, TableTypes
<1> QED BY <1>1, <1>3, SavedRowsTypes DEF FinishDelivery, TableTypes

\* A claimed row is a well typed job.
LEMMA ClaimTypes ==
    ASSUME TypeOK, NEW w \in Workers, ClaimDelivery(w)
    PROVE  TableTypes' /\ PoolTypes'
<1> USE DEF TypeOK, TableTypes
<1>1. PICK d \in Claimable :
        /\ deliveries' = [deliveries EXCEPT ![d].status = "in_progress"]
        /\ job' = [job EXCEPT ![w] =
                     [id |-> d, email |-> deliveries[d].email,
                      attempts |-> deliveries[d].attempts, snapshot |-> deliveries[d].snapshot]]
  BY DEF ClaimDelivery
<1>2. d \in DOMAIN deliveries /\ d \in Deliveries /\ deliveries[d] \in Rows
  BY DEF Claimable
<1>3. TableTypes'
  BY <1>1, <1>2 DEF ClaimDelivery, Rows, Unfinished
<1>4. job'[w] \in Jobs /\ job' \in [Workers -> Jobs \cup {NoJob}]
  BY <1>1, <1>2 DEF PoolTypes, Rows, Jobs
<1>5. PoolTypes'
  BY <1>1, <1>4, NullAssumption DEF ClaimDelivery, PoolTypes, process
<1> QED BY <1>3, <1>5

\* Recovery keeps the tables well typed.
LEMMA RecoverTypes ==
    ASSUME TableTypes
    PROVE  RecoveredRows \in [DOMAIN deliveries -> Rows]
BY DEF TableTypes, RecoveredRows, Rows, Unfinished

\* What a worker saves is well typed.
LEMMA DecisionTypes ==
    ASSUME now \in Nat, NEW j \in Jobs, j.snapshot # NoSnapshot, NEW answer \in Answers
    PROVE  Decision(j, answer) \in Results
<1>1. j.attempts \in Nat /\ j.snapshot \in RetryConfigs
  BY DEF Jobs
<1>2. backoff(j.snapshot, j.attempts + 1) \in Int
  BY <1>1, BackoffType
<1> HIDE DEF backoff
<1> QED BY <1>1, <1>2 DEF Decision, Results, Unfinished, Final, FailureStatus

-----------------------------------------------------------------------------
(* Types: the actions.                                                     *)

LEMMA InitTypes == Init => TypeOK
<1> SUFFICES ASSUME Init PROVE TypeOK
  OBVIOUS
<1>1. TableTypes
  BY DEF Init, TableTypes, NoBatch
<1>2. PoolTypes
  BY DEF Init, PoolTypes
<1>3. stop \in BOOLEAN /\ cancelled \in BOOLEAN
  BY DEF Init
<1>4. ProcessTypes
  BY <1>3, QueueAssumption DEF Init, ProcessTypes
<1> QED BY <1>1, <1>2, <1>4 DEF TypeOK

\* The handlers of the servers change the tables only.
LEMMA EnvironmentTypes ==
    ASSUME TypeOK, Environment
    PROVE  TypeOK'
<1> USE DEF TypeOK
<1>1. ASSUME NEW e \in Emails, NEW s \in {"received", "rejected"}, SaveEmail(e, s)
      PROVE  TypeOK'
  BY <1>1, InsertEmailTypes
     DEF SaveEmail, PoolTypes, ProcessTypes, process, pool, history
<1>2. ASSUME NEW e \in Emails, NEW D \in SUBSET Deliveries, NEW policy \in [D -> RetryConfigs],
             HandlerEnqueue(e, D, policy) \/ Replay(e, D, policy)
      PROVE  TypeOK'
  BY <1>2, EnqueueTypes
     DEF HandlerEnqueue, Replay, PoolTypes, ProcessTypes, process, pool, history
<1>3. ASSUME NEW e \in Emails, HandlerDrop(e) \/ ReplayDrop(e)
      PROVE  TypeOK'
  BY <1>3, DropTypes
     DEF HandlerDrop, ReplayDrop, PoolTypes, ProcessTypes, process, pool, history
<1>4. ASSUME NEW e \in Emails, HandlerFails(e)
      PROVE  TypeOK'
  BY <1>4, QueueAssumption
     DEF HandlerFails, TableTypes, PoolTypes, ProcessTypes, tables, process, pool
<1>5. ASSUME NEW E \in SUBSET Emails, DeleteByUser(E) \/ CleanupExpired(E)
      PROVE  TypeOK'
  BY <1>5, DeleteTypes
     DEF DeleteByUser, CleanupExpired, PoolTypes, ProcessTypes, process, pool, history
<1> QED BY <1>1, <1>2, <1>3, <1>4, <1>5 DEF Environment

\* A worker saves a result, or fails to: the tables stay well typed either way.
LEMMA SavingTypes ==
    ASSUME TypeOK, NEW w \in Workers, NEW r \in Results, job[w] # NoJob,
           \/ /\ FinishDelivery(job[w], r)
              /\ UNCHANGED <<lost, faults>>
           \/ /\ faults < MaxFaults
              /\ faults' = faults + 1
              /\ lost' = lost \cup {job[w].id}
              /\ UNCHANGED tables
    PROVE  /\ TableTypes'
           /\ faults' \in 0..MaxFaults
           /\ lost' \subseteq Deliveries
<1>1. job[w] \in Jobs /\ job[w].id \in Deliveries
  BY DEF TypeOK, PoolTypes, Jobs
<1>2. TableTypes'
  BY <1>1, FinishTypes DEF TypeOK, TableTypes, tables
<1> QED BY <1>1, <1>2, QueueAssumption DEF TypeOK, ProcessTypes

LEMMA WorkerTypes ==
    ASSUME TypeOK, NEW w \in Workers, WorkerStep(w)
    PROVE  TypeOK'
<1> USE DEF TypeOK
<1>1. CASE CheckStop(w) \/ Wait(w)
  BY <1>1 DEF CheckStop, Wait, TableTypes, PoolTypes, ProcessTypes, tables, process, history
<1>2. CASE ClaimDelivery(w)
  BY <1>2, ClaimTypes DEF ClaimDelivery, ProcessTypes, process, history
<1>3. CASE ClaimNothing(w)
  BY <1>3, QueueAssumption
     DEF ClaimNothing, TableTypes, PoolTypes, ProcessTypes, tables, process
<1>4. CASE Release(w)
  <2>1. Released(job[w]) \in Results /\ job[w] # NoJob
    BY <1>4 DEF Release, Released, Results, Unfinished, PoolTypes, ProcessTypes, Jobs
  <2>2. TableTypes' /\ faults' \in 0..MaxFaults /\ lost' \subseteq Deliveries
    BY <1>4, <2>1, SavingTypes DEF Release
  <2>3. PoolTypes'
    BY <1>4 DEF Release, PoolTypes, process
  <2> QED BY <1>4, <2>2, <2>3 DEF Release, ProcessTypes, process
<1>5. CASE PrepareFails(w)
  <2>1. [status |-> "error", attempts |-> job[w].attempts, next |-> Never] \in Results
    BY <1>5 DEF PrepareFails, Results, Final, PoolTypes, Jobs
  <2> QED BY <1>5, <2>1, NullAssumption
          DEF PrepareFails, TableTypes, PoolTypes, ProcessTypes, tables, process, history
<1>6. CASE Send(w)
  <2>1. job[w] \in Jobs /\ job[w].id \in Deliveries
    BY <1>6 DEF Send, PoolTypes, Jobs
  <2> QED BY <1>6, <2>1 DEF Send, TableTypes, PoolTypes, ProcessTypes, tables, process
<1>7. CASE SaveResult(w)
  <2>1. result[w] \in Results /\ job[w] # NoJob
    BY <1>7 DEF SaveResult, PoolTypes
  <2>2. TableTypes' /\ faults' \in 0..MaxFaults /\ lost' \subseteq Deliveries
    BY <1>7, <2>1, SavingTypes DEF SaveResult
  <2>3. PoolTypes'
    BY <1>7 DEF SaveResult, PoolTypes, process
  <2> QED BY <1>7, <2>2, <2>3 DEF SaveResult, ProcessTypes, process
<1> QED BY <1>1, <1>2, <1>3, <1>4, <1>5, <1>6, <1>7 DEF WorkerStep

LEMMA AnswerTypes ==
    ASSUME TypeOK, NEW w \in Workers, NEW answer \in Answers, Answer(w, answer)
    PROVE  TypeOK'
<1> USE DEF TypeOK
<1>1. job[w] \in Jobs /\ job[w].id \in Deliveries /\ job[w].snapshot # NoSnapshot
  BY DEF Answer, PoolTypes, Jobs
<1>2. Decision(job[w], answer) \in Results
  BY <1>1, DecisionTypes DEF ProcessTypes
<1>3. PoolTypes'
  BY <1>2, NullAssumption DEF Answer, PoolTypes, process
<1>4. ProcessTypes'
  BY <1>1 DEF Answer, ProcessTypes, process
<1> QED BY <1>3, <1>4 DEF Answer, TableTypes, tables

LEMMA LifecycleTypes ==
    ASSUME TypeOK, Lifecycle
    PROVE  TypeOK'
<1> USE DEF TypeOK
<1>1. CASE StopQueue \/ GraceExpires \/ Exit \/ Tick
  <2>1. TableTypes' /\ PoolTypes'
    BY <1>1
       DEF StopQueue, GraceExpires, Exit, Tick, TableTypes, PoolTypes, tables, process, pool
  <2>2. stop' \in BOOLEAN /\ cancelled' \in BOOLEAN
    BY <1>1 DEF StopQueue, GraceExpires, Exit, Tick, ProcessTypes, process
  <2> QED BY <1>1, <2>1, <2>2
          DEF StopQueue, GraceExpires, Exit, Tick, ProcessTypes, process, history
<1>2. CASE Crash
  BY <1>2 DEF Crash, TableTypes, PoolTypes, ProcessTypes, tables, history
<1>3. CASE StartQueue
  <2>1. TableTypes'
    BY <1>3, RecoverTypes DEF StartQueue, TableTypes
  <2>2. PoolTypes'
    BY <1>3 DEF StartQueue, PoolTypes
  <2>3. stop' \in BOOLEAN /\ cancelled' \in BOOLEAN
    BY <1>3 DEF StartQueue
  <2> QED BY <1>3, <2>1, <2>2, <2>3 DEF StartQueue, ProcessTypes
<1> QED BY <1>1, <1>2, <1>3 DEF Lifecycle

LEMMA NextTypes == TypeOK /\ [Next]_vars => TypeOK'
<1> SUFFICES ASSUME TypeOK, [Next]_vars PROVE TypeOK'
  OBVIOUS
<1>1. CASE UNCHANGED vars
  BY <1>1
     DEF vars, tables, process, pool, history, TypeOK, TableTypes, PoolTypes, ProcessTypes
<1>2. CASE Next
  BY <1>2, EnvironmentTypes, WorkerTypes, AnswerTypes, LifecycleTypes DEF Next
<1> QED BY <1>1, <1>2

\* The tables, the workers and the process always have their declared types, and a
\* worker holds a row exactly between ClaimDelivery and FinishDelivery, for any
\* number of emails, deliveries and workers.
THEOREM TypeCorrect == Spec => []TypeOK
BY InitTypes, NextTypes, PTL DEF Spec

-----------------------------------------------------------------------------
(* Who holds what: ClaimInv is inductive relative to TypeOK.               *)

LEMMA InitClaims == Init => ClaimInv
BY DEF Init, ClaimInv, ExclusiveClaim, HeldIsCurrent, LostIsInProgress, ResultIsDecided,
       UnfinishedIsScheduled, InProgressIsHeld

\* A step that leaves jobs, results and existing rows alone, except that rows may
\* disappear and fresh pending ones may appear, keeps ClaimInv.
LEMMA QuietClaims ==
    ASSUME TypeOK, ClaimInv,
           UNCHANGED <<job, result, lost, phase>>,
           issued \subseteq issued',
           \A d \in DOMAIN deliveries' :
              \/ d \in DOMAIN deliveries /\ deliveries'[d] = deliveries[d]
              \/ /\ d \notin issued
                 /\ deliveries'[d].status = "pending"
                 /\ deliveries'[d].snapshot # NoSnapshot
                 /\ deliveries'[d].due # Never
    PROVE  ClaimInv'
<1>1. ExclusiveClaim' /\ ResultIsDecided'
  BY DEF ClaimInv, ExclusiveClaim, ResultIsDecided
<1>2. HeldIsCurrent'
  BY DEF ClaimInv, HeldIsCurrent
<1>3. LostIsInProgress'
  BY DEF ClaimInv, LostIsInProgress
<1>4. UnfinishedIsScheduled'
  BY DEF ClaimInv, UnfinishedIsScheduled
<1>5. InProgressIsHeld'
  BY DEF ClaimInv, InProgressIsHeld
<1> QED BY <1>1, <1>2, <1>3, <1>4, <1>5 DEF ClaimInv

\* New deliveries start pending, with a snapshot and a due time.
LEMMA EnqueueRows ==
    ASSUME TypeOK, NEW e \in Emails, NEW D \in SUBSET Deliveries,
           NEW policy \in [D -> RetryConfigs], EnqueueDeliveries(e, D, policy)
    PROVE  /\ issued \subseteq issued'
           /\ \A d \in DOMAIN deliveries' :
                \/ d \in DOMAIN deliveries /\ d \notin D /\ deliveries'[d] = deliveries[d]
                \/ /\ d \in D
                   /\ d \notin issued
                   /\ deliveries'[d].status = "pending"
                   /\ deliveries'[d].snapshot \in RetryConfigs
                   /\ deliveries'[d].attempts = 0
                   /\ deliveries'[d].snapshot # NoSnapshot
                   /\ deliveries'[d].due # Never
<1>1. now # Never
  BY QueueAssumption DEF TypeOK, ProcessTypes
<1> QED BY <1>1, QueueAssumption DEF EnqueueDeliveries, TypeOK, TableTypes

LEMMA EnvironmentClaims ==
    ASSUME TypeOK, ClaimInv, Environment
    PROVE  ClaimInv'
<1>1. ASSUME NEW e \in Emails, NEW s \in {"received", "rejected"}, SaveEmail(e, s)
      PROVE  ClaimInv'
  BY <1>1, QuietClaims DEF SaveEmail, InsertEmail, process, pool, history
<1>2. ASSUME NEW e \in Emails, NEW D \in SUBSET Deliveries, NEW policy \in [D -> RetryConfigs],
             HandlerEnqueue(e, D, policy) \/ Replay(e, D, policy)
      PROVE  ClaimInv'
  <2>1. EnqueueDeliveries(e, D, policy) /\ UNCHANGED <<job, result, lost, phase>>
    BY <1>2 DEF HandlerEnqueue, Replay, process, pool, history
  <2> QED BY <2>1, EnqueueRows, QuietClaims
<1>3. ASSUME NEW e \in Emails, HandlerDrop(e) \/ ReplayDrop(e) \/ HandlerFails(e)
      PROVE  ClaimInv'
  BY <1>3, QuietClaims
     DEF HandlerDrop, ReplayDrop, HandlerFails, DropEmail, tables, process, pool, history
<1>4. ASSUME NEW E \in SUBSET Emails, DeleteByUser(E) \/ CleanupExpired(E)
      PROVE  ClaimInv'
  BY <1>4, QuietClaims DEF DeleteByUser, CleanupExpired, DeleteEmails, process, pool, history
<1> QED BY <1>1, <1>2, <1>3, <1>4 DEF Environment

\* A claim takes a pending row, which nobody holds.
LEMMA ClaimClaims ==
    ASSUME TypeOK, ClaimInv, NEW w \in Workers, ClaimDelivery(w)
    PROVE  ClaimInv'
<1>1. PICK d \in Claimable :
        /\ deliveries' = [deliveries EXCEPT ![d].status = "in_progress"]
        /\ job' = [job EXCEPT ![w] =
                     [id |-> d, email |-> deliveries[d].email,
                      attempts |-> deliveries[d].attempts, snapshot |-> deliveries[d].snapshot]]
  BY DEF ClaimDelivery
<1>2. d \in DOMAIN deliveries /\ deliveries[d].status = "pending" /\ d \in issued
  BY DEF Claimable, TypeOK, TableTypes
<1>3. DOMAIN deliveries' = DOMAIN deliveries /\ UNCHANGED <<issued, lost, phase, result>>
  BY <1>1 DEF ClaimDelivery, process, history
<1>4. \A v \in Workers : job[v] # NoJob => job[v].id # d
  BY <1>2 DEF ClaimInv, HeldIsCurrent
<1>5. d \notin lost
  BY <1>2 DEF ClaimInv, LostIsInProgress
<1>6. \A x \in DOMAIN deliveries : x # d => deliveries'[x] = deliveries[x]
  BY <1>1, <1>2
<1>7. deliveries[d] \in Rows
  BY <1>2 DEF TypeOK, TableTypes
<1>8. /\ deliveries'[d].status = "in_progress"
      /\ deliveries'[d].email = deliveries[d].email
      /\ deliveries'[d].attempts = deliveries[d].attempts
      /\ deliveries'[d].snapshot = deliveries[d].snapshot
      /\ deliveries'[d].due = deliveries[d].due
  BY <1>1, <1>2, <1>7 DEF Rows
<1>9. /\ job'[w].id = d /\ job'[w].email = deliveries[d].email
      /\ job'[w].attempts = deliveries[d].attempts /\ job'[w].snapshot = deliveries[d].snapshot
      /\ \A v \in Workers : v # w => job'[v] = job[v]
  BY <1>1 DEF TypeOK, PoolTypes
<1>10. ExclusiveClaim'
  BY <1>4, <1>9 DEF ClaimInv, ExclusiveClaim
<1>11. HeldIsCurrent'
  <2>1. ASSUME NEW v \in Workers, v # w, job'[v] # NoJob
        PROVE  /\ job'[v].id \in issued' \ lost'
               /\ job'[v].id \in DOMAIN deliveries' =>
                    /\ deliveries'[job'[v].id].status = "in_progress"
                    /\ deliveries'[job'[v].id].email = job'[v].email
                    /\ deliveries'[job'[v].id].attempts = job'[v].attempts
                    /\ deliveries'[job'[v].id].snapshot = job'[v].snapshot
    BY <2>1, <1>3, <1>4, <1>6, <1>9 DEF ClaimInv, HeldIsCurrent
  <2> QED BY <2>1, <1>2, <1>3, <1>5, <1>8, <1>9 DEF HeldIsCurrent
<1>12. LostIsInProgress'
  BY <1>3, <1>5, <1>6 DEF ClaimInv, LostIsInProgress
<1>13. ResultIsDecided'
  BY <1>3 DEF ClaimInv, ResultIsDecided
<1>14. UnfinishedIsScheduled'
  <2>1. deliveries[d].snapshot # NoSnapshot /\ deliveries[d].due # Never
    BY <1>2 DEF ClaimInv, UnfinishedIsScheduled, Unfinished
  <2> QED BY <2>1, <1>3, <1>6, <1>8 DEF ClaimInv, UnfinishedIsScheduled
<1>15. job'[w] # NoJob
  BY <1>1, <1>7, <1>2, NullAssumption DEF TypeOK, PoolTypes, TableTypes, Jobs, Rows
<1>16. InProgressIsHeld'
  <2> SUFFICES ASSUME phase' # "crashed", NEW x \in DOMAIN deliveries',
                      deliveries'[x].status = "in_progress"
               PROVE  x \in lost' \/ \E v \in Workers : job'[v] # NoJob /\ job'[v].id = x
    BY DEF InProgressIsHeld
  <2>1. CASE x = d
    BY <2>1, <1>9, <1>15
  <2>2. CASE x # d
    <3>1. x \in lost \/ \E v \in Workers : job[v] # NoJob /\ job[v].id = x
      BY <2>2, <1>3, <1>6 DEF ClaimInv, InProgressIsHeld
    <3>2. job[w] = NoJob
      BY DEF ClaimDelivery, TypeOK, PoolTypes
    <3> QED BY <3>1, <3>2, <1>3, <1>9
  <2> QED BY <2>1, <2>2
<1> QED BY <1>10, <1>11, <1>12, <1>13, <1>14, <1>16 DEF ClaimInv

\* What FinishDelivery does to the rows.
LEMMA FinishRows ==
    ASSUME TypeOK, NEW j \in Jobs, NEW r \in Results, FinishDelivery(j, r)
    PROVE  /\ DOMAIN deliveries' = DOMAIN deliveries
           /\ UNCHANGED <<seen, issued, lastBatch>>
           /\ \A x \in DOMAIN deliveries : x # j.id => deliveries'[x] = deliveries[x]
           /\ j.id \in DOMAIN deliveries =>
                /\ deliveries'[j.id].status = r.status
                /\ deliveries'[j.id].email = deliveries[j.id].email
                /\ deliveries'[j.id].batch = deliveries[j.id].batch
                /\ deliveries'[j.id].attempts = r.attempts
                /\ deliveries'[j.id].due = r.next
                /\ r.next # Never => deliveries'[j.id].snapshot = deliveries[j.id].snapshot
<1>1. deliveries' = SavedRows(j.id, r) /\ UNCHANGED <<seen, issued, lastBatch>>
  BY DEF FinishDelivery
<1>2. CASE j.id \in DOMAIN deliveries
  BY <1>1, <1>2 DEF SavedRows, TypeOK, TableTypes
<1>3. CASE j.id \notin DOMAIN deliveries
  BY <1>1, <1>3 DEF SavedRows
<1> QED BY <1>2, <1>3

\* A worker lets go of its row: it saves a decided result, or loses it.
LEMMA SaveClaims ==
    ASSUME TypeOK, ClaimInv, NEW w \in Workers, NEW r \in Results, job[w] # NoJob,
           r.status \in {"pending"} \cup Final,
           r.next = Never <=> r.status \in Final,
           \/ FinishDelivery(job[w], r) /\ UNCHANGED lost
           \/ UNCHANGED <<deliveries, issued>> /\ lost' = lost \cup {job[w].id},
           job' = [job EXCEPT ![w] = NoJob],
           result' = result \/ result' = [result EXCEPT ![w] = NoResult],
           phase' = phase
    PROVE  ClaimInv'
<1> DEFINE d == job[w].id
<1>1. job[w] \in Jobs
  BY DEF TypeOK, PoolTypes
<1>2. /\ DOMAIN deliveries' = DOMAIN deliveries
      /\ issued' = issued
      /\ \A x \in DOMAIN deliveries : x # d => deliveries'[x] = deliveries[x]
  BY <1>1, FinishRows
<1>3. job'[w] = NoJob /\ \A v \in Workers : v # w => job'[v] = job[v]
  BY DEF TypeOK, PoolTypes
<1>4. \A v \in Workers : job'[v] # NoJob => v # w /\ job'[v] = job[v] /\ job[v].id # d
  BY <1>3 DEF ClaimInv, ExclusiveClaim
<1>5. lost' = lost \/ lost' = lost \cup {d}
  OBVIOUS
<1>6. d \in issued \ lost /\ (d \in DOMAIN deliveries => deliveries[d].status = "in_progress")
  BY DEF ClaimInv, HeldIsCurrent
<1> HIDE DEF d
<1>7. ExclusiveClaim'
  BY <1>4 DEF ClaimInv, ExclusiveClaim
<1>8. HeldIsCurrent'
  <2>1. ASSUME NEW v \in Workers, job'[v] # NoJob
        PROVE  /\ job'[v].id \in issued' \ lost'
               /\ job'[v].id \in DOMAIN deliveries' =>
                    deliveries'[job'[v].id] = deliveries[job[v].id]
    BY <2>1, <1>2, <1>4, <1>5 DEF ClaimInv, HeldIsCurrent
  <2> QED BY <2>1, <1>2, <1>4 DEF ClaimInv, HeldIsCurrent
<1>9. LostIsInProgress'
  <2>1. CASE UNCHANGED lost
    BY <2>1, <1>2, <1>6 DEF ClaimInv, LostIsInProgress
  <2>2. CASE UNCHANGED <<deliveries, issued>> /\ lost' = lost \cup {d}
    BY <2>2, <1>6 DEF ClaimInv, LostIsInProgress
  <2> QED BY <2>1, <2>2 DEF d
<1>10. ResultIsDecided'
  BY DEF ClaimInv, ResultIsDecided, TypeOK, PoolTypes
<1>11. UnfinishedIsScheduled'
  <2>1. CASE UNCHANGED deliveries
    BY <2>1 DEF ClaimInv, UnfinishedIsScheduled
  <2>2. CASE FinishDelivery(job[w], r)
    <3>1. d \in DOMAIN deliveries /\ r.status \in Unfinished =>
            /\ deliveries'[d].due # Never
            /\ deliveries'[d].snapshot = deliveries[d].snapshot
      BY <2>2, <1>1, FinishRows DEF d, Unfinished, Final
    <3>2. d \in DOMAIN deliveries => deliveries[d].snapshot # NoSnapshot
      BY <1>6 DEF ClaimInv, UnfinishedIsScheduled, Unfinished
    <3>3. d \in DOMAIN deliveries => deliveries'[d].status = r.status
      BY <2>2, <1>1, FinishRows DEF d
    <3> QED BY <3>1, <3>2, <3>3, <1>2 DEF ClaimInv, UnfinishedIsScheduled
  <2> QED BY <2>1, <2>2
<1>12. InProgressIsHeld'
  <2> SUFFICES ASSUME phase' # "crashed", NEW x \in DOMAIN deliveries',
                      deliveries'[x].status = "in_progress"
               PROVE  x \in lost' \/ \E v \in Workers : job'[v] # NoJob /\ job'[v].id = x
    BY DEF InProgressIsHeld
  <2>1. CASE x = d
    <3>1. CASE FinishDelivery(job[w], r)
      <4>1. deliveries'[d].status = r.status
        BY <3>1, <2>1, <1>1, <1>2, FinishRows DEF d
      <4> QED BY <4>1, <2>1 DEF Final
    <3>2. CASE lost' = lost \cup {job[w].id}
      BY <3>2, <2>1 DEF d
    <3> QED BY <3>1, <3>2
  <2>2. CASE x # d
    <3>1. x \in lost \/ \E v \in Workers : job[v] # NoJob /\ job[v].id = x
      BY <2>2, <1>2 DEF ClaimInv, InProgressIsHeld
    <3>2. CASE x \in lost
      BY <3>2, <1>5
    <3>3. ASSUME NEW v \in Workers, job[v] # NoJob, job[v].id = x
          PROVE  \E u \in Workers : job'[u] # NoJob /\ job'[u].id = x
      BY <3>3, <2>2, <1>3 DEF d
    <3> QED BY <3>1, <3>2, <3>3
  <2> QED BY <2>1, <2>2
<1> QED BY <1>7, <1>8, <1>9, <1>10, <1>11, <1>12 DEF ClaimInv

LEMMA WorkerClaims ==
    ASSUME TypeOK, ClaimInv, NEW w \in Workers, WorkerStep(w)
    PROVE  ClaimInv'
<1>1. CASE CheckStop(w) \/ Wait(w) \/ ClaimNothing(w) \/ Send(w)
  BY <1>1, QuietClaims
     DEF CheckStop, Wait, ClaimNothing, Send, tables, process, history
<1>2. CASE ClaimDelivery(w)
  BY <1>2, ClaimClaims
<1>3. CASE Release(w)
  <2>1. Released(job[w]) \in Results /\ job[w] # NoJob
    BY <1>3 DEF Release, Released, Results, Unfinished, TypeOK, PoolTypes, ProcessTypes, Jobs
  <2>2. /\ Released(job[w]).status \in {"pending"} \cup Final
        /\ Released(job[w]).next = Never <=> Released(job[w]).status \in Final
    BY QueueAssumption DEF Released, Final, TypeOK, ProcessTypes
  <2>3. /\ \/ FinishDelivery(job[w], Released(job[w])) /\ UNCHANGED lost
           \/ UNCHANGED <<deliveries, issued>> /\ lost' = lost \cup {job[w].id}
        /\ job' = [job EXCEPT ![w] = NoJob]
        /\ result' = result
        /\ phase' = phase
    BY <1>3 DEF Release, tables, process
  <2> QED BY <2>1, <2>2, <2>3, SaveClaims
<1>4. CASE PrepareFails(w)
  <2>1. UNCHANGED <<job, lost, phase, issued, deliveries>>
    BY <1>4 DEF PrepareFails, tables, process, history
  <2>2. ResultIsDecided'
    BY <1>4 DEF PrepareFails, ClaimInv, ResultIsDecided, Final, TypeOK, PoolTypes
  <2> QED BY <2>1, <2>2
          DEF ClaimInv, ExclusiveClaim, HeldIsCurrent, LostIsInProgress,
              UnfinishedIsScheduled, InProgressIsHeld
<1>5. CASE SaveResult(w)
  <2>1. result[w] \in Results /\ job[w] # NoJob /\ result[w] # NoResult
    BY <1>5 DEF SaveResult, TypeOK, PoolTypes
  <2>2. /\ result[w].status \in {"pending"} \cup Final
        /\ result[w].next = Never <=> result[w].status \in Final
    BY <2>1 DEF ClaimInv, ResultIsDecided
  <2>3. /\ \/ FinishDelivery(job[w], result[w]) /\ UNCHANGED lost
           \/ UNCHANGED <<deliveries, issued>> /\ lost' = lost \cup {job[w].id}
        /\ job' = [job EXCEPT ![w] = NoJob]
        /\ result' = [result EXCEPT ![w] = NoResult]
        /\ phase' = phase
    BY <1>5 DEF SaveResult, tables, process
  <2> QED BY <2>1, <2>2, <2>3, SaveClaims
<1> QED BY <1>1, <1>2, <1>3, <1>4, <1>5 DEF WorkerStep

LEMMA AnswerClaims ==
    ASSUME TypeOK, ClaimInv, NEW w \in Workers, NEW answer \in Answers, Answer(w, answer)
    PROVE  ClaimInv'
<1>1. UNCHANGED <<job, lost, phase, issued, deliveries>>
  BY DEF Answer, tables, process
<1>2. job[w] \in Jobs /\ job[w].snapshot \in RetryConfigs
  BY DEF Answer, TypeOK, PoolTypes, Jobs
<1>3. /\ Decision(job[w], answer).status \in {"pending"} \cup Final
      /\ Decision(job[w], answer).next = Never <=> Decision(job[w], answer).status \in Final
  <2>1. backoff(job[w].snapshot, job[w].attempts + 1) \in Int
    BY <1>2, BackoffType DEF Jobs
  <2>2. now \in Nat
    BY DEF TypeOK, ProcessTypes
  <2> QED BY <2>1, <2>2, QueueAssumption DEF Decision, Final, FailureStatus
<1>4. ResultIsDecided'
  BY <1>3 DEF Answer, ClaimInv, ResultIsDecided, TypeOK, PoolTypes
<1> QED BY <1>1, <1>4
        DEF ClaimInv, ExclusiveClaim, HeldIsCurrent, LostIsInProgress,
            UnfinishedIsScheduled, InProgressIsHeld

LEMMA LifecycleClaims ==
    ASSUME TypeOK, ClaimInv, Lifecycle
    PROVE  ClaimInv'
<1>1. CASE StopQueue \/ GraceExpires \/ Tick
  BY <1>1, QuietClaims DEF StopQueue, GraceExpires, Tick, tables, process, pool, history
<1>2. CASE Exit
  <2>1. UNCHANGED <<job, result, lost, issued, deliveries>> /\ phase = "running" /\ phase' = "stopped"
    BY <1>2 DEF Exit, tables, pool, history
  <2> QED BY <2>1
          DEF ClaimInv, ExclusiveClaim, HeldIsCurrent, LostIsInProgress, ResultIsDecided,
              UnfinishedIsScheduled, InProgressIsHeld
<1>3. CASE Crash
  <2>1. UNCHANGED <<lost, issued, deliveries>> /\ phase' = "crashed"
    BY <1>3 DEF Crash, tables, history
  <2>2. \A w \in Workers : job'[w] = NoJob /\ result'[w] = NoResult
    BY <1>3 DEF Crash
  <2> QED BY <2>1, <2>2
          DEF ClaimInv, ExclusiveClaim, HeldIsCurrent, LostIsInProgress, ResultIsDecided,
              UnfinishedIsScheduled, InProgressIsHeld
<1>4. CASE StartQueue
  <2>1. \A w \in Workers : job'[w] = NoJob /\ result'[w] = NoResult
    BY <1>4 DEF StartQueue, TypeOK, PoolTypes
  <2>2. deliveries' = RecoveredRows /\ DOMAIN deliveries' = DOMAIN deliveries /\ lost' = {}
    BY <1>4 DEF StartQueue, RecoveredRows
  <2>3. \A d \in DOMAIN deliveries :
          /\ deliveries'[d].status # "in_progress"
          /\ deliveries'[d].snapshot = deliveries[d].snapshot
          /\ deliveries'[d].due = deliveries[d].due
          /\ deliveries'[d].status \in Unfinished => deliveries[d].status \in Unfinished
    BY <2>2 DEF RecoveredRows, TypeOK, TableTypes, Rows, Unfinished
  <2>4. UnfinishedIsScheduled'
    BY <2>2, <2>3 DEF ClaimInv, UnfinishedIsScheduled
  <2> QED BY <2>1, <2>2, <2>3, <2>4
          DEF ClaimInv, ExclusiveClaim, HeldIsCurrent, LostIsInProgress, ResultIsDecided,
              InProgressIsHeld
<1> QED BY <1>1, <1>2, <1>3, <1>4 DEF Lifecycle

LEMMA NextClaims == TypeOK /\ ClaimInv /\ [Next]_vars => ClaimInv'
<1> SUFFICES ASSUME TypeOK, ClaimInv, [Next]_vars PROVE ClaimInv'
  OBVIOUS
<1>1. CASE UNCHANGED vars
  BY <1>1, QuietClaims DEF vars, tables, process, pool, history
<1>2. CASE Next
  BY <1>2, EnvironmentClaims, WorkerClaims, AnswerClaims, LifecycleClaims DEF Next
<1> QED BY <1>1, <1>2

LEMMA ClaimsInvariant == Spec => []ClaimInv
BY TypeCorrect, InitClaims, NextClaims, PTL DEF Spec

\* No two workers ever hold the same row.
THEOREM ClaimsAreExclusive == Spec => []ExclusiveClaim
BY ClaimsInvariant, PTL DEF ClaimInv

\* A row is in progress only while a worker holds it or after a storage failure, so
\* that a clean shutdown leaves nothing in progress.
THEOREM NothingStranded == Spec => []InProgressIsHeld
BY ClaimsInvariant, PTL DEF ClaimInv

\* A delivery without a final result can always be sent again.
THEOREM AlwaysScheduled == Spec => []UnfinishedIsScheduled
BY ClaimsInvariant, PTL DEF ClaimInv

-----------------------------------------------------------------------------
(***************************************************************************)
(* What the tables say of an email: it is received exactly while work is   *)
(* unfinished, and its final status is the outcome of its latest batch.    *)
(***************************************************************************)

LEMMA InitStatus == Init => StatusInv
BY DEF Init, StatusInv, BatchesAreOwned, ReceivedUntilFinished, StatusTellsOutcome

\* Steps that tell a pending row from one in progress, but nothing else, are
\* invisible: claims, recovery and the steps that leave the tables alone.
LEMMA InvisibleStatus ==
    ASSUME TypeOK, StatusInv,
           UNCHANGED <<emails, lastBatch>>,
           DOMAIN deliveries' = DOMAIN deliveries,
           \A d \in DOMAIN deliveries :
              /\ deliveries'[d].email = deliveries[d].email
              /\ deliveries'[d].batch = deliveries[d].batch
              /\ deliveries'[d].status \in Unfinished <=> deliveries[d].status \in Unfinished
              /\ deliveries[d].status \notin Unfinished => deliveries'[d].status = deliveries[d].status
    PROVE  StatusInv'
<1>1. BatchesAreOwned'
  BY DEF StatusInv, BatchesAreOwned
<1>2. ReceivedUntilFinished'
  BY DEF StatusInv, ReceivedUntilFinished
<1>3. StatusTellsOutcome'
  <2> SUFFICES ASSUME NEW e \in DOMAIN emails PROVE TellsOutcome(e)'
    BY DEF StatusTellsOutcome
  <2>1. LatestBatch(e)' = LatestBatch(e)
    BY DEF LatestBatch
  <2>2. UnfinishedOf(deliveries', e) = UnfinishedOf(deliveries, e)
    BY DEF UnfinishedOf
  <2>3. \A d \in DOMAIN deliveries : Succeeded(d)' <=> Succeeded(d)
    BY DEF Succeeded, Unfinished
  <2>4. LatestBatch(e) \subseteq DOMAIN deliveries
    BY DEF LatestBatch
  <2> QED BY <2>1, <2>2, <2>3, <2>4 DEF StatusInv, StatusTellsOutcome, TellsOutcome
<1> QED BY <1>1, <1>2, <1>3 DEF StatusInv

\* When the rows of an email and its entry stay as they are, so does what its status
\* says; rows of other emails may change.
LEMMA SameEmailTells ==
    ASSUME StatusInv, BatchesAreOwned',
           NEW e \in DOMAIN emails, e \in DOMAIN emails',
           emails'[e] = emails[e],
           \A d : (d \in DOMAIN deliveries /\ deliveries[d].email = e) <=>
                  (d \in DOMAIN deliveries' /\ deliveries'[d].email = e),
           \A d \in DOMAIN deliveries : deliveries[d].email = e => deliveries'[d] = deliveries[d]
    PROVE  TellsOutcome(e)'
<1>1. CASE emails[e].batch = NoBatch
  <2>1. LatestBatch(e) = {} /\ LatestBatch(e)' = {}
    BY <1>1 DEF StatusInv, BatchesAreOwned, LatestBatch, NoBatch
  <2>2. UnfinishedOf(deliveries', e) = UnfinishedOf(deliveries, e)
    BY DEF UnfinishedOf
  <2> QED BY <1>1, <2>1, <2>2 DEF StatusInv, StatusTellsOutcome, TellsOutcome
<1>2. CASE emails[e].batch # NoBatch
  <2>1. \A d \in LatestBatch(e) : deliveries[d].email = e
    BY <1>2 DEF StatusInv, BatchesAreOwned, LatestBatch
  <2>2. \A d \in LatestBatch(e)' : deliveries'[d].email = e
    BY <1>2 DEF BatchesAreOwned, LatestBatch
  <2>3. LatestBatch(e)' = LatestBatch(e)
    BY <2>1, <2>2 DEF LatestBatch
  <2>4. UnfinishedOf(deliveries', e) = UnfinishedOf(deliveries, e)
    BY DEF UnfinishedOf
  <2>5. \A d \in LatestBatch(e) : Succeeded(d)' <=> Succeeded(d)
    BY <2>1 DEF Succeeded, LatestBatch
  <2> QED BY <1>2, <2>3, <2>4, <2>5 DEF StatusInv, StatusTellsOutcome, TellsOutcome
<1> QED BY <1>1, <1>2

\* A new email has no deliveries.
LEMMA InsertStatus ==
    ASSUME TypeOK, StatusInv, NEW e \in Emails, NEW s \in {"received", "rejected"},
           InsertEmail(e, s)
    PROVE  StatusInv'
<1>1. /\ e \notin DOMAIN emails
      /\ DOMAIN emails' = DOMAIN emails \cup {e}
      /\ emails'[e] = [status |-> s, batch |-> NoBatch]
      /\ \A x \in DOMAIN emails : emails'[x] = emails[x]
      /\ UNCHANGED <<deliveries, lastBatch>>
  BY DEF InsertEmail, TypeOK, TableTypes
<1>2. BatchesAreOwned'
  BY <1>1 DEF StatusInv, BatchesAreOwned, NoBatch, TypeOK, TableTypes
<1>3. ReceivedUntilFinished'
  BY <1>1 DEF StatusInv, ReceivedUntilFinished
<1>4. \A x \in DOMAIN emails : TellsOutcome(x)'
  BY <1>1, <1>2, SameEmailTells
<1>5. TellsOutcome(e)'
  <2>1. UnfinishedOf(deliveries', e) = {}
    BY <1>1 DEF UnfinishedOf, StatusInv, BatchesAreOwned
  <2> QED BY <1>1, <2>1 DEF TellsOutcome
<1> QED BY <1>1, <1>2, <1>3, <1>4, <1>5 DEF StatusInv, StatusTellsOutcome

\* A dropped email has nothing unfinished.
LEMMA DropStatus ==
    ASSUME TypeOK, StatusInv, NEW e \in Emails, DropEmail(e)
    PROVE  StatusInv'
<1>1. CASE UNCHANGED emails
  BY <1>1, InvisibleStatus DEF DropEmail
<1>2. CASE e \in DOMAIN emails /\ UnfinishedOf(deliveries, e) = {}
  <2>1. /\ DOMAIN emails' = DOMAIN emails
        /\ emails'[e].status = "dropped"
        /\ \A x \in DOMAIN emails : emails'[x].batch = emails[x].batch
        /\ \A x \in DOMAIN emails : x # e => emails'[x] = emails[x]
        /\ UNCHANGED <<deliveries, lastBatch>>
    BY <1>2 DEF DropEmail, TypeOK, TableTypes
  <2>2. BatchesAreOwned'
    BY <2>1 DEF StatusInv, BatchesAreOwned
  <2>3. ReceivedUntilFinished'
    BY <1>2, <2>1 DEF StatusInv, ReceivedUntilFinished, UnfinishedOf
  <2>4. \A x \in DOMAIN emails : x # e => TellsOutcome(x)'
    BY <2>1, <2>2, SameEmailTells
  <2>5. TellsOutcome(e)'
    BY <1>2, <2>1 DEF TellsOutcome
  <2> QED BY <2>1, <2>2, <2>3, <2>4, <2>5 DEF StatusInv, StatusTellsOutcome
<1> QED BY <1>1, <1>2 DEF DropEmail

\* Deleting emails takes exactly their deliveries along.
LEMMA DeleteStatus ==
    ASSUME TypeOK, StatusInv, NEW E \in SUBSET Emails, DeleteEmails(E)
    PROVE  StatusInv'
<1>1. /\ DOMAIN emails' = DOMAIN emails \ E
      /\ \A x \in DOMAIN emails' : emails'[x] = emails[x]
      /\ DOMAIN deliveries' = {d \in DOMAIN deliveries : deliveries[d].email \notin E}
      /\ \A d \in DOMAIN deliveries' : deliveries'[d] = deliveries[d]
      /\ UNCHANGED lastBatch
  BY DEF DeleteEmails
<1>2. BatchesAreOwned'
  BY <1>1 DEF StatusInv, BatchesAreOwned
<1>3. ReceivedUntilFinished'
  BY <1>1 DEF StatusInv, ReceivedUntilFinished
<1>4. ASSUME NEW x \in DOMAIN emails' PROVE TellsOutcome(x)'
  <2>1. x \in DOMAIN emails /\ x \notin E /\ emails'[x] = emails[x]
    BY <1>1
  <2>2. \A d : (d \in DOMAIN deliveries /\ deliveries[d].email = x) <=>
               (d \in DOMAIN deliveries' /\ deliveries'[d].email = x)
    BY <1>1, <2>1
  <2>3. \A d \in DOMAIN deliveries : deliveries[d].email = x => deliveries'[d] = deliveries[d]
    BY <1>1, <2>1
  <2> QED BY <1>2, <2>1, <2>2, <2>3, SameEmailTells
<1> QED BY <1>2, <1>3, <1>4 DEF StatusInv, StatusTellsOutcome

\* A new batch makes its email unfinished.
LEMMA EnqueueStatus ==
    ASSUME TypeOK, StatusInv, NEW e \in Emails, NEW D \in SUBSET Deliveries,
           NEW policy \in [D -> RetryConfigs], EnqueueDeliveries(e, D, policy)
    PROVE  StatusInv'
<1> DEFINE b == lastBatch + 1
<1>1. /\ DOMAIN emails' = DOMAIN emails
      /\ e \in DOMAIN emails
      /\ emails'[e].status = "received"
      /\ emails'[e].batch = b
      /\ \A x \in DOMAIN emails : x # e => emails'[x] = emails[x]
      /\ lastBatch' = b
      /\ lastBatch \in Nat
  BY DEF EnqueueDeliveries, TypeOK, TableTypes
<1>2. /\ DOMAIN deliveries' = DOMAIN deliveries \cup D
      /\ D \cap DOMAIN deliveries = {}
      /\ D # {}
      /\ \A d \in D :
           deliveries'[d].status = "pending" /\ deliveries'[d].email = e /\ deliveries'[d].batch = b
      /\ \A d \in DOMAIN deliveries : deliveries'[d] = deliveries[d]
  BY DEF EnqueueDeliveries, TypeOK, TableTypes
<1>3. \A d \in DOMAIN deliveries : deliveries[d].batch \in Nat /\ deliveries[d].batch < b
  BY <1>1 DEF StatusInv, BatchesAreOwned, TypeOK, TableTypes
<1> HIDE DEF b
<1>4. b \in Nat /\ b > lastBatch /\ b # NoBatch
  BY <1>1 DEF b, NoBatch
<1>5. BatchesAreOwned'
  <2>1. ASSUME NEW d \in DOMAIN deliveries'
        PROVE  /\ deliveries'[d].email \in DOMAIN emails'
               /\ deliveries'[d].batch \in 1..emails'[deliveries'[d].email].batch
    <3>1. CASE d \in D
      BY <3>1, <1>1, <1>2, <1>4 DEF NoBatch
    <3>2. CASE d \in DOMAIN deliveries
      BY <3>2, <1>1, <1>2, <1>3, <1>4 DEF StatusInv, BatchesAreOwned
    <3> QED BY <3>1, <3>2, <1>2
  <2>2. \A d, x \in DOMAIN deliveries' :
          deliveries'[d].batch = deliveries'[x].batch => deliveries'[d].email = deliveries'[x].email
    BY <1>2, <1>3, <1>4 DEF StatusInv, BatchesAreOwned
  <2>3. ASSUME NEW x \in DOMAIN emails'
        PROVE  /\ emails'[x].batch \in 0..lastBatch'
               /\ emails'[x].batch # NoBatch =>
                    \E d \in DOMAIN deliveries' :
                       deliveries'[d].batch = emails'[x].batch /\ deliveries'[d].email = x
    <3>1. CASE x = e
      BY <3>1, <1>1, <1>2, <1>4
    <3>2. CASE x # e
      BY <3>2, <1>1, <1>2, <1>4 DEF StatusInv, BatchesAreOwned
    <3> QED BY <3>1, <3>2
  <2> QED BY <2>1, <2>2, <2>3 DEF BatchesAreOwned
<1>6. ReceivedUntilFinished'
  BY <1>1, <1>2 DEF StatusInv, ReceivedUntilFinished
<1>7. ASSUME NEW x \in DOMAIN emails, x # e PROVE TellsOutcome(x)'
  BY <1>1, <1>2, <1>5, <1>7, SameEmailTells
<1>8. TellsOutcome(e)'
  <2>1. UnfinishedOf(deliveries', e) # {}
    BY <1>2 DEF UnfinishedOf, Unfinished
  <2> QED BY <1>1, <2>1 DEF TellsOutcome
<1> QED BY <1>1, <1>5, <1>6, <1>7, <1>8 DEF StatusInv, StatusTellsOutcome

\* The verdict that FinishDelivery computes is true of the latest batch.
LEMMA VerdictTells ==
    ASSUME TypeOK', BatchesAreOwned', NEW e \in DOMAIN emails', emails'[e].batch # NoBatch,
           UnfinishedOf(deliveries', e) = {},
           emails'[e].status = BatchStatus(deliveries', e, emails'[e].batch)
    PROVE  TellsOutcome(e)'
<1>1. LatestBatch(e)' =
        {d \in DOMAIN deliveries' : deliveries'[d].email = e /\ deliveries'[d].batch = emails'[e].batch}
  BY DEF BatchesAreOwned, LatestBatch
<1>2. LatestBatch(e)' # {}
  BY <1>1 DEF BatchesAreOwned
<1> DEFINE won == {d \in LatestBatch(e)' : deliveries'[d].status = "success"}
<1>3. emails'[e].status = IF won = LatestBatch(e)' THEN "delivered"
                          ELSE IF won # {} THEN "partial_failure" ELSE "failed"
  BY <1>1 DEF BatchStatus
<1>4. CASE won = LatestBatch(e)'
  BY <1>2, <1>3, <1>4 DEF TellsOutcome, Succeeded
<1>5. CASE won # LatestBatch(e)' /\ won # {}
  <2>1. PICK d \in won : TRUE
    BY <1>5
  <2>2. PICK x \in LatestBatch(e)' : x \notin won
    BY <1>5
  <2>3. Succeeded(d)' /\ ~Succeeded(x)' /\ d \in LatestBatch(e)'
    BY <2>1, <2>2 DEF Succeeded
  <2>4. emails'[e].status = "partial_failure"
    BY <1>3, <1>5
  <2> QED BY <2>2, <2>3, <2>4 DEF TellsOutcome
<1>6. CASE won # LatestBatch(e)' /\ won = {}
  BY <1>2, <1>3, <1>6 DEF TellsOutcome, Succeeded
<1> QED BY <1>4, <1>5, <1>6

\* A worker saves the result of a row it holds.
LEMMA FinishStatus ==
    ASSUME TypeOK, ClaimInv, StatusInv, HeldHasEmail, TypeOK',
           NEW w \in Workers, job[w] # NoJob, NEW r \in Results, r.status \in {"pending"} \cup Final,
           FinishDelivery(job[w], r)
    PROVE  StatusInv'
<1>0. PICK d, e : d = job[w].id /\ e = job[w].email
  OBVIOUS
<1>1. job[w] \in Jobs
  BY DEF TypeOK, PoolTypes
<1>2. CASE e \notin DOMAIN emails
  <2>1. d \notin DOMAIN deliveries
    BY <1>0, <1>2 DEF ClaimInv, HeldIsCurrent, StatusInv, BatchesAreOwned
  <2>2. deliveries' = deliveries /\ UNCHANGED <<emails, lastBatch>>
    BY <1>0, <1>2, <2>1 DEF FinishDelivery, SavedRows
  <2> QED BY <2>2, InvisibleStatus
<1>3. CASE e \in DOMAIN emails
  <2>1. d \in DOMAIN deliveries /\ deliveries[d].email = e /\ deliveries[d].status = "in_progress"
    BY <1>0, <1>3 DEF HeldHasEmail, ClaimInv, HeldIsCurrent
  <2>2. /\ DOMAIN deliveries' = DOMAIN deliveries
        /\ lastBatch' = lastBatch
        /\ \A x \in DOMAIN deliveries : x # d => deliveries'[x] = deliveries[x]
        /\ deliveries'[d].status = r.status
        /\ deliveries'[d].email = e
        /\ deliveries'[d].batch = deliveries[d].batch
    BY <1>0, <1>1, <2>1, FinishRows
  <2>3. emails' = IF UnfinishedOf(deliveries', e) = {}
                  THEN [emails EXCEPT ![e].status = BatchStatus(deliveries', e, emails[e].batch)]
                  ELSE emails
    BY <1>0, <1>3 DEF FinishDelivery
  <2>4. emails[e].status = "received" /\ emails[e].batch # NoBatch
    <3>1. emails[e].status = "received"
      BY <2>1 DEF StatusInv, ReceivedUntilFinished, Unfinished
    <3>2. deliveries[d].batch \in 1..emails[e].batch
      BY <2>1 DEF StatusInv, BatchesAreOwned
    <3>3. emails[e].batch # NoBatch
      BY <3>2 DEF NoBatch
    <3> QED BY <3>1, <3>3
  <2>5. /\ DOMAIN emails' = DOMAIN emails
        /\ \A x \in DOMAIN emails : emails'[x].batch = emails[x].batch
        /\ \A x \in DOMAIN emails : x # e => emails'[x] = emails[x]
    <3>1. \A x \in DOMAIN emails : emails[x] \in [status: EmailStatuses, batch: Nat]
      BY DEF TypeOK, TableTypes
    <3> QED BY <2>3, <3>1 DEF TypeOK, TableTypes
  <2>6. BatchesAreOwned'
    <3>1. \A x \in DOMAIN deliveries :
            deliveries'[x].email = deliveries[x].email /\ deliveries'[x].batch = deliveries[x].batch
      BY <2>1, <2>2
    <3> QED BY <2>2, <2>5, <3>1 DEF StatusInv, BatchesAreOwned
  <2>7. ASSUME NEW x \in DOMAIN emails, x # e PROVE TellsOutcome(x)'
    <3>1. \A y : (y \in DOMAIN deliveries /\ deliveries[y].email = x) <=>
                 (y \in DOMAIN deliveries' /\ deliveries'[y].email = x)
      BY <2>1, <2>2, <2>7
    <3>2. \A y \in DOMAIN deliveries : deliveries[y].email = x => deliveries'[y] = deliveries[y]
      BY <2>1, <2>2, <2>7
    <3>3. x \in DOMAIN emails' /\ emails'[x] = emails[x]
      BY <2>5, <2>7
    <3> QED BY <2>6, <3>1, <3>2, <3>3, SameEmailTells
  <2>8. CASE UnfinishedOf(deliveries', e) = {}
    <3>1. emails'[e].status = BatchStatus(deliveries', e, emails'[e].batch)
      BY <1>3, <2>3, <2>5, <2>8 DEF TypeOK, TableTypes
    <3>2. TellsOutcome(e)'
      BY <1>3, <2>4, <2>5, <2>6, <2>8, <3>1, VerdictTells
    <3>3. ReceivedUntilFinished'
      <4>1. ASSUME NEW x \in DOMAIN deliveries', deliveries'[x].status \in Unfinished
            PROVE  x \in DOMAIN deliveries /\ deliveries'[x] = deliveries[x] /\ deliveries[x].email # e
        BY <4>1, <2>2, <2>8 DEF UnfinishedOf
      <4> QED BY <4>1, <2>5 DEF StatusInv, ReceivedUntilFinished
    <3> QED BY <2>5, <2>6, <2>7, <3>2, <3>3 DEF StatusInv, StatusTellsOutcome
  <2>9. CASE UnfinishedOf(deliveries', e) # {}
    <3>1. emails' = emails
      BY <2>3, <2>9
    <3>2. ReceivedUntilFinished'
      <4>1. ASSUME NEW x \in DOMAIN deliveries', deliveries'[x].status \in Unfinished
            PROVE  /\ deliveries'[x].email \in DOMAIN emails'
                   /\ emails'[deliveries'[x].email].status = "received"
        <5>1. CASE x = d
          BY <5>1, <1>3, <2>2, <2>4, <3>1
        <5>2. CASE x # d
          BY <5>2, <4>1, <2>2, <3>1 DEF StatusInv, ReceivedUntilFinished
        <5> QED BY <5>1, <5>2
      <4> QED BY <4>1 DEF ReceivedUntilFinished
    <3>3. TellsOutcome(e)'
      BY <2>4, <2>9, <3>1 DEF TellsOutcome
    <3> QED BY <2>6, <2>7, <3>1, <3>2, <3>3 DEF StatusInv, StatusTellsOutcome
  <2> QED BY <2>8, <2>9
<1> QED BY <1>2, <1>3

\* A step that takes no new row, keeps emails out that were removed, and removes rows
\* only with their email.
LEMMA QuietHeld ==
    ASSUME TypeOK, ClaimInv, HeldHasEmail,
           \A w \in Workers : job'[w] = job[w] \/ job'[w] = NoJob,
           seen \subseteq seen',
           DOMAIN emails' \cap seen \subseteq DOMAIN emails,
           \A d \in DOMAIN deliveries :
              deliveries[d].email \in DOMAIN emails' => d \in DOMAIN deliveries'
    PROVE  HeldHasEmail'
<1> SUFFICES ASSUME NEW w \in Workers, job'[w] # NoJob
             PROVE  /\ job'[w].email \in seen'
                    /\ job'[w].email \in DOMAIN emails' => job'[w].id \in DOMAIN deliveries'
  BY DEF HeldHasEmail
<1>1. job'[w] = job[w] /\ job[w] # NoJob
  OBVIOUS
<1>2. /\ job[w].email \in seen
      /\ job[w].email \in DOMAIN emails => job[w].id \in DOMAIN deliveries
  BY <1>1 DEF HeldHasEmail
<1>3. job[w].id \in DOMAIN deliveries => deliveries[job[w].id].email = job[w].email
  BY <1>1 DEF ClaimInv, HeldIsCurrent
<1> QED BY <1>1, <1>2, <1>3

LEMMA EnvironmentStatus ==
    ASSUME TypeOK, ClaimInv, StatusInv, HeldHasEmail, Environment
    PROVE  StatusInv' /\ HeldHasEmail'
<1>1. ASSUME NEW e \in Emails, NEW s \in {"received", "rejected"}, SaveEmail(e, s)
      PROVE  StatusInv' /\ HeldHasEmail'
  <2>1. StatusInv'
    BY <1>1, InsertStatus DEF SaveEmail
  <2>2. HeldHasEmail'
    BY <1>1, QuietHeld DEF SaveEmail, InsertEmail, pool
  <2> QED BY <2>1, <2>2
<1>2. ASSUME NEW e \in Emails, NEW D \in SUBSET Deliveries, NEW policy \in [D -> RetryConfigs],
             HandlerEnqueue(e, D, policy) \/ Replay(e, D, policy)
      PROVE  StatusInv' /\ HeldHasEmail'
  <2>1. EnqueueDeliveries(e, D, policy) /\ job' = job
    BY <1>2 DEF HandlerEnqueue, Replay, pool
  <2>2. StatusInv'
    BY <2>1, EnqueueStatus
  <2>3. seen' = seen /\ DOMAIN emails' = DOMAIN emails /\ DOMAIN deliveries \subseteq DOMAIN deliveries'
    BY <2>1 DEF EnqueueDeliveries
  <2>4. HeldHasEmail'
    BY <2>1, <2>3, QuietHeld
  <2> QED BY <2>2, <2>4
<1>3. ASSUME NEW e \in Emails, HandlerDrop(e) \/ ReplayDrop(e)
      PROVE  StatusInv' /\ HeldHasEmail'
  <2>1. DropEmail(e) /\ job' = job
    BY <1>3 DEF HandlerDrop, ReplayDrop, pool
  <2>2. StatusInv'
    BY <2>1, DropStatus
  <2>3. DOMAIN emails' = DOMAIN emails /\ UNCHANGED <<seen, deliveries>>
    BY <2>1 DEF DropEmail
  <2> QED BY <2>1, <2>2, <2>3, QuietHeld
<1>4. ASSUME NEW e \in Emails, HandlerFails(e)
      PROVE  StatusInv' /\ HeldHasEmail'
  <2>1. UNCHANGED <<emails, deliveries, seen, lastBatch, job>>
    BY <1>4 DEF HandlerFails, tables, pool
  <2>2. StatusInv'
    BY <2>1, InvisibleStatus
  <2> QED BY <2>1, <2>2, QuietHeld
<1>5. ASSUME NEW E \in SUBSET Emails, DeleteByUser(E) \/ CleanupExpired(E)
      PROVE  StatusInv' /\ HeldHasEmail'
  <2>1. DeleteEmails(E) /\ job' = job
    BY <1>5 DEF DeleteByUser, CleanupExpired, pool
  <2>2. StatusInv'
    BY <2>1, DeleteStatus
  <2>3. /\ seen' = seen
        /\ DOMAIN emails' \subseteq DOMAIN emails
        /\ \A d \in DOMAIN deliveries :
             deliveries[d].email \in DOMAIN emails' => d \in DOMAIN deliveries'
    BY <2>1 DEF DeleteEmails
  <2> QED BY <2>1, <2>2, <2>3, QuietHeld
<1> QED BY <1>1, <1>2, <1>3, <1>4, <1>5 DEF Environment

LEMMA WorkerStatus ==
    ASSUME TypeOK, ClaimInv, StatusInv, HeldHasEmail, TypeOK', NEW w \in Workers, WorkerStep(w)
    PROVE  StatusInv' /\ HeldHasEmail'
<1>1. CASE CheckStop(w) \/ Wait(w) \/ ClaimNothing(w) \/ PrepareFails(w) \/ Send(w)
  <2>1. UNCHANGED <<emails, deliveries, seen, lastBatch, job>>
    BY <1>1 DEF CheckStop, Wait, ClaimNothing, PrepareFails, Send, tables
  <2>2. StatusInv'
    BY <2>1, InvisibleStatus
  <2> QED BY <2>1, <2>2, QuietHeld
<1>2. CASE ClaimDelivery(w)
  <2>1. PICK d \in Claimable :
          /\ deliveries' = [deliveries EXCEPT ![d].status = "in_progress"]
          /\ job' = [job EXCEPT ![w] =
                       [id |-> d, email |-> deliveries[d].email,
                        attempts |-> deliveries[d].attempts, snapshot |-> deliveries[d].snapshot]]
    BY <1>2 DEF ClaimDelivery
  <2>2. d \in DOMAIN deliveries /\ deliveries[d].status = "pending" /\ deliveries[d] \in Rows
    BY DEF Claimable, TypeOK, TableTypes
  <2>3. UNCHANGED <<emails, seen, lastBatch>>
    BY <1>2 DEF ClaimDelivery
  <2>4. DOMAIN deliveries' = DOMAIN deliveries
    BY <2>1
  <2>5. \A x \in DOMAIN deliveries :
          /\ deliveries'[x].email = deliveries[x].email
          /\ deliveries'[x].batch = deliveries[x].batch
          /\ deliveries'[x].status \in Unfinished <=> deliveries[x].status \in Unfinished
          /\ deliveries[x].status \notin Unfinished => deliveries'[x].status = deliveries[x].status
    BY <2>1, <2>2 DEF Unfinished, Rows
  <2>6. StatusInv'
    BY <2>3, <2>4, <2>5, InvisibleStatus
  <2>7. job'[w].id = d /\ job'[w].email = deliveries[d].email /\ \A v \in Workers : v # w => job'[v] = job[v]
    BY <2>1 DEF TypeOK, PoolTypes
  <2>8. deliveries[d].email \in seen
    BY <2>2 DEF StatusInv, BatchesAreOwned, TypeOK, TableTypes
  <2>9. HeldHasEmail'
    BY <2>2, <2>3, <2>4, <2>7, <2>8 DEF HeldHasEmail
  <2> QED BY <2>6, <2>9
<1>3. ASSUME NEW r \in Results, job[w] # NoJob, r.status \in {"pending"} \cup Final,
             FinishDelivery(job[w], r) \/ UNCHANGED tables,
             job' = [job EXCEPT ![w] = NoJob]
      PROVE  StatusInv' /\ HeldHasEmail'
  <2>1. CASE FinishDelivery(job[w], r)
    <3>1. StatusInv'
      BY <1>3, <2>1, FinishStatus
    <3>2. job[w] \in Jobs
      BY <1>3 DEF TypeOK, PoolTypes
    <3>3. DOMAIN deliveries' = DOMAIN deliveries /\ seen' = seen
      BY <2>1, <3>2, FinishRows
    <3>4. DOMAIN emails' = DOMAIN emails
      BY <2>1 DEF FinishDelivery
    <3>5. \A v \in Workers : job'[v] = job[v] \/ job'[v] = NoJob
      BY <1>3 DEF TypeOK, PoolTypes
    <3> QED BY <3>1, <3>3, <3>4, <3>5, QuietHeld
  <2>2. CASE UNCHANGED tables
    <3>1. UNCHANGED <<emails, deliveries, seen, lastBatch>>
      BY <2>2 DEF tables
    <3>2. \A v \in Workers : job'[v] = job[v] \/ job'[v] = NoJob
      BY <1>3 DEF TypeOK, PoolTypes
    <3>3. StatusInv'
      BY <3>1, InvisibleStatus
    <3> QED BY <3>1, <3>2, <3>3, QuietHeld
  <2> QED BY <1>3, <2>1, <2>2
<1>4. CASE Release(w)
  <2>1. Released(job[w]) \in Results /\ job[w] # NoJob /\ Released(job[w]).status = "pending"
    BY <1>4 DEF Release, Released, Results, Unfinished, TypeOK, PoolTypes, ProcessTypes, Jobs
  <2>2. /\ FinishDelivery(job[w], Released(job[w])) \/ UNCHANGED tables
        /\ job' = [job EXCEPT ![w] = NoJob]
    BY <1>4 DEF Release
  <2> QED BY <2>1, <2>2, <1>3
<1>5. CASE SaveResult(w)
  <2>1. result[w] \in Results /\ job[w] # NoJob /\ result[w].status \in {"pending"} \cup Final
    BY <1>5 DEF SaveResult, TypeOK, PoolTypes, ClaimInv, ResultIsDecided
  <2>2. /\ FinishDelivery(job[w], result[w]) \/ UNCHANGED tables
        /\ job' = [job EXCEPT ![w] = NoJob]
    BY <1>5 DEF SaveResult
  <2> QED BY <2>1, <2>2, <1>3
<1> QED BY <1>1, <1>2, <1>4, <1>5 DEF WorkerStep

LEMMA LifecycleStatus ==
    ASSUME TypeOK, ClaimInv, StatusInv, HeldHasEmail, Lifecycle
    PROVE  StatusInv' /\ HeldHasEmail'
<1>1. CASE StopQueue \/ GraceExpires \/ Exit \/ Tick \/ Crash
  <2>1. UNCHANGED <<emails, deliveries, seen, lastBatch>>
    BY <1>1 DEF StopQueue, GraceExpires, Exit, Tick, Crash, tables
  <2>2. \A w \in Workers : job'[w] = job[w] \/ job'[w] = NoJob
    BY <1>1 DEF StopQueue, GraceExpires, Exit, Tick, Crash, pool
  <2>3. StatusInv'
    BY <2>1, InvisibleStatus
  <2> QED BY <2>1, <2>2, <2>3, QuietHeld
<1>2. CASE StartQueue
  <2>1. UNCHANGED <<emails, seen, lastBatch, job>> /\ deliveries' = RecoveredRows
    BY <1>2 DEF StartQueue
  <2>2. DOMAIN deliveries' = DOMAIN deliveries
    BY <2>1 DEF RecoveredRows
  <2>3. \A d \in DOMAIN deliveries :
          /\ deliveries'[d].email = deliveries[d].email
          /\ deliveries'[d].batch = deliveries[d].batch
          /\ deliveries'[d].status \in Unfinished <=> deliveries[d].status \in Unfinished
          /\ deliveries[d].status \notin Unfinished => deliveries'[d].status = deliveries[d].status
    BY <2>1 DEF RecoveredRows, TypeOK, TableTypes, Rows, Unfinished
  <2>4. StatusInv'
    BY <2>1, <2>2, <2>3, InvisibleStatus
  <2> QED BY <2>1, <2>2, <2>4, QuietHeld
<1> QED BY <1>1, <1>2 DEF Lifecycle

LEMMA NextStatus ==
    TypeOK /\ ClaimInv /\ StatusInv /\ HeldHasEmail /\ [Next]_vars => StatusInv' /\ HeldHasEmail'
<1> SUFFICES ASSUME TypeOK, ClaimInv, StatusInv, HeldHasEmail, [Next]_vars
             PROVE  StatusInv' /\ HeldHasEmail'
  OBVIOUS
<1>1. CASE UNCHANGED vars \/ \E w \in Workers, answer \in Answers : Answer(w, answer)
  <2>1. UNCHANGED <<emails, deliveries, seen, lastBatch, job>>
    BY <1>1 DEF vars, Answer, tables, pool
  <2>2. StatusInv'
    BY <2>1, InvisibleStatus
  <2> QED BY <2>1, <2>2, QuietHeld
<1>2. CASE Next /\ ~\E w \in Workers, answer \in Answers : Answer(w, answer)
  <2>1. TypeOK'
    BY NextTypes
  <2> QED BY <1>2, <2>1, EnvironmentStatus, WorkerStatus, LifecycleStatus DEF Next
<1> QED BY <1>1, <1>2

LEMMA InitHeld == Init => HeldHasEmail
BY DEF Init, HeldHasEmail

LEMMA StatusInvariant == Spec => [](StatusInv /\ HeldHasEmail)
BY TypeCorrect, ClaimsInvariant, InitStatus, InitHeld, NextStatus, PTL DEF Spec

\* An email stays received until all its queued deliveries finish, for any number of
\* overlapping batches, workers, crashes and storage failures.
THEOREM StaysReceived == Spec => []ReceivedUntilFinished
BY StatusInvariant, PTL DEF StatusInv

\* The status shown for an email is the truth about its latest batch.
THEOREM StatusIsTrue == Spec => []StatusTellsOutcome
BY StatusInvariant, PTL DEF StatusInv

-----------------------------------------------------------------------------
(***************************************************************************)
(* What a receiver sees: how many requests a delivery may cost, when it is *)
(* given up, and that a finished delivery is left alone.                   *)
(***************************************************************************)

LEMMA PolicyTypes ==
    ASSUME NEW c \in RetryConfigs
    PROVE  c.maxRetries \in Nat /\ c.retryOnTimeout \in BOOLEAN /\ c # NoSnapshot
BY QueueAssumption DEF RetryPolicies

LEMMA SlackTypes ==
    ASSUME ProcessTypes
    PROVE  Slack \in Nat /\ restarts \in Nat /\ restarts <= Slack /\ Slack <= restarts + 1
BY DEF ProcessTypes, Slack

LEMMA SlackTypesPrimed ==
    ASSUME ProcessTypes'
    PROVE  Slack' \in Nat /\ restarts' \in Nat /\ restarts' <= Slack' /\ Slack' <= restarts' + 1
<1>1. restarts' \in Nat
  BY DEF ProcessTypes
<1>2. Slack' = restarts' + 1 \/ Slack' = restarts' + 0
  BY DEF Slack
<1> QED BY <1>1, <1>2

LEMMA HistoryTypes ==
    ASSUME TypeOK, NEW d \in Deliveries
    PROVE  sends[d] \in Nat /\ refusals[d] \in Nat
BY DEF TypeOK, ProcessTypes

LEMMA InitSends == Init => SendInv
BY DEF Init, SendInv, RowsAccount, JobsAccount, ResultsAccount

\* Rows that stay as they are, and new ones, stay accounted for while nothing is sent.
LEMMA QuietRows ==
    ASSUME TypeOK, TypeOK', SendInv,
           UNCHANGED <<sends, refusals>>,
           restarts <= restarts', Slack <= Slack',
           NEW d \in DOMAIN deliveries', deliveries'[d].status \in Unfinished,
           \/ d \in DOMAIN deliveries /\ deliveries'[d] = deliveries[d]
           \/ /\ d \notin issued
              /\ deliveries'[d].attempts = 0
              /\ deliveries'[d].snapshot \in RetryConfigs
    PROVE  /\ deliveries'[d].attempts <= deliveries'[d].snapshot.maxRetries
           /\ deliveries'[d].attempts <= refusals'[d]
           /\ deliveries'[d].status = "pending" => sends'[d] <= deliveries'[d].attempts + Slack'
           /\ sends'[d] <= deliveries'[d].attempts + restarts' + 1
<1>1. /\ Slack \in Nat /\ restarts \in Nat /\ restarts <= Slack
      /\ Slack' \in Nat /\ restarts' \in Nat /\ restarts' <= Slack'
  BY SlackTypes, SlackTypesPrimed DEF TypeOK
<1>2. d \in Deliveries /\ deliveries'[d].attempts \in Nat
  BY DEF TypeOK, TableTypes, Rows
<1>3. sends[d] \in Nat /\ refusals[d] \in Nat
  BY <1>2, HistoryTypes
<1>4. CASE d \in DOMAIN deliveries /\ deliveries'[d] = deliveries[d]
  BY <1>1, <1>2, <1>3, <1>4 DEF SendInv, RowsAccount
<1>5. CASE /\ d \notin issued
           /\ deliveries'[d].attempts = 0
           /\ deliveries'[d].snapshot \in RetryConfigs
  BY <1>1, <1>2, <1>3, <1>5, PolicyTypes DEF SendInv
<1> QED BY <1>4, <1>5

\* Workers that keep or put down what they hold stay accounted for.
LEMMA QuietJobs ==
    ASSUME TypeOK, TypeOK', SendInv,
           UNCHANGED <<sends, refusals>>,
           restarts <= restarts', Slack <= Slack',
           NEW w \in Workers,
           job'[w] = job[w] \/ job'[w] = NoJob,
           job'[w] # NoJob /\ pc'[w] = "claimed" => pc[w] = "claimed"
    PROVE  job'[w] # NoJob =>
             /\ job'[w].snapshot \in RetryConfigs
             /\ job'[w].attempts <= job'[w].snapshot.maxRetries
             /\ job'[w].attempts <= refusals'[job'[w].id]
             /\ pc'[w] = "claimed" => sends'[job'[w].id] <= job'[w].attempts + Slack'
             /\ sends'[job'[w].id] <= job'[w].attempts + restarts' + 1
<1> SUFFICES ASSUME job'[w] # NoJob
             PROVE  /\ job'[w].snapshot \in RetryConfigs
                    /\ job'[w].attempts <= job'[w].snapshot.maxRetries
                    /\ job'[w].attempts <= refusals'[job'[w].id]
                    /\ pc'[w] = "claimed" => sends'[job'[w].id] <= job'[w].attempts + Slack'
                    /\ sends'[job'[w].id] <= job'[w].attempts + restarts' + 1
  OBVIOUS
<1>1. /\ Slack \in Nat /\ restarts \in Nat /\ restarts <= Slack
      /\ Slack' \in Nat /\ restarts' \in Nat /\ restarts' <= Slack'
  BY SlackTypes, SlackTypesPrimed DEF TypeOK
<1>2. job'[w] = job[w] /\ job[w] \in Jobs
  BY DEF TypeOK, PoolTypes
<1>3. job[w].id \in Deliveries /\ job[w].attempts \in Nat /\ sends[job[w].id] \in Nat
  BY <1>2, HistoryTypes DEF Jobs
<1> QED BY <1>1, <1>2, <1>3 DEF SendInv, JobsAccount

\* Results that are kept or put down stay accounted for.
LEMMA QuietResults ==
    ASSUME TypeOK, TypeOK', SendInv,
           UNCHANGED <<sends, refusals>>, Slack <= Slack',
           NEW w \in Workers,
           result'[w] = result[w] \/ result'[w] = NoResult,
           result'[w] # NoResult => job'[w] = job[w]
    PROVE  result'[w] # NoResult =>
             /\ result'[w].status = "pending" =>
                  /\ result'[w].attempts <= job'[w].snapshot.maxRetries
                  /\ result'[w].attempts <= refusals'[job'[w].id]
                  /\ sends'[job'[w].id] <= result'[w].attempts + Slack'
             /\ result'[w].status = "failed" =>
                  \/ refusals'[job'[w].id] > job'[w].snapshot.maxRetries
                  \/ refusals'[job'[w].id] > 0 /\ ~job'[w].snapshot.retryOnTimeout
<1> SUFFICES ASSUME result'[w] # NoResult
             PROVE  /\ result'[w].status = "pending" =>
                         /\ result'[w].attempts <= job'[w].snapshot.maxRetries
                         /\ result'[w].attempts <= refusals'[job'[w].id]
                         /\ sends'[job'[w].id] <= result'[w].attempts + Slack'
                    /\ result'[w].status = "failed" =>
                         \/ refusals'[job'[w].id] > job'[w].snapshot.maxRetries
                         \/ refusals'[job'[w].id] > 0 /\ ~job'[w].snapshot.retryOnTimeout
  OBVIOUS
<1>1. Slack \in Nat /\ Slack' \in Nat
  BY SlackTypes, SlackTypesPrimed DEF TypeOK
<1>2. result'[w] = result[w] /\ job'[w] = job[w] /\ job[w] \in Jobs /\ result[w] \in Results
  BY DEF TypeOK, PoolTypes
<1>3. job[w].id \in Deliveries /\ result[w].attempts \in Nat /\ sends[job[w].id] \in Nat
  BY <1>2, HistoryTypes DEF Jobs, Results
<1> QED BY <1>1, <1>2, <1>3 DEF SendInv, ResultsAccount

\* Steps that send nothing, claim nothing, decide nothing and save nothing.
LEMMA QuietSends ==
    ASSUME TypeOK, TypeOK', SendInv,
           UNCHANGED <<sends, refusals>>,
           issued \subseteq issued',
           restarts <= restarts', Slack <= Slack',
           cancelled' => stop',
           \A w \in Workers :
              /\ job'[w] = job[w] \/ job'[w] = NoJob
              /\ result'[w] = result[w] \/ result'[w] = NoResult
              /\ job'[w] # NoJob /\ pc'[w] = "claimed" => pc[w] = "claimed"
              /\ result'[w] # NoResult => job'[w] = job[w],
           \A d \in DOMAIN deliveries' :
              \/ d \in DOMAIN deliveries /\ deliveries'[d] = deliveries[d]
              \/ /\ d \notin issued
                 /\ deliveries'[d].attempts = 0
                 /\ deliveries'[d].snapshot \in RetryConfigs
    PROVE  SendInv'
<1>1. RowsAccount'
  BY QuietRows DEF RowsAccount
<1>2. JobsAccount'
  BY QuietJobs DEF JobsAccount
<1>3. ResultsAccount'
  BY QuietResults DEF ResultsAccount
<1>4. \A d \in Deliveries \ issued' : sends'[d] = 0
  BY DEF SendInv
<1> QED BY <1>1, <1>2, <1>3, <1>4 DEF SendInv

LEMMA EnvironmentSends ==
    ASSUME TypeOK, TypeOK', SendInv, Environment
    PROVE  SendInv'
<1>0. Environment => UNCHANGED <<stop, cancelled, phase, restarts, sends, refusals, pc, job, result>>
  BY DEF Environment, SaveEmail, HandlerEnqueue, Replay, HandlerDrop, HandlerFails, ReplayDrop,
         DeleteByUser, CleanupExpired, process, pool, history
<1>1. /\ UNCHANGED <<sends, refusals>> /\ restarts <= restarts' /\ Slack <= Slack'
      /\ cancelled' => stop'
  <2>1. Slack' = Slack /\ restarts' = restarts
    BY <1>0 DEF Slack
  <2>2. Slack \in Nat /\ restarts \in Nat
    BY SlackTypes DEF TypeOK
  <2>3. cancelled' => stop'
    BY <1>0 DEF SendInv
  <2> QED BY <1>0, <2>1, <2>2, <2>3
<1>2. \A w \in Workers :
        /\ job'[w] = job[w] \/ job'[w] = NoJob
        /\ result'[w] = result[w] \/ result'[w] = NoResult
        /\ job'[w] # NoJob /\ pc'[w] = "claimed" => pc[w] = "claimed"
        /\ result'[w] # NoResult => job'[w] = job[w]
  BY <1>0
<1>3. ASSUME issued \subseteq issued',
             \A d \in DOMAIN deliveries' :
                \/ d \in DOMAIN deliveries /\ deliveries'[d] = deliveries[d]
                \/ /\ d \notin issued
                   /\ deliveries'[d].attempts = 0
                   /\ deliveries'[d].snapshot \in RetryConfigs
      PROVE  SendInv'
  BY <1>1, <1>2, <1>3, QuietSends
<1>4. ASSUME NEW e \in Emails, NEW s \in {"received", "rejected"}, SaveEmail(e, s)
      PROVE  SendInv'
  BY <1>3, <1>4 DEF SaveEmail, InsertEmail
<1>5. ASSUME NEW e \in Emails, NEW D \in SUBSET Deliveries, NEW policy \in [D -> RetryConfigs],
             HandlerEnqueue(e, D, policy) \/ Replay(e, D, policy)
      PROVE  SendInv'
  <2>1. EnqueueDeliveries(e, D, policy)
    BY <1>5 DEF HandlerEnqueue, Replay
  <2> QED BY <1>3, <2>1, EnqueueRows
<1>6. ASSUME NEW e \in Emails, HandlerDrop(e) \/ HandlerFails(e) \/ ReplayDrop(e)
      PROVE  SendInv'
  BY <1>3, <1>6 DEF HandlerDrop, HandlerFails, ReplayDrop, DropEmail, tables
<1>7. ASSUME NEW E \in SUBSET Emails, DeleteByUser(E) \/ CleanupExpired(E)
      PROVE  SendInv'
  BY <1>3, <1>7 DEF DeleteByUser, CleanupExpired, DeleteEmails
<1> QED BY <1>4, <1>5, <1>6, <1>7 DEF Environment

\* A claim copies a row that nobody is sending.
LEMMA ClaimSends ==
    ASSUME TypeOK, TypeOK', ClaimInv, SendInv, NEW w \in Workers, ClaimDelivery(w)
    PROVE  SendInv'
<1>1. PICK d \in Claimable :
        /\ deliveries' = [deliveries EXCEPT ![d].status = "in_progress"]
        /\ job' = [job EXCEPT ![w] =
                     [id |-> d, email |-> deliveries[d].email,
                      attempts |-> deliveries[d].attempts, snapshot |-> deliveries[d].snapshot]]
  BY DEF ClaimDelivery
<1>2. d \in DOMAIN deliveries /\ deliveries[d].status = "pending" /\ deliveries[d] \in Rows
  BY DEF Claimable, TypeOK, TableTypes
<1>3. /\ UNCHANGED <<issued, restarts, cancelled, stop, phase, sends, refusals, result>>
      /\ Slack' = Slack
  BY DEF ClaimDelivery, process, history, Slack
<1>4. /\ Slack \in Nat /\ restarts \in Nat /\ Slack <= restarts + 1
  BY SlackTypes DEF TypeOK
<1>5. /\ deliveries[d].attempts <= deliveries[d].snapshot.maxRetries
      /\ deliveries[d].attempts <= refusals[d]
      /\ sends[d] <= deliveries[d].attempts + Slack
      /\ sends[d] <= deliveries[d].attempts + restarts + 1
      /\ deliveries[d].snapshot \in RetryConfigs
  BY <1>2 DEF SendInv, RowsAccount, Unfinished, ClaimInv, UnfinishedIsScheduled, Rows
<1>6. RowsAccount'
  <2> SUFFICES ASSUME NEW x \in DOMAIN deliveries', deliveries'[x].status \in Unfinished
               PROVE  /\ deliveries'[x].attempts <= deliveries'[x].snapshot.maxRetries
                      /\ deliveries'[x].attempts <= refusals'[x]
                      /\ deliveries'[x].status = "pending" => sends'[x] <= deliveries'[x].attempts + Slack'
                      /\ sends'[x] <= deliveries'[x].attempts + restarts' + 1
    BY DEF RowsAccount
  <2>1. CASE x = d
    <3>1. /\ deliveries'[x].status = "in_progress"
          /\ deliveries'[x].attempts = deliveries[d].attempts
          /\ deliveries'[x].snapshot = deliveries[d].snapshot
      BY <1>1, <1>2, <2>1 DEF Rows
    <3> QED BY <1>3, <1>5, <2>1, <3>1
  <2>2. CASE x # d
    <3>1. x \in DOMAIN deliveries /\ deliveries'[x] = deliveries[x]
      BY <1>1, <2>2
    <3> QED BY <1>3, <3>1 DEF SendInv, RowsAccount
  <2> QED BY <2>1, <2>2
<1>7. JobsAccount'
  <2> SUFFICES ASSUME NEW v \in Workers, job'[v] # NoJob
               PROVE  /\ job'[v].snapshot \in RetryConfigs
                      /\ job'[v].attempts <= job'[v].snapshot.maxRetries
                      /\ job'[v].attempts <= refusals'[job'[v].id]
                      /\ pc'[v] = "claimed" => sends'[job'[v].id] <= job'[v].attempts + Slack'
                      /\ sends'[job'[v].id] <= job'[v].attempts + restarts' + 1
    BY DEF JobsAccount
  <2>1. CASE v = w
    <3>1. /\ job'[v].id = d
          /\ job'[v].attempts = deliveries[d].attempts
          /\ job'[v].snapshot = deliveries[d].snapshot
      BY <1>1, <2>1 DEF TypeOK, PoolTypes
    <3> QED BY <1>3, <1>5, <3>1
  <2>2. CASE v # w
    <3>1. job'[v] = job[v] /\ pc'[v] = pc[v]
      BY <1>1, <2>2 DEF ClaimDelivery, TypeOK, PoolTypes
    <3> QED BY <1>3, <3>1 DEF SendInv, JobsAccount
  <2> QED BY <2>1, <2>2
<1>8. ResultsAccount'
  <2>1. \A v \in Workers : result[v] # NoResult => job'[v] = job[v]
    BY <1>1 DEF ClaimDelivery, TypeOK, PoolTypes
  <2> QED BY <1>3, <2>1 DEF SendInv, ResultsAccount
<1> QED BY <1>3, <1>6, <1>7, <1>8 DEF SendInv

\* A worker lets go of its row: what it saves accounts for the requests it sent.
LEMMA SaveSends ==
    ASSUME TypeOK, TypeOK', ClaimInv, SendInv, NEW w \in Workers, NEW r \in Results,
           job[w] # NoJob,
           r.status \in {"pending"} \cup Final,
           r.next = Never <=> r.status \in Final,
           r.status = "pending" =>
              /\ r.attempts <= job[w].snapshot.maxRetries
              /\ r.attempts <= refusals[job[w].id]
              /\ sends[job[w].id] <= r.attempts + Slack,
           FinishDelivery(job[w], r) \/ UNCHANGED <<deliveries, issued>>,
           job' = [job EXCEPT ![w] = NoJob],
           result' = result \/ result' = [result EXCEPT ![w] = NoResult],
           NEW place, pc' = [pc EXCEPT ![w] = place],
           UNCHANGED <<sends, refusals, restarts, cancelled, stop, phase>>
    PROVE  SendInv'
<1>1. Slack' = Slack
  BY DEF Slack
<1>2. Slack \in Nat /\ restarts \in Nat /\ Slack <= restarts + 1
  BY SlackTypes DEF TypeOK
<1>3. /\ restarts <= restarts' /\ Slack <= Slack'
      /\ cancelled' => stop'
  <2>1. cancelled' => stop'
    BY DEF SendInv
  <2> QED BY <1>1, <1>2, <2>1
<1>4. \A v \in Workers :
        /\ job'[v] = job[v] \/ job'[v] = NoJob
        /\ result'[v] = result[v] \/ result'[v] = NoResult
        /\ job'[v] # NoJob /\ pc'[v] = "claimed" => pc[v] = "claimed"
        /\ result'[v] # NoResult => job'[v] = job[v]
  <2>1. job'[w] = NoJob /\ result'[w] = NoResult
    BY DEF TypeOK, PoolTypes
  <2>2. \A v \in Workers : v # w => job'[v] = job[v] /\ result'[v] = result[v] /\ pc'[v] = pc[v]
    BY DEF TypeOK, PoolTypes
  <2> QED BY <2>1, <2>2
<1>5. JobsAccount' /\ ResultsAccount'
  <2>1. JobsAccount'
    BY <1>3, <1>4, QuietJobs DEF JobsAccount
  <2>2. ResultsAccount'
    BY <1>3, <1>4, QuietResults DEF ResultsAccount
  <2> QED BY <2>1, <2>2
<1>6. CASE UNCHANGED <<deliveries, issued>>
  BY <1>3, <1>4, <1>6, QuietSends
<1>7. CASE FinishDelivery(job[w], r)
  <2>1. job[w] \in Jobs /\ r.attempts \in Nat
    BY DEF TypeOK, PoolTypes, Results
  <2>2. PICK d : d = job[w].id
    OBVIOUS
  <2>3. /\ DOMAIN deliveries' = DOMAIN deliveries
        /\ issued' = issued
        /\ \A x \in DOMAIN deliveries : x # d => deliveries'[x] = deliveries[x]
        /\ d \in DOMAIN deliveries =>
             /\ deliveries'[d].status = r.status
             /\ deliveries'[d].attempts = r.attempts
             /\ r.next # Never => deliveries'[d].snapshot = deliveries[d].snapshot
    BY <1>7, <2>1, <2>2, FinishRows
  <2>4. RowsAccount'
    <3> SUFFICES ASSUME NEW x \in DOMAIN deliveries', deliveries'[x].status \in Unfinished
                 PROVE  /\ deliveries'[x].attempts <= deliveries'[x].snapshot.maxRetries
                        /\ deliveries'[x].attempts <= refusals'[x]
                        /\ deliveries'[x].status = "pending" => sends'[x] <= deliveries'[x].attempts + Slack'
                        /\ sends'[x] <= deliveries'[x].attempts + restarts' + 1
      BY DEF RowsAccount
    <3>1. CASE x # d
      BY <1>3, <2>3, <3>1, QuietRows
    <3>2. CASE x = d
      <4>1. r.status = "pending" /\ r.next # Never
        BY <2>3, <3>2 DEF Unfinished, Final
      <4>2. deliveries'[d].snapshot = job[w].snapshot /\ deliveries'[d].attempts = r.attempts
        BY <2>2, <2>3, <3>2, <4>1 DEF ClaimInv, HeldIsCurrent
      <4>3. sends[d] \in Nat
        BY <2>1, <2>2, HistoryTypes DEF Jobs
      <4> QED BY <1>1, <1>2, <2>1, <2>2, <3>2, <4>1, <4>2, <4>3
    <3> QED BY <3>1, <3>2
  <2>5. \A x \in Deliveries \ issued' : sends'[x] = 0
    BY <2>3 DEF SendInv
  <2> QED BY <1>3, <1>5, <2>4, <2>5 DEF SendInv
<1> QED BY <1>6, <1>7

\* A request is sent for a row that only this worker holds, in a life of the process
\* whose requests are not cancelled: the request uses up the slack of this life.
LEMMA SendSends ==
    ASSUME TypeOK, ClaimInv, SendInv, NEW w \in Workers, Send(w)
    PROVE  SendInv'
<1>0. PICK d : d = job[w].id
  OBVIOUS
<1>1. /\ UNCHANGED <<deliveries, issued, restarts, cancelled, stop, phase, refusals, job, result>>
      /\ sends' = [sends EXCEPT ![d] = @ + 1]
      /\ pc' = [pc EXCEPT ![w] = "sending"]
      /\ Slack' = Slack
  BY <1>0 DEF Send, tables, process, Slack
<1>2. job[w] # NoJob /\ job[w] \in Jobs /\ d \in Deliveries /\ job[w].attempts \in Nat
  BY <1>0 DEF Send, TypeOK, PoolTypes, Jobs
<1>3. Slack = restarts
  <2>1. ~cancelled
    BY DEF Send, SendInv
  <2>2. phase = "running"
    BY DEF Send, TypeOK, PoolTypes, ProcessTypes
  <2>3. restarts \in Nat
    BY SlackTypes DEF TypeOK
  <2> QED BY <2>1, <2>2, <2>3 DEF Slack
<1>4. restarts \in Nat /\ sends[d] \in Nat /\ sends \in [Deliveries -> Nat]
  BY <1>2, HistoryTypes, SlackTypes DEF TypeOK, ProcessTypes
<1>5. sends'[d] <= job[w].attempts + restarts + 1
  <2>1. sends[d] <= job[w].attempts + restarts
    BY <1>0, <1>2, <1>3 DEF Send, SendInv, JobsAccount
  <2> QED BY <1>1, <1>2, <1>4, <2>1
<1>6. \A x \in Deliveries : x # d => sends'[x] = sends[x]
  BY <1>1, <1>4
<1>7. \A v \in Workers : v # w /\ job[v] # NoJob => job[v].id # d /\ job[v].id \in Deliveries
  BY <1>0, <1>2 DEF ClaimInv, ExclusiveClaim, TypeOK, PoolTypes, Jobs
<1>8. RowsAccount'
  <2> SUFFICES ASSUME NEW x \in DOMAIN deliveries, deliveries[x].status \in Unfinished
               PROVE  /\ deliveries[x].attempts <= deliveries[x].snapshot.maxRetries
                      /\ deliveries[x].attempts <= refusals[x]
                      /\ deliveries[x].status = "pending" => sends'[x] <= deliveries[x].attempts + Slack
                      /\ sends'[x] <= deliveries[x].attempts + restarts + 1
    BY <1>1 DEF RowsAccount
  <2>1. CASE x = d
    <3>1. deliveries[x].status = "in_progress" /\ deliveries[x].attempts = job[w].attempts
      BY <1>0, <1>2, <2>1 DEF ClaimInv, HeldIsCurrent
    <3> QED BY <1>5, <2>1, <3>1 DEF SendInv, RowsAccount
  <2>2. CASE x # d
    <3>1. sends'[x] = sends[x]
      BY <1>6, <2>2 DEF TypeOK, TableTypes
    <3> QED BY <3>1 DEF SendInv, RowsAccount
  <2> QED BY <2>1, <2>2
<1>9. JobsAccount'
  <2> SUFFICES ASSUME NEW v \in Workers, job[v] # NoJob
               PROVE  /\ job[v].snapshot \in RetryConfigs
                      /\ job[v].attempts <= job[v].snapshot.maxRetries
                      /\ job[v].attempts <= refusals[job[v].id]
                      /\ pc'[v] = "claimed" => sends'[job[v].id] <= job[v].attempts + Slack
                      /\ sends'[job[v].id] <= job[v].attempts + restarts + 1
    BY <1>1 DEF JobsAccount
  <2>1. CASE v = w
    <3>1. pc'[v] # "claimed"
      BY <1>1, <2>1 DEF TypeOK, PoolTypes
    <3> QED BY <1>0, <1>5, <2>1, <3>1 DEF SendInv, JobsAccount
  <2>2. CASE v # w
    <3>1. sends'[job[v].id] = sends[job[v].id] /\ pc'[v] = pc[v]
      BY <1>1, <1>6, <1>7, <2>2 DEF TypeOK, PoolTypes
    <3> QED BY <3>1 DEF SendInv, JobsAccount
  <2> QED BY <2>1, <2>2
<1>10. ResultsAccount'
  <2>1. \A v \in Workers : result[v] # NoResult => sends'[job[v].id] = sends[job[v].id]
    BY <1>6, <1>7 DEF Send, TypeOK, PoolTypes
  <2> QED BY <1>1, <2>1 DEF SendInv, ResultsAccount
<1>11. \A x \in Deliveries \ issued : sends'[x] = 0
  <2>1. d \in issued
    BY <1>0, <1>2 DEF ClaimInv, HeldIsCurrent
  <2> QED BY <1>6, <2>1 DEF SendInv
<1> QED BY <1>1, <1>8, <1>9, <1>10, <1>11 DEF SendInv

\* A request that could not be prepared gives a final result.
LEMMA PrepareSends ==
    ASSUME TypeOK, SendInv, NEW w \in Workers, PrepareFails(w)
    PROVE  SendInv'
<1>1. /\ UNCHANGED <<deliveries, issued, restarts, cancelled, stop, phase, sends, refusals, job>>
      /\ Slack' = Slack
  BY DEF PrepareFails, tables, process, history, Slack
<1>2. \A v \in Workers : pc'[v] = "claimed" => pc[v] = "claimed"
  BY DEF PrepareFails, TypeOK, PoolTypes
<1>3. result'[w].status = "error" /\ \A v \in Workers : v # w => result'[v] = result[v]
  BY DEF PrepareFails, TypeOK, PoolTypes
<1>4. RowsAccount'
  BY <1>1 DEF SendInv, RowsAccount
<1>5. JobsAccount'
  BY <1>1, <1>2 DEF SendInv, JobsAccount
<1>6. ResultsAccount'
  BY <1>1, <1>3 DEF SendInv, ResultsAccount
<1> QED BY <1>1, <1>4, <1>5, <1>6 DEF SendInv

\* What runQueued decides accounts for the request it sent and for the answers of the
\* receiver.
LEMMA DecisionAccounts ==
    ASSUME TypeOK, SendInv, NEW w \in Workers, NEW answer \in Answers, Answer(w, answer),
           NEW r, r = Decision(job[w], answer)
    PROVE  /\ r.status = "pending" =>
                /\ r.attempts <= job[w].snapshot.maxRetries
                /\ r.attempts <= refusals'[job[w].id]
                /\ sends[job[w].id] <= r.attempts + Slack
           /\ r.status = "failed" =>
                \/ refusals'[job[w].id] > job[w].snapshot.maxRetries
                \/ refusals'[job[w].id] > 0 /\ ~job[w].snapshot.retryOnTimeout
<1> DEFINE d == job[w].id
           a == job[w].attempts
<1>1. job[w] # NoJob /\ job[w] \in Jobs /\ d \in Deliveries /\ a \in Nat
  BY DEF Answer, TypeOK, PoolTypes, Jobs
<1>2. /\ job[w].snapshot \in RetryConfigs
      /\ a <= job[w].snapshot.maxRetries
      /\ a <= refusals[d]
      /\ sends[d] <= a + restarts + 1
  BY <1>1 DEF SendInv, JobsAccount
<1>3. /\ sends[d] \in Nat /\ refusals[d] \in Nat
      /\ job[w].snapshot.maxRetries \in Nat
      /\ Slack \in Nat /\ restarts \in Nat /\ restarts <= Slack
  BY <1>1, <1>2, PolicyTypes, HistoryTypes, SlackTypes DEF TypeOK
<1>4. refusals'[d] = IF answer \in {"server_error", "timeout"} THEN refusals[d] + 1 ELSE refusals[d]
  BY <1>1 DEF Answer, TypeOK, ProcessTypes
<1> HIDE DEF d, a
<1>5. CASE answer = "ok"
  <2>1. r.status = "success"
    BY <1>5 DEF Decision
  <2> QED BY <2>1
<1>6. CASE answer # "ok" /\ cancelled
  <2>1. r.status = "pending" /\ r.attempts = a
    BY <1>6 DEF Decision, a
  <2>2. Slack = restarts + 1
    BY <1>6 DEF Slack
  <2> QED BY <1>1, <1>2, <1>3, <1>4, <2>1, <2>2 DEF d
<1>7. CASE answer # "ok" /\ ~cancelled
  <2>1. answer # "canceled"
    BY <1>7 DEF Answer
  <2>2. CASE Retryable(job[w].snapshot, answer) /\ a + 1 <= job[w].snapshot.maxRetries
    <3>1. r.status = "pending" /\ r.attempts = a + 1
      BY <1>7, <2>2 DEF Decision, a
    <3>2. answer \in {"server_error", "timeout"}
      BY <1>7, <2>1, <2>2 DEF Retryable, Rejections, Answers
    <3> QED BY <1>1, <1>2, <1>3, <1>4, <2>2, <3>1, <3>2 DEF d
  <2>3. CASE ~(Retryable(job[w].snapshot, answer) /\ a + 1 <= job[w].snapshot.maxRetries)
    <3>1. r.status = FailureStatus(answer)
      BY <1>7, <2>3 DEF Decision, a
    <3>2. CASE answer \in Rejections
      BY <3>1, <3>2 DEF FailureStatus
    <3>3. CASE answer \notin Rejections
      <4>1. r.status = "failed" /\ answer \in {"server_error", "timeout"}
        BY <1>7, <2>1, <3>1, <3>3 DEF FailureStatus, Rejections, Answers
      <4>2. refusals'[d] = refusals[d] + 1
        BY <1>4, <4>1
      <4>3. CASE Retryable(job[w].snapshot, answer)
        BY <1>1, <1>2, <1>3, <2>3, <4>1, <4>2, <4>3 DEF d
      <4>4. CASE ~Retryable(job[w].snapshot, answer)
        <5>1. ~job[w].snapshot.retryOnTimeout
          BY <3>3, <4>4 DEF Retryable
        <5>2. refusals'[d] > 0
          BY <1>3, <4>2
        <5> QED BY <4>1, <5>1, <5>2 DEF d
      <4> QED BY <4>3, <4>4
    <3> QED BY <3>2, <3>3
  <2> QED BY <2>2, <2>3
<1> QED BY <1>5, <1>6, <1>7

LEMMA AnswerSends ==
    ASSUME TypeOK, TypeOK', ClaimInv, SendInv, NEW w \in Workers, NEW answer \in Answers,
           Answer(w, answer)
    PROVE  SendInv'
<1>1. /\ UNCHANGED <<deliveries, issued, restarts, cancelled, stop, phase, sends, job>>
      /\ Slack' = Slack
  BY DEF Answer, tables, process, Slack
<1>2. \A x \in Deliveries : /\ refusals[x] \in Nat /\ refusals'[x] \in Nat
                            /\ refusals[x] <= refusals'[x]
  BY DEF Answer, TypeOK, ProcessTypes
<1>3. job[w] # NoJob /\ job[w] \in Jobs
  BY DEF Answer, TypeOK, PoolTypes
<1>4. \A v \in Workers : pc'[v] = "claimed" => pc[v] = "claimed"
  BY DEF Answer, TypeOK, PoolTypes
<1>5. RowsAccount'
  <2> SUFFICES ASSUME NEW x \in DOMAIN deliveries, deliveries[x].status \in Unfinished
               PROVE  /\ deliveries[x].attempts <= deliveries[x].snapshot.maxRetries
                      /\ deliveries[x].attempts <= refusals'[x]
                      /\ deliveries[x].status = "pending" => sends[x] <= deliveries[x].attempts + Slack
                      /\ sends[x] <= deliveries[x].attempts + restarts + 1
    BY <1>1 DEF RowsAccount
  <2>1. x \in Deliveries /\ deliveries[x].attempts \in Nat
    BY DEF TypeOK, TableTypes, Rows
  <2> QED BY <1>2, <2>1 DEF SendInv, RowsAccount
<1>6. JobsAccount'
  <2> SUFFICES ASSUME NEW v \in Workers, job[v] # NoJob
               PROVE  /\ job[v].snapshot \in RetryConfigs
                      /\ job[v].attempts <= job[v].snapshot.maxRetries
                      /\ job[v].attempts <= refusals'[job[v].id]
                      /\ pc'[v] = "claimed" => sends[job[v].id] <= job[v].attempts + Slack
                      /\ sends[job[v].id] <= job[v].attempts + restarts + 1
    BY <1>1 DEF JobsAccount
  <2>1. job[v].id \in Deliveries /\ job[v].attempts \in Nat
    BY DEF TypeOK, PoolTypes, Jobs
  <2> QED BY <1>2, <1>4, <2>1 DEF SendInv, JobsAccount
<1>7. ResultsAccount'
  <2> SUFFICES ASSUME NEW v \in Workers, result'[v] # NoResult
               PROVE  /\ result'[v].status = "pending" =>
                           /\ result'[v].attempts <= job[v].snapshot.maxRetries
                           /\ result'[v].attempts <= refusals'[job[v].id]
                           /\ sends[job[v].id] <= result'[v].attempts + Slack
                      /\ result'[v].status = "failed" =>
                           \/ refusals'[job[v].id] > job[v].snapshot.maxRetries
                           \/ refusals'[job[v].id] > 0 /\ ~job[v].snapshot.retryOnTimeout
    BY <1>1 DEF ResultsAccount
  <2>1. CASE v = w
    <3>1. result'[w] = Decision(job[w], answer)
      BY DEF Answer, TypeOK, PoolTypes
    <3> QED BY <2>1, <3>1, DecisionAccounts
  <2>2. CASE v # w
    <3>1. result'[v] = result[v]
      BY <2>2 DEF Answer, TypeOK, PoolTypes
    <3>2. job[v] # NoJob
      BY <3>1 DEF TypeOK, PoolTypes
    <3>3. job[v].id # job[w].id /\ job[v].id \in Deliveries
      BY <1>3, <2>2, <3>2 DEF ClaimInv, ExclusiveClaim, TypeOK, PoolTypes, Jobs
    <3>4. refusals'[job[v].id] = refusals[job[v].id]
      BY <3>3 DEF Answer, TypeOK, ProcessTypes
    <3> QED BY <3>1, <3>4 DEF SendInv, ResultsAccount
  <2> QED BY <2>1, <2>2
<1> QED BY <1>1, <1>5, <1>6, <1>7 DEF SendInv

LEMMA WorkerSends ==
    ASSUME TypeOK, TypeOK', ClaimInv, SendInv, NEW w \in Workers, WorkerStep(w)
    PROVE  SendInv'
<1>1. CASE CheckStop(w) \/ Wait(w) \/ ClaimNothing(w)
  <2>1. /\ UNCHANGED <<deliveries, issued, restarts, cancelled, stop, phase, sends, refusals, job, result>>
        /\ Slack' = Slack
    BY <1>1 DEF CheckStop, Wait, ClaimNothing, tables, process, history, Slack
  <2>2. \A v \in Workers : job[v] # NoJob /\ pc'[v] = "claimed" => pc[v] = "claimed"
    BY <1>1 DEF CheckStop, Wait, ClaimNothing, TypeOK, PoolTypes
  <2>3. RowsAccount'
    BY <2>1 DEF SendInv, RowsAccount
  <2>4. JobsAccount'
    BY <2>1, <2>2 DEF SendInv, JobsAccount
  <2>5. ResultsAccount'
    BY <2>1 DEF SendInv, ResultsAccount
  <2> QED BY <2>1, <2>3, <2>4, <2>5 DEF SendInv
<1>2. CASE Release(w)
  <2>1. /\ Released(job[w]) \in Results /\ job[w] # NoJob /\ Released(job[w]).status = "pending"
        /\ Released(job[w]).attempts = job[w].attempts /\ Released(job[w]).next # Never
    BY <1>2, QueueAssumption
       DEF Release, Released, Results, Unfinished, TypeOK, PoolTypes, ProcessTypes, Jobs
  <2>2. /\ job[w].attempts <= job[w].snapshot.maxRetries
        /\ job[w].attempts <= refusals[job[w].id]
        /\ sends[job[w].id] <= job[w].attempts + Slack
    BY <1>2, <2>1 DEF Release, SendInv, JobsAccount
  <2>3. /\ FinishDelivery(job[w], Released(job[w])) \/ UNCHANGED <<deliveries, issued>>
        /\ job' = [job EXCEPT ![w] = NoJob]
        /\ pc' = [pc EXCEPT ![w] = "exited"]
        /\ UNCHANGED <<result, sends, refusals, restarts, cancelled, stop, phase>>
    BY <1>2 DEF Release, tables, process
  <2>4. "pending" \notin Final
    BY DEF Final
  <2> QED BY <2>1, <2>2, <2>3, <2>4, SaveSends
<1>3. CASE SaveResult(w)
  <2>1. /\ result[w] \in Results /\ result[w] # NoResult /\ job[w] # NoJob
        /\ result[w].status \in {"pending"} \cup Final
        /\ result[w].next = Never <=> result[w].status \in Final
    BY <1>3 DEF SaveResult, TypeOK, PoolTypes, ClaimInv, ResultIsDecided
  <2>2. result[w].status = "pending" =>
          /\ result[w].attempts <= job[w].snapshot.maxRetries
          /\ result[w].attempts <= refusals[job[w].id]
          /\ sends[job[w].id] <= result[w].attempts + Slack
    BY <2>1 DEF SendInv, ResultsAccount
  <2>3. /\ FinishDelivery(job[w], result[w]) \/ UNCHANGED <<deliveries, issued>>
        /\ job' = [job EXCEPT ![w] = NoJob]
        /\ result' = [result EXCEPT ![w] = NoResult]
        /\ pc' = [pc EXCEPT ![w] = "loop"]
        /\ UNCHANGED <<sends, refusals, restarts, cancelled, stop, phase>>
    BY <1>3 DEF SaveResult, tables, process
  <2> QED BY <2>1, <2>2, <2>3, SaveSends
<1> QED BY <1>1, <1>2, <1>3, ClaimSends, SendSends, PrepareSends DEF WorkerStep

LEMMA LifecycleSends ==
    ASSUME TypeOK, TypeOK', ClaimInv, SendInv, Lifecycle
    PROVE  SendInv'
<1>0. restarts \in Nat /\ Slack \in Nat /\ Slack <= restarts + 1
  BY SlackTypes DEF TypeOK
<1>1. CASE StopQueue \/ GraceExpires \/ Exit \/ Tick \/ Crash
  <2>1. /\ UNCHANGED <<deliveries, issued, restarts, sends, refusals>>
    BY <1>1 DEF StopQueue, GraceExpires, Exit, Tick, Crash, tables, process, history
  <2>2. cancelled' => stop'
    BY <1>1 DEF StopQueue, GraceExpires, Exit, Tick, Crash, process, SendInv
  <2>3. cancelled \/ phase = "crashed" => cancelled' \/ phase' = "crashed"
    BY <1>1 DEF StopQueue, GraceExpires, Exit, Tick, Crash, process
  <2>4. Slack <= Slack'
    BY <1>0, <2>1, <2>3 DEF Slack
  <2>5. \A w \in Workers :
          /\ job'[w] = job[w] \/ job'[w] = NoJob
          /\ result'[w] = result[w] \/ result'[w] = NoResult
          /\ job'[w] # NoJob /\ pc'[w] = "claimed" => pc[w] = "claimed"
          /\ result'[w] # NoResult => job'[w] = job[w]
    BY <1>1 DEF StopQueue, GraceExpires, Exit, Tick, Crash, pool
  <2>6. restarts <= restarts'
    BY <1>0, <2>1
  <2> QED BY <2>1, <2>2, <2>4, <2>5, <2>6, QuietSends
<1>2. CASE StartQueue
  <2>1. /\ deliveries' = RecoveredRows
        /\ restarts' = restarts + 1
        /\ cancelled' = FALSE
        /\ phase' = "running"
        /\ UNCHANGED <<issued, sends, refusals, job, result>>
    BY <1>2 DEF StartQueue
  <2>2. Slack' = restarts + 1
    BY <1>0, <2>1 DEF Slack
  <2>3. \A w \in Workers : job'[w] = NoJob /\ result'[w] = NoResult
    BY <1>2 DEF StartQueue, TypeOK, PoolTypes
  <2>4. RowsAccount'
    <3> SUFFICES ASSUME NEW x \in DOMAIN deliveries', deliveries'[x].status \in Unfinished
                 PROVE  /\ deliveries'[x].attempts <= deliveries'[x].snapshot.maxRetries
                        /\ deliveries'[x].attempts <= refusals'[x]
                        /\ deliveries'[x].status = "pending" => sends'[x] <= deliveries'[x].attempts + Slack'
                        /\ sends'[x] <= deliveries'[x].attempts + restarts' + 1
      BY DEF RowsAccount
    <3>1. /\ x \in DOMAIN deliveries
          /\ deliveries[x] \in Rows
          /\ deliveries[x].status \in Unfinished
          /\ deliveries'[x].attempts = deliveries[x].attempts
          /\ deliveries'[x].snapshot = deliveries[x].snapshot
      BY <2>1 DEF RecoveredRows, TypeOK, TableTypes, Rows, Unfinished
    <3>2. x \in Deliveries /\ deliveries[x].attempts \in Nat
      BY <3>1 DEF TypeOK, TableTypes, Rows
    <3>3. sends[x] \in Nat
      BY <3>2, HistoryTypes
    <3>4. /\ deliveries[x].attempts <= deliveries[x].snapshot.maxRetries
          /\ deliveries[x].attempts <= refusals[x]
          /\ sends[x] <= deliveries[x].attempts + restarts + 1
      BY <3>1 DEF SendInv, RowsAccount
    <3> QED BY <1>0, <2>1, <2>2, <3>1, <3>2, <3>3, <3>4
  <2>5. JobsAccount' /\ ResultsAccount'
    BY <2>3 DEF JobsAccount, ResultsAccount
  <2>6. \A d \in Deliveries \ issued' : sends'[d] = 0
    BY <2>1 DEF SendInv
  <2> QED BY <2>1, <2>4, <2>5, <2>6 DEF SendInv
<1> QED BY <1>1, <1>2 DEF Lifecycle

LEMMA NextSends == TypeOK /\ ClaimInv /\ SendInv /\ [Next]_vars => SendInv'
<1> SUFFICES ASSUME TypeOK, ClaimInv, SendInv, [Next]_vars PROVE SendInv'
  OBVIOUS
<1>1. CASE UNCHANGED vars
  <2>1. /\ UNCHANGED <<deliveries, issued, restarts, cancelled, stop, phase, sends, refusals, job, result, pc>>
        /\ Slack' = Slack
    BY <1>1 DEF vars, tables, process, pool, history, Slack
  <2> QED BY <2>1 DEF SendInv, RowsAccount, JobsAccount, ResultsAccount
<1>2. CASE Next
  <2>1. TypeOK'
    BY NextTypes
  <2> QED BY <1>2, <2>1, EnvironmentSends, WorkerSends, AnswerSends, LifecycleSends DEF Next
<1> QED BY <1>1, <1>2

LEMMA SendsInvariant == Spec => []SendInv
BY TypeCorrect, ClaimsInvariant, InitSends, NextSends, PTL DEF Spec

\* A receiver sees at most 1 + max_retries requests for a delivery and one more for
\* every restart, for any number of workers, faults and crashes.
THEOREM SendsAreBounded == Spec => []SendsBounded
<1>1. TypeOK /\ SendInv => SendsBounded
  <2> SUFFICES ASSUME TypeOK, SendInv, NEW w \in Workers, pc[w] = "sending"
               PROVE  sends[job[w].id] <= job[w].snapshot.maxRetries + 1 + restarts
    BY DEF SendsBounded
  <2>1. job[w] # NoJob /\ job[w] \in Jobs /\ job[w].id \in Deliveries /\ job[w].attempts \in Nat
    BY DEF TypeOK, PoolTypes, Jobs
  <2>2. /\ job[w].snapshot \in RetryConfigs
        /\ job[w].attempts <= job[w].snapshot.maxRetries
        /\ sends[job[w].id] <= job[w].attempts + restarts + 1
    BY <2>1 DEF SendInv, JobsAccount
  <2>3. job[w].snapshot.maxRetries \in Nat /\ sends[job[w].id] \in Nat /\ restarts \in Nat
    BY <2>1, <2>2, PolicyTypes, HistoryTypes, SlackTypes DEF TypeOK
  <2> QED BY <2>1, <2>2, <2>3
<1> QED BY <1>1, TypeCorrect, SendsInvariant, PTL

\* What one step may do to the rows: a row whose id was used before does not come
\* back, and one that is neither claimed nor recovered changes only when the worker
\* that holds it saves a result.
LEMMA StepRows ==
    ASSUME TypeOK, ClaimInv, [Next]_vars
    PROVE  /\ DOMAIN deliveries' \cap issued \subseteq DOMAIN deliveries
           /\ \A d \in DOMAIN deliveries \cap DOMAIN deliveries' :
                \/ deliveries'[d] = deliveries[d]
                \/ deliveries[d].status \in Unfinished /\ deliveries'[d].status \in Unfinished
                \/ /\ deliveries[d].status = "in_progress"
                   /\ \E w \in Workers :
                        /\ job[w] # NoJob /\ job[w].id = d
                        /\ result[w] # NoResult /\ deliveries'[d].status = result[w].status
<1> DEFINE Good ==
      /\ DOMAIN deliveries' \cap issued \subseteq DOMAIN deliveries
      /\ \A d \in DOMAIN deliveries \cap DOMAIN deliveries' :
           \/ deliveries'[d] = deliveries[d]
           \/ deliveries[d].status \in Unfinished /\ deliveries'[d].status \in Unfinished
           \/ /\ deliveries[d].status = "in_progress"
              /\ \E w \in Workers :
                   /\ job[w] # NoJob /\ job[w].id = d
                   /\ result[w] # NoResult /\ deliveries'[d].status = result[w].status
<1>1. CASE UNCHANGED deliveries
  BY <1>1
<1>2. ASSUME NEW e \in Emails, NEW D \in SUBSET Deliveries, NEW policy \in [D -> RetryConfigs],
             EnqueueDeliveries(e, D, policy)
      PROVE  Good
  <2>1. DOMAIN deliveries \subseteq issued
    BY DEF TypeOK, TableTypes
  <2> QED BY <1>2, <2>1, EnqueueRows
<1>3. ASSUME NEW E \in SUBSET Emails, DeleteEmails(E) PROVE Good
  BY <1>3 DEF DeleteEmails
<1>4. ASSUME NEW w \in Workers, ClaimDelivery(w) PROVE Good
  <2>1. PICK x \in Claimable : deliveries' = [deliveries EXCEPT ![x].status = "in_progress"]
    BY <1>4 DEF ClaimDelivery
  <2>2. x \in DOMAIN deliveries /\ deliveries[x] \in Rows /\ deliveries[x].status \in Unfinished
    BY DEF Claimable, TypeOK, TableTypes, Unfinished
  <2>3. /\ DOMAIN deliveries' = DOMAIN deliveries
        /\ deliveries'[x].status \in Unfinished
        /\ \A d \in DOMAIN deliveries : d # x => deliveries'[d] = deliveries[d]
    BY <2>1, <2>2 DEF Rows, Unfinished
  <2> QED BY <2>2, <2>3
<1>5. ASSUME NEW w \in Workers, Release(w) \/ SaveResult(w) PROVE Good
  <2>1. PICK r \in Results :
          /\ job[w] # NoJob
          /\ r.status = "pending" \/ (result[w] # NoResult /\ r = result[w])
          /\ FinishDelivery(job[w], r) \/ UNCHANGED deliveries
    <3>1. CASE Release(w)
      <4>1. Released(job[w]) \in Results /\ job[w] # NoJob /\ Released(job[w]).status = "pending"
        BY <3>1 DEF Release, Released, Results, Unfinished, TypeOK, PoolTypes, ProcessTypes, Jobs
      <4> QED BY <3>1, <4>1 DEF Release, tables
    <3>2. CASE SaveResult(w)
      <4>1. result[w] \in Results /\ job[w] # NoJob /\ result[w] # NoResult
        BY <3>2 DEF SaveResult, TypeOK, PoolTypes
      <4> QED BY <3>2, <4>1 DEF SaveResult, tables
    <3> QED BY <1>5, <3>1, <3>2
  <2>2. CASE UNCHANGED deliveries
    BY <1>1, <2>2
  <2>3. CASE FinishDelivery(job[w], r)
    <3>1. job[w] \in Jobs
      BY <2>1 DEF TypeOK, PoolTypes
    <3>2. PICK x : x = job[w].id
      OBVIOUS
    <3>3. /\ DOMAIN deliveries' = DOMAIN deliveries
          /\ \A d \in DOMAIN deliveries : d # x => deliveries'[d] = deliveries[d]
          /\ x \in DOMAIN deliveries => deliveries'[x].status = r.status
      BY <2>3, <3>1, <3>2, FinishRows
    <3>4. x \in DOMAIN deliveries => deliveries[x].status = "in_progress"
      BY <2>1, <3>2 DEF ClaimInv, HeldIsCurrent
    <3> QED BY <2>1, <3>2, <3>3, <3>4 DEF Unfinished
  <2> QED BY <2>1, <2>2, <2>3
<1>6. CASE StartQueue
  <2>1. deliveries' = RecoveredRows
    BY <1>6 DEF StartQueue
  <2> QED BY <2>1 DEF RecoveredRows, TypeOK, TableTypes, Rows, Unfinished
<1>7. CASE Environment
  <2>1. \/ UNCHANGED deliveries
        \/ \E e \in Emails, D \in SUBSET Deliveries : \E policy \in [D -> RetryConfigs] :
             EnqueueDeliveries(e, D, policy)
        \/ \E E \in SUBSET Emails : DeleteEmails(E)
    BY <1>7 DEF Environment, SaveEmail, InsertEmail, HandlerEnqueue, Replay, HandlerDrop, DropEmail,
                HandlerFails, ReplayDrop, DeleteByUser, CleanupExpired, tables
  <2> QED BY <1>1, <1>2, <1>3, <2>1
<1>8. ASSUME NEW w \in Workers, WorkerStep(w) PROVE Good
  <2>1. \/ UNCHANGED deliveries
        \/ ClaimDelivery(w)
        \/ Release(w) \/ SaveResult(w)
    BY <1>8 DEF WorkerStep, CheckStop, ClaimNothing, Wait, PrepareFails, Send, tables
  <2> QED BY <1>1, <1>4, <1>5, <2>1
<1>9. CASE Lifecycle
  <2>1. UNCHANGED deliveries \/ StartQueue
    BY <1>9 DEF Lifecycle, StopQueue, GraceExpires, Exit, Crash, Tick, tables
  <2> QED BY <1>1, <1>6, <2>1
<1>10. CASE \E w \in Workers, answer \in Answers : Answer(w, answer)
  BY <1>1, <1>10 DEF Answer, tables
<1>11. CASE UNCHANGED vars
  BY <1>1, <1>11 DEF vars, tables
<1> QED BY <1>7, <1>8, <1>9, <1>10, <1>11 DEF Next

\* A delivery is given up only after the receiver itself failed as often as its policy
\* allows: a shutdown never consumes a retry.
THEOREM GivingUpIsEarned == Spec => GivenUpIsEarned
<1> DEFINE Earned ==
      \A d \in DOMAIN deliveries \cap DOMAIN deliveries' :
         (deliveries[d].status # "failed" /\ deliveries'[d].status = "failed") =>
            \/ refusals[d] > deliveries[d].snapshot.maxRetries
            \/ refusals[d] > 0 /\ ~deliveries[d].snapshot.retryOnTimeout
<1>1. TypeOK /\ ClaimInv /\ SendInv /\ [Next]_vars => Earned
  <2> SUFFICES ASSUME TypeOK, ClaimInv, SendInv, [Next]_vars,
                      NEW d \in DOMAIN deliveries \cap DOMAIN deliveries',
                      deliveries[d].status # "failed", deliveries'[d].status = "failed"
               PROVE  \/ refusals[d] > deliveries[d].snapshot.maxRetries
                      \/ refusals[d] > 0 /\ ~deliveries[d].snapshot.retryOnTimeout
    OBVIOUS
  <2>1. PICK w \in Workers : /\ job[w] # NoJob /\ job[w].id = d
                             /\ result[w] # NoResult /\ result[w].status = "failed"
    BY StepRows DEF Unfinished
  <2>2. deliveries[d].snapshot = job[w].snapshot
    BY <2>1 DEF ClaimInv, HeldIsCurrent
  <2> QED BY <2>1, <2>2 DEF SendInv, ResultsAccount
<1> QED BY <1>1, TypeCorrect, ClaimsInvariant, SendsInvariant, PTL DEF Spec, GivenUpIsEarned

\* A finished delivery keeps its result and is not sent again, and a deleted one stays
\* deleted.
THEOREM SettledDeliveriesStay == Spec => SettledForGood
<1> DEFINE Stays ==
      \A d \in issued :
         /\ d \notin DOMAIN deliveries => d \notin DOMAIN deliveries'
         /\ (d \in DOMAIN deliveries /\ deliveries[d].status \in Final) =>
              /\ d \in DOMAIN deliveries' => deliveries'[d] = deliveries[d]
              /\ sends'[d] = sends[d]
<1>1. TypeOK /\ ClaimInv /\ [Next]_vars => Stays
  <2> SUFFICES ASSUME TypeOK, ClaimInv, [Next]_vars, NEW d \in issued PROVE
         /\ d \notin DOMAIN deliveries => d \notin DOMAIN deliveries'
         /\ (d \in DOMAIN deliveries /\ deliveries[d].status \in Final) =>
              /\ d \in DOMAIN deliveries' => deliveries'[d] = deliveries[d]
              /\ sends'[d] = sends[d]
    OBVIOUS
  <2>1. d \notin DOMAIN deliveries => d \notin DOMAIN deliveries'
    BY StepRows
  <2>2. ASSUME d \in DOMAIN deliveries, deliveries[d].status \in Final, d \in DOMAIN deliveries'
        PROVE  deliveries'[d] = deliveries[d]
    BY <2>2, StepRows DEF Unfinished, Final
  <2>3. ASSUME d \in DOMAIN deliveries, deliveries[d].status \in Final
        PROVE  sends'[d] = sends[d]
    <3>1. CASE \E w \in Workers : Send(w)
      <4>1. PICK w \in Workers : Send(w)
        BY <3>1
      <4>2. job[w] # NoJob
        BY <4>1 DEF Send, TypeOK, PoolTypes
      <4>3. job[w].id # d
        BY <2>3, <4>2 DEF ClaimInv, HeldIsCurrent, Final
      <4> QED BY <4>1, <4>3 DEF Send, TypeOK, ProcessTypes
    <3>2. CASE ~\E w \in Workers : Send(w)
      <4>1. UNCHANGED sends
        BY <3>2 DEF Next, vars, history, WorkerStep, CheckStop, ClaimDelivery, ClaimNothing, Wait, Release,
              PrepareFails, SaveResult, Answer, Environment, SaveEmail, HandlerEnqueue, Replay,
              HandlerDrop, HandlerFails, ReplayDrop, DeleteByUser, CleanupExpired, Lifecycle,
              StopQueue, GraceExpires, Exit, Crash, StartQueue, Tick
      <4> QED BY <4>1
    <3> QED BY <3>1, <3>2
  <2> QED BY <2>1, <2>2, <2>3
<1> QED BY <1>1, TypeCorrect, ClaimsInvariant, PTL DEF Spec, SettledForGood

-----------------------------------------------------------------------------
(***************************************************************************)
(* DeliveryQueue implements DeliveryLedger: every step of the queue is a   *)
(* step of the ledger or leaves it unchanged.                              *)
(***************************************************************************)

LEMMA InitRefines == Init => Ledger!LInit
BY DEF Init, Ledger!LInit, LedgerOf, NoBatch, Ledger!NoBatch

\* Steps that tell a pending row from one in progress, but nothing else.
LEMMA InvisibleRefines ==
    ASSUME UNCHANGED <<emails, seen, issued, lastBatch>>,
           DOMAIN deliveries' = DOMAIN deliveries,
           \A d \in DOMAIN deliveries :
              /\ deliveries'[d].email = deliveries[d].email
              /\ deliveries'[d].batch = deliveries[d].batch
              /\ deliveries'[d].status \in Unfinished <=> deliveries[d].status \in Unfinished
              /\ deliveries[d].status \notin Unfinished => deliveries'[d].status = deliveries[d].status
    PROVE  UNCHANGED Ledger!lvars
<1>1. LedgerOf(deliveries') = LedgerOf(deliveries)
  BY DEF LedgerOf
<1> QED BY <1>1 DEF Ledger!lvars

\* The rows that are open in the ledger are the unfinished ones.
LEMMA OpenIsUnfinished ==
    ASSUME NEW rows, NEW e, \A d \in DOMAIN rows : rows[d].status # "open"
    PROVE  Ledger!Open(LedgerOf(rows), e) = UnfinishedOf(rows, e)
BY DEF Ledger!Open, LedgerOf, UnfinishedOf

LEMMA InsertRefines ==
    ASSUME NEW e \in Emails, NEW s \in {"received", "rejected"}, InsertEmail(e, s)
    PROVE  Ledger!LNext
<1>1. Ledger!Accept(e, s)
  BY DEF InsertEmail, Ledger!Accept, NoBatch, Ledger!NoBatch
<1> QED BY <1>1 DEF Ledger!LNext

LEMMA EnqueueRefines ==
    ASSUME TypeOK, NEW e \in Emails, NEW D \in SUBSET Deliveries,
           NEW policy \in [D -> RetryConfigs], EnqueueDeliveries(e, D, policy)
    PROVE  Ledger!LNext
<1>1. DOMAIN LedgerOf(deliveries) = DOMAIN deliveries
  BY DEF LedgerOf
<1>2. LedgerOf(deliveries') =
        [d \in DOMAIN LedgerOf(deliveries) \cup D |->
           IF d \in D
           THEN [outcome |-> "open", email |-> e, batch |-> lastBatch + 1]
           ELSE LedgerOf(deliveries)[d]]
  BY <1>1 DEF EnqueueDeliveries, LedgerOf, Unfinished
<1>3. Ledger!Publish(e, D)
  BY <1>2 DEF EnqueueDeliveries, Ledger!Publish
<1> QED BY <1>3 DEF Ledger!LNext

\* Rows have statuses of the program, none of which is the ledger's "open".
LEMMA NoOpenStatus ==
    ASSUME TypeOK PROVE \A d \in DOMAIN deliveries : deliveries[d].status # "open"
BY DEF TypeOK, TableTypes, Rows, Unfinished, Final

LEMMA DropRefines ==
    ASSUME TypeOK, NEW e \in Emails, DropEmail(e)
    PROVE  Ledger!LNext \/ UNCHANGED Ledger!lvars
<1>1. CASE e \in DOMAIN emails /\ UnfinishedOf(deliveries, e) = {}
  <2>1. Ledger!Open(LedgerOf(deliveries), e) = {}
    BY <1>1, NoOpenStatus, OpenIsUnfinished
  <2>2. Ledger!Drop(e)
    BY <1>1, <2>1 DEF DropEmail, Ledger!Drop
  <2> QED BY <2>2 DEF Ledger!LNext
<1>2. CASE ~(e \in DOMAIN emails /\ UnfinishedOf(deliveries, e) = {})
  BY <1>2 DEF DropEmail, Ledger!lvars
<1> QED BY <1>1, <1>2

LEMMA DeleteRefines ==
    ASSUME NEW E \in SUBSET Emails, E \subseteq DOMAIN emails, DeleteEmails(E)
    PROVE  Ledger!LNext
<1>1. LedgerOf(deliveries') =
        [d \in {x \in DOMAIN LedgerOf(deliveries) : LedgerOf(deliveries)[x].email \notin E} |->
           LedgerOf(deliveries)[d]]
  BY DEF DeleteEmails, LedgerOf
<1>2. Ledger!Remove(E)
  BY <1>1 DEF DeleteEmails, Ledger!Remove
<1> QED BY <1>2 DEF Ledger!LNext

\* The ledger's verdict on a settled batch is what FinishDelivery computes.
LEMMA VerdictRefines ==
    ASSUME NEW rows, NEW e, NEW b,
           \A d \in DOMAIN rows : rows[d].batch = b => rows[d].email = e,
           UnfinishedOf(rows, e) = {},
           NEW x \in DOMAIN rows, rows[x].batch = b
    PROVE  BatchStatus(rows, e, b) = Ledger!VerdictOn(Ledger!BatchOutcomes(LedgerOf(rows), b))
<1> DEFINE batch == {d \in DOMAIN rows : rows[d].email = e /\ rows[d].batch = b}
           won == {d \in batch : rows[d].status = "success"}
           outcomes == Ledger!BatchOutcomes(LedgerOf(rows), b)
<1>1. outcomes = {LedgerOf(rows)[d].outcome : d \in batch}
  BY DEF Ledger!BatchOutcomes, LedgerOf
<1>2. \A d \in batch : LedgerOf(rows)[d].outcome = rows[d].status
  BY DEF LedgerOf, UnfinishedOf
<1>3. outcomes = {rows[d].status : d \in batch}
  BY <1>1, <1>2
<1>4. x \in batch
  OBVIOUS
<1> HIDE DEF outcomes
<1>5. outcomes = {"success"} <=> won = batch
  BY <1>3, <1>4
<1>6. "success" \in outcomes <=> won # {}
  BY <1>3
<1> QED BY <1>5, <1>6 DEF BatchStatus, Ledger!VerdictOn, outcomes

\* Two ledgers that differ in the outcome of one delivery.
LEMMA OutcomeUpdate ==
    ASSUME NEW S, NEW L, NEW M, NEW d \in S, NEW p, NEW o, NEW e, NEW b,
           L = [x \in S |-> L[x]], M = [x \in S |-> M[x]],
           \A x \in S : x # d => M[x] = L[x],
           L[d] = [outcome |-> p, email |-> e, batch |-> b],
           M[d] = [outcome |-> o, email |-> e, batch |-> b]
    PROVE  M = [L EXCEPT ![d].outcome = o]
<1>1. [L[d] EXCEPT !.outcome = o] = M[d]
  OBVIOUS
<1>2. \A x \in S : M[x] = [L EXCEPT ![d].outcome = o][x]
  BY <1>1
<1>3. DOMAIN [L EXCEPT ![d].outcome = o] = S
  OBVIOUS
<1> QED BY <1>2, <1>3

\* A worker saves a result: a final one settles the row in the ledger, any other, and
\* any result for a deleted row, is invisible.
LEMMA FinishRefines ==
    ASSUME TypeOK, TypeOK', ClaimInv, StatusInv, HeldHasEmail,
           NEW w \in Workers, job[w] # NoJob, NEW r \in Results,
           r.status \in {"pending"} \cup Final,
           FinishDelivery(job[w], r)
    PROVE  Ledger!LNext \/ UNCHANGED Ledger!lvars
<1>0. PICK d, e : d = job[w].id /\ e = job[w].email
  OBVIOUS
<1>1. job[w] \in Jobs /\ d \in Deliveries
  BY <1>0 DEF TypeOK, PoolTypes, Jobs
<1>2. CASE d \notin DOMAIN deliveries
  <2>1. e \notin DOMAIN emails
    BY <1>0, <1>2 DEF HeldHasEmail
  <2>2. UNCHANGED <<emails, deliveries, seen, issued, lastBatch>>
    BY <1>0, <1>2, <2>1 DEF FinishDelivery, SavedRows
  <2> QED BY <2>2 DEF Ledger!lvars
<1>3. CASE d \in DOMAIN deliveries
  <2>1. /\ deliveries[d].email = e /\ deliveries[d].status = "in_progress"
        /\ deliveries[d] \in Rows
        /\ e \in DOMAIN emails
    BY <1>0, <1>3 DEF ClaimInv, HeldIsCurrent, StatusInv, BatchesAreOwned, TypeOK, TableTypes
  <2>2. /\ DOMAIN deliveries' = DOMAIN deliveries
        /\ UNCHANGED <<seen, issued, lastBatch>>
        /\ \A x \in DOMAIN deliveries : x # d => deliveries'[x] = deliveries[x]
        /\ deliveries'[d].status = r.status
        /\ deliveries'[d].email = e
        /\ deliveries'[d].batch = deliveries[d].batch
    BY <1>0, <1>1, <1>3, <2>1, FinishRows
  <2>3. emails' = IF UnfinishedOf(deliveries', e) = {}
                  THEN [emails EXCEPT ![e].status = BatchStatus(deliveries', e, emails[e].batch)]
                  ELSE emails
    BY <1>0, <2>1 DEF FinishDelivery
  <2>4. CASE r.status = "pending"
    <3>1. d \in UnfinishedOf(deliveries', e)
      BY <1>3, <2>2, <2>4 DEF UnfinishedOf, Unfinished
    <3>2. emails' = emails
      BY <2>3, <3>1
    <3>3. \A x \in DOMAIN deliveries :
            /\ deliveries'[x].email = deliveries[x].email
            /\ deliveries'[x].batch = deliveries[x].batch
            /\ deliveries'[x].status \in Unfinished <=> deliveries[x].status \in Unfinished
            /\ deliveries[x].status \notin Unfinished => deliveries'[x].status = deliveries[x].status
      BY <2>1, <2>2, <2>4 DEF Unfinished
    <3> QED BY <2>2, <3>2, <3>3, InvisibleRefines
  <2>5. CASE r.status \in Final
    <3>1. LedgerOf(deliveries)[d].outcome = "open" /\ LedgerOf(deliveries)[d].email = e
      BY <1>3, <2>1 DEF LedgerOf, Unfinished
    <3>2. LedgerOf(deliveries') = [LedgerOf(deliveries) EXCEPT ![d].outcome = r.status]
      <4>1. \A x \in DOMAIN deliveries : x # d => LedgerOf(deliveries')[x] = LedgerOf(deliveries)[x]
        BY <2>2 DEF LedgerOf
      <4>2. LedgerOf(deliveries')[d] =
              [outcome |-> r.status, email |-> e, batch |-> deliveries[d].batch]
        BY <1>3, <2>2, <2>5 DEF LedgerOf, Unfinished, Final
      <4>3. LedgerOf(deliveries)[d] =
              [outcome |-> "open", email |-> e, batch |-> deliveries[d].batch]
        BY <1>3, <2>1 DEF LedgerOf, Unfinished
      <4>4. DOMAIN LedgerOf(deliveries') = DOMAIN deliveries /\ DOMAIN LedgerOf(deliveries) = DOMAIN deliveries
        BY <2>2 DEF LedgerOf
      <4>5. /\ LedgerOf(deliveries') = [x \in DOMAIN deliveries |-> LedgerOf(deliveries')[x]]
            /\ LedgerOf(deliveries) = [x \in DOMAIN deliveries |-> LedgerOf(deliveries)[x]]
        BY <4>4 DEF LedgerOf
      <4> QED BY <1>3, <4>1, <4>2, <4>3, <4>5, OutcomeUpdate
    <3>3. Ledger!Open(LedgerOf(deliveries'), e) = UnfinishedOf(deliveries', e)
      <4>1. \A x \in DOMAIN deliveries' : deliveries'[x].status # "open"
        BY DEF TypeOK, TableTypes, Rows, Unfinished, Final
      <4> QED BY <4>1, OpenIsUnfinished
    <3>4. CASE UnfinishedOf(deliveries', e) = {}
      <4>1. PICK x \in DOMAIN deliveries : deliveries[x].batch = emails[e].batch /\ deliveries[x].email = e
        <5>1. deliveries[d].batch \in 1..emails[e].batch
          BY <1>3, <2>1 DEF StatusInv, BatchesAreOwned
        <5>2. emails[e].batch # NoBatch
          BY <5>1 DEF NoBatch
        <5> QED BY <2>1, <5>2 DEF StatusInv, BatchesAreOwned
      <4>2. \A y \in DOMAIN deliveries' :
              deliveries'[y].batch = deliveries[y].batch /\ deliveries'[y].email = deliveries[y].email
        BY <2>1, <2>2
      <4>3. \A y \in DOMAIN deliveries' : deliveries'[y].batch = emails[e].batch => deliveries'[y].email = e
        BY <2>2, <4>1, <4>2 DEF StatusInv, BatchesAreOwned
      <4>4. BatchStatus(deliveries', e, emails[e].batch) =
              Ledger!VerdictOn(Ledger!BatchOutcomes(LedgerOf(deliveries'), emails[e].batch))
        <5>1. x \in DOMAIN deliveries' /\ deliveries'[x].batch = emails[e].batch
          BY <2>2, <4>1, <4>2
        <5> QED BY <3>4, <4>3, <5>1, VerdictRefines
      <4>5. Ledger!Settle(d, r.status)
        BY <1>3, <2>2, <2>3, <3>1, <3>2, <3>3, <3>4, <4>4 DEF Ledger!Settle, LedgerOf
      <4> QED BY <1>1, <2>5, <4>5 DEF Ledger!LNext, Ledger!Outcomes, Final
    <3>5. CASE UnfinishedOf(deliveries', e) # {}
      <4>1. Ledger!Settle(d, r.status)
        BY <1>3, <2>2, <2>3, <3>1, <3>2, <3>3, <3>5 DEF Ledger!Settle, LedgerOf
      <4> QED BY <1>1, <2>5, <4>1 DEF Ledger!LNext, Ledger!Outcomes, Final
    <3> QED BY <3>4, <3>5
  <2> QED BY <2>4, <2>5
<1> QED BY <1>2, <1>3

LEMMA EnvironmentRefines ==
    ASSUME TypeOK, Environment
    PROVE  Ledger!LNext \/ UNCHANGED Ledger!lvars
<1>1. ASSUME NEW e \in Emails, NEW s \in {"received", "rejected"}, SaveEmail(e, s)
      PROVE  Ledger!LNext
  BY <1>1, InsertRefines DEF SaveEmail
<1>2. ASSUME NEW e \in Emails, NEW D \in SUBSET Deliveries, NEW policy \in [D -> RetryConfigs],
             HandlerEnqueue(e, D, policy) \/ Replay(e, D, policy)
      PROVE  Ledger!LNext
  BY <1>2, EnqueueRefines DEF HandlerEnqueue, Replay
<1>3. ASSUME NEW e \in Emails, HandlerDrop(e) \/ ReplayDrop(e)
      PROVE  Ledger!LNext \/ UNCHANGED Ledger!lvars
  BY <1>3, DropRefines DEF HandlerDrop, ReplayDrop
<1>4. ASSUME NEW e \in Emails, HandlerFails(e)
      PROVE  UNCHANGED Ledger!lvars
  BY <1>4 DEF HandlerFails, tables, Ledger!lvars
<1>5. ASSUME NEW E \in SUBSET Emails, DeleteByUser(E) \/ CleanupExpired(E)
      PROVE  Ledger!LNext
  <2>1. E \subseteq DOMAIN emails /\ DeleteEmails(E)
    BY <1>5 DEF DeleteByUser, CleanupExpired
  <2> QED BY <2>1, DeleteRefines
<1> QED BY <1>1, <1>2, <1>3, <1>4, <1>5 DEF Environment

LEMMA WorkerRefines ==
    ASSUME TypeOK, TypeOK', ClaimInv, StatusInv, HeldHasEmail, NEW w \in Workers, WorkerStep(w)
    PROVE  Ledger!LNext \/ UNCHANGED Ledger!lvars
<1>1. CASE CheckStop(w) \/ Wait(w) \/ ClaimNothing(w) \/ PrepareFails(w) \/ Send(w)
  BY <1>1 DEF CheckStop, Wait, ClaimNothing, PrepareFails, Send, tables, Ledger!lvars
<1>2. CASE ClaimDelivery(w)
  <2>1. PICK d \in Claimable : deliveries' = [deliveries EXCEPT ![d].status = "in_progress"]
    BY <1>2 DEF ClaimDelivery
  <2>2. d \in DOMAIN deliveries /\ deliveries[d].status = "pending" /\ deliveries[d] \in Rows
    BY DEF Claimable, TypeOK, TableTypes
  <2>3. UNCHANGED <<emails, seen, issued, lastBatch>> /\ DOMAIN deliveries' = DOMAIN deliveries
    BY <1>2, <2>1 DEF ClaimDelivery
  <2>4. \A x \in DOMAIN deliveries :
          /\ deliveries'[x].email = deliveries[x].email
          /\ deliveries'[x].batch = deliveries[x].batch
          /\ deliveries'[x].status \in Unfinished <=> deliveries[x].status \in Unfinished
          /\ deliveries[x].status \notin Unfinished => deliveries'[x].status = deliveries[x].status
    BY <2>1, <2>2 DEF Unfinished, Rows
  <2> QED BY <2>3, <2>4, InvisibleRefines
<1>3. CASE Release(w)
  <2>1. Released(job[w]) \in Results /\ job[w] # NoJob /\ Released(job[w]).status = "pending"
    BY <1>3 DEF Release, Released, Results, Unfinished, TypeOK, PoolTypes, ProcessTypes, Jobs
  <2>2. CASE FinishDelivery(job[w], Released(job[w]))
    BY <2>1, <2>2, FinishRefines
  <2>3. CASE UNCHANGED tables
    BY <2>3 DEF tables, Ledger!lvars
  <2> QED BY <1>3, <2>2, <2>3 DEF Release
<1>4. CASE SaveResult(w)
  <2>1. result[w] \in Results /\ job[w] # NoJob /\ result[w].status \in {"pending"} \cup Final
    BY <1>4 DEF SaveResult, TypeOK, PoolTypes, ClaimInv, ResultIsDecided
  <2>2. CASE FinishDelivery(job[w], result[w])
    BY <2>1, <2>2, FinishRefines
  <2>3. CASE UNCHANGED tables
    BY <2>3 DEF tables, Ledger!lvars
  <2> QED BY <1>4, <2>2, <2>3 DEF SaveResult
<1> QED BY <1>1, <1>2, <1>3, <1>4 DEF WorkerStep

LEMMA LifecycleRefines ==
    ASSUME TypeOK, Lifecycle
    PROVE  UNCHANGED Ledger!lvars
<1>1. CASE StopQueue \/ GraceExpires \/ Exit \/ Tick \/ Crash
  BY <1>1 DEF StopQueue, GraceExpires, Exit, Tick, Crash, tables, Ledger!lvars
<1>2. CASE StartQueue
  <2>1. UNCHANGED <<emails, seen, issued, lastBatch>> /\ deliveries' = RecoveredRows
    BY <1>2 DEF StartQueue
  <2>2. DOMAIN deliveries' = DOMAIN deliveries
    BY <2>1 DEF RecoveredRows
  <2>3. \A d \in DOMAIN deliveries :
          /\ deliveries'[d].email = deliveries[d].email
          /\ deliveries'[d].batch = deliveries[d].batch
          /\ deliveries'[d].status \in Unfinished <=> deliveries[d].status \in Unfinished
          /\ deliveries[d].status \notin Unfinished => deliveries'[d].status = deliveries[d].status
    BY <2>1 DEF RecoveredRows, TypeOK, TableTypes, Rows, Unfinished
  <2> QED BY <2>1, <2>2, <2>3, InvisibleRefines
<1> QED BY <1>1, <1>2 DEF Lifecycle

LEMMA NextRefines ==
    TypeOK /\ ClaimInv /\ StatusInv /\ HeldHasEmail /\ [Next]_vars => [Ledger!LNext]_(Ledger!lvars)
<1> SUFFICES ASSUME TypeOK, ClaimInv, StatusInv, HeldHasEmail, [Next]_vars
             PROVE  Ledger!LNext \/ UNCHANGED Ledger!lvars
  OBVIOUS
<1>1. CASE UNCHANGED vars \/ \E w \in Workers, answer \in Answers : Answer(w, answer)
  BY <1>1 DEF vars, Answer, tables, Ledger!lvars
<1>2. CASE Next /\ ~\E w \in Workers, answer \in Answers : Answer(w, answer)
  <2>1. TypeOK'
    BY NextTypes
  <2> QED BY <1>2, <2>1, EnvironmentRefines, WorkerRefines, LifecycleRefines DEF Next
<1> QED BY <1>1, <1>2

\* The queue implements the ledger: whatever the workers, the crashes and the failing
\* storage do, every delivery is published once, settled at most once and for good, and
\* the last one to settle gives its email the verdict on the latest batch.
THEOREM QueueImplementsLedger == Spec => ImplementsLedger
BY InitRefines, NextRefines, TypeCorrect, ClaimsInvariant, StatusInvariant, PTL
   DEF Spec, ImplementsLedger, Ledger!LSpec
=============================================================================
