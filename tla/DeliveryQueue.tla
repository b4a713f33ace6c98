---------------------------- MODULE DeliveryQueue ----------------------------
(***************************************************************************)
(* The durable webhook delivery queue: the tables emails, deliveries and   *)
(* delivery_queue in SQLite (internal/storage/queue.go, store.go), the     *)
(* worker pool that sends from them (internal/webhook/queue.go), and the   *)
(* operations of the SMTP handler and of the web interface that change the *)
(* same rows (cmd/mailrelay/main.go, internal/webui/handler.go), in a      *)
(* process that shuts down, crashes and starts again.                      *)
(*                                                                         *)
(* Every database operation is one transaction on one connection           *)
(* (SetMaxOpenConns(1)), so it is one action; what lies between two        *)
(* database operations of a goroutine is a step of its own.                *)
(***************************************************************************)
EXTENDS RetryPolicy, FiniteSets

CONSTANTS
    Emails,         \* email ids (uuids: never reused)
    Deliveries,     \* delivery ids (uuids: never reused)
    Workers,        \* the goroutines of the pool (webhook.workers)
    RetryConfigs,   \* effective retry settings a rule may have when enqueued
    Never,          \* next_attempt_at of a finished row, and the zero time
    NoSnapshot,     \* the snapshot '' of a finished row
    NoJob,          \* a worker that holds no row
    NoResult,       \* a worker with nothing to save
    MaxRestarts,    \* bound: how often the process stops or crashes
    MaxFaults       \* bound: how often a storage operation fails

ASSUME QueueAssumption ==
    /\ RetryConfigs \subseteq RetryPolicies(Nat, Nat)
    /\ Never \notin Int
    /\ NoSnapshot \notin RetryConfigs
    /\ MaxRestarts \in Nat
    /\ MaxFaults \in Nat

VARIABLES
    emails,      \* table emails: id -> [status, batch]
    deliveries,  \* deliveries JOIN delivery_queue: id -> row
    seen,        \* email ids ever inserted
    issued,      \* delivery ids ever inserted
    lastBatch,   \* number of batch ids drawn so far
    now,         \* wall clock
    handlers,    \* emails whose SMTP handler has saved them and not yet matched
    phase,       \* the process: "running", "stopped" (cleanly) or "crashed"
    stop,        \* q.stop is closed
    cancelled,   \* the workers' context is cancelled
    pc,          \* per worker, where it is in work / runQueued
    job,         \* per worker, the claimed row as it was read
    result,      \* per worker, what it is about to save
    sends,       \* per delivery, requests sent (history)
    refusals,    \* per delivery, retryable failures the receiver gave (history)
    lost,        \* rows whose result this process could not save (history)
    restarts,    \* number of restarts so far
    faults       \* number of storage failures so far

tables == <<emails, deliveries, seen, issued, lastBatch>>
process == <<phase, stop, cancelled, restarts>>
pool == <<pc, job, result>>
history == <<sends, refusals, lost, faults>>
vars == <<tables, now, handlers, process, pool, history>>

NoBatch == 0

Unfinished == {"pending", "in_progress"}
Final == {"success", "failed", "rejected", "error"}
EmailStatuses == {"received", "rejected", "dropped", "delivered", "partial_failure", "failed"}

Rows ==
    [status: Unfinished \cup Final, email: Emails, batch: Nat, attempts: Nat,
     due: Int \cup {Never}, snapshot: RetryConfigs \cup {NoSnapshot}]

Jobs ==
    [id: Deliveries, email: Emails, attempts: Nat, snapshot: RetryConfigs \cup {NoSnapshot}]

Results == [status: Unfinished \cup Final, attempts: Nat, next: Int \cup {Never}]

ASSUME NullAssumption ==
    /\ NoJob \notin Jobs
    /\ NoResult \notin Results

-----------------------------------------------------------------------------
(* The tables: what the SQL statements select and compute.                 *)

\* Rows of email e that have no final result, in any batch.
UnfinishedOf(rows, e) ==
    {d \in DOMAIN rows : rows[d].email = e /\ rows[d].status \in Unfinished}

\* Faulty variant: aggregates over every batch of the email.
BatchStatus_AllBatches(rows, e, b) ==
    LET batch == {d \in DOMAIN rows : rows[d].email = e}
        won == {d \in batch : rows[d].status = "success"}
    IN  IF won = batch THEN "delivered"
        ELSE IF won # {} THEN "partial_failure"
        ELSE "failed"

\* The aggregate over the latest batch in FinishDelivery's last statement.
BatchStatus(rows, e, b) ==
    LET batch == {d \in DOMAIN rows : rows[d].email = e /\ rows[d].batch = b}
        won == {d \in batch : rows[d].status = "success"}
    IN  IF won = batch THEN "delivered"
        ELSE IF won # {} THEN "partial_failure"
        ELSE "failed"

\* Store.SaveEmail inserts a row with a fresh id and no batch.
InsertEmail(e, s) ==
    /\ e \notin seen
    /\ seen' = seen \cup {e}
    /\ emails' = [x \in DOMAIN emails \cup {e} |->
                    IF x = e THEN [status |-> s, batch |-> NoBatch] ELSE emails[x]]
    /\ UNCHANGED <<deliveries, issued, lastBatch>>

\* Faulty variant: records the batch but leaves the email's status alone.
EnqueueDeliveries_KeepStatus(e, D, policy) ==
    /\ e \in DOMAIN emails
    /\ D # {}
    /\ D \cap issued = {}
    /\ issued' = issued \cup D
    /\ lastBatch' = lastBatch + 1
    /\ deliveries' =
         [d \in DOMAIN deliveries \cup D |->
            IF d \in D
            THEN [status |-> "pending", email |-> e, batch |-> lastBatch + 1,
                  attempts |-> 0, due |-> now, snapshot |-> policy[d]]
            ELSE deliveries[d]]
    /\ emails' = [emails EXCEPT ![e].batch = lastBatch + 1]
    /\ UNCHANGED seen

\* Store.EnqueueDeliveries, called by Dispatcher.Enqueue with one job per matched
\* rule; policy gives the effective retry settings captured in each snapshot.
\* The foreign key makes the insertion fail when the email is gone.
EnqueueDeliveries(e, D, policy) ==
    /\ e \in DOMAIN emails
    /\ D # {}
    /\ D \cap issued = {}
    /\ issued' = issued \cup D
    /\ lastBatch' = lastBatch + 1
    /\ deliveries' =
         [d \in DOMAIN deliveries \cup D |->
            IF d \in D
            THEN [status |-> "pending", email |-> e, batch |-> lastBatch + 1,
                  attempts |-> 0, due |-> now, snapshot |-> policy[d]]
            ELSE deliveries[d]]
    /\ emails' = [emails EXCEPT ![e] = [status |-> "received", batch |-> lastBatch + 1]]
    /\ UNCHANGED seen

\* Store.UpdateEmailStatus(id, dropped): a no-op while a delivery is unfinished
\* or when the email is gone.
DropEmail(e) ==
    /\ emails' = IF e \in DOMAIN emails /\ UnfinishedOf(deliveries, e) = {}
                 THEN [emails EXCEPT ![e].status = "dropped"]
                 ELSE emails
    /\ UNCHANGED <<deliveries, seen, issued, lastBatch>>

\* DELETE FROM emails ...; the deliveries and queue rows go by ON DELETE CASCADE.
DeleteEmails(E) ==
    /\ emails' = [e \in DOMAIN emails \ E |-> emails[e]]
    /\ deliveries' = [d \in {x \in DOMAIN deliveries : deliveries[x].email \notin E} |-> deliveries[d]]
    /\ UNCHANGED <<seen, issued, lastBatch>>

\* Faulty variant: selects rows another worker has already claimed.
Claimable_AnyUnfinished ==
    LET dueRows == {d \in DOMAIN deliveries :
                      deliveries[d].status \in Unfinished /\ deliveries[d].due <= now}
    IN  {d \in dueRows : \A x \in dueRows : deliveries[d].due <= deliveries[x].due}

\* Pending rows whose time has come, the earliest first (ties in any order).
Claimable ==
    LET dueRows == {d \in DOMAIN deliveries :
                      deliveries[d].status = "pending" /\ deliveries[d].due <= now}
    IN  {d \in dueRows : \A x \in dueRows : deliveries[d].due <= deliveries[x].due}

\* Faulty variant: releases the snapshot after every attempt.
SavedRows_DropSnapshot(d, r) ==
    IF d \in DOMAIN deliveries
    THEN LET old == deliveries[d]
         IN  [deliveries EXCEPT ![d] =
                [status |-> r.status, email |-> old.email, batch |-> old.batch,
                 attempts |-> r.attempts, due |-> r.next, snapshot |-> NoSnapshot]]
    ELSE deliveries

\* The deliveries row after FinishDelivery saved r; a row that was deleted in the
\* meantime stays deleted.
SavedRows(d, r) ==
    IF d \in DOMAIN deliveries
    THEN LET old == deliveries[d]
         IN  [deliveries EXCEPT ![d] =
                [status |-> r.status, email |-> old.email, batch |-> old.batch,
                 attempts |-> r.attempts, due |-> r.next,
                 snapshot |-> IF r.next = Never THEN NoSnapshot ELSE old.snapshot]]
    ELSE deliveries

\* Faulty variant: looks for unfinished rows in the latest batch only.
FinishDelivery_LatestBatchOnly(j, r) ==
    LET rows == SavedRows(j.id, r)
    IN  /\ deliveries' = rows
        /\ emails' = IF /\ j.email \in DOMAIN emails
                        /\ \A d \in UnfinishedOf(rows, j.email) : rows[d].batch # emails[j.email].batch
                     THEN [emails EXCEPT ![j.email].status =
                             BatchStatus(rows, j.email, emails[j.email].batch)]
                     ELSE emails
        /\ UNCHANGED <<seen, issued, lastBatch>>

\* Store.FinishDelivery: the row, and the email when nothing of it is unfinished.
FinishDelivery(j, r) ==
    LET rows == SavedRows(j.id, r)
    IN  /\ deliveries' = rows
        /\ emails' = IF j.email \in DOMAIN emails /\ UnfinishedOf(rows, j.email) = {}
                     THEN [emails EXCEPT ![j.email].status =
                             BatchStatus(rows, j.email, emails[j.email].batch)]
                     ELSE emails
        /\ UNCHANGED <<seen, issued, lastBatch>>

\* Faulty variants: recovers everything that did not succeed; recovers nothing.
RecoveredRows_Failed ==
    [d \in DOMAIN deliveries |->
       IF deliveries[d].status # "success"
       THEN [deliveries[d] EXCEPT !.status = "pending"]
       ELSE deliveries[d]]

RecoveredRows_None == deliveries

\* Store.RecoverDeliveries: UPDATE deliveries SET status='pending' WHERE in_progress.
RecoveredRows ==
    [d \in DOMAIN deliveries |->
       IF deliveries[d].status = "in_progress"
       THEN [deliveries[d] EXCEPT !.status = "pending"]
       ELSE deliveries[d]]
-----------------------------------------------------------------------------
(* The SMTP handler and the web interface, which share the database.       *)

\* buildHandler saves an accepted email; buildRejectionHandler one that failed
\* authentication, which is not matched against the rules.
SaveEmail(e, s) ==
    /\ phase = "running"
    /\ InsertEmail(e, s)
    /\ handlers' = IF s = "received" THEN handlers \cup {e} ELSE handlers
    /\ UNCHANGED <<now, process, pool, history>>

\* Some rules match: the handler enqueues one delivery for each.
HandlerEnqueue(e, D, policy) ==
    /\ phase = "running"
    /\ e \in handlers
    /\ EnqueueDeliveries(e, D, policy)
    /\ handlers' = handlers \ {e}
    /\ UNCHANGED <<now, process, pool, history>>

\* No rule matches.
HandlerDrop(e) ==
    /\ phase = "running"
    /\ e \in handlers
    /\ DropEmail(e)
    /\ handlers' = handlers \ {e}
    /\ UNCHANGED <<now, process, pool, history>>

\* The handler's second database call fails: its context is cancelled with the
\* signal that stops the process, the email was deleted, or the storage fails.
HandlerFails(e) ==
    /\ phase = "running"
    /\ e \in handlers
    /\ \/ stop /\ faults' = faults
       \/ e \notin DOMAIN emails /\ faults' = faults
       \/ faults < MaxFaults /\ faults' = faults + 1
    /\ handlers' = handlers \ {e}
    /\ UNCHANGED <<tables, now, process, pool, sends, refusals, lost>>

\* handleReplay: the email is matched again and a further batch is enqueued, or
\* it is dropped.
Replay(e, D, policy) ==
    /\ phase = "running"
    /\ EnqueueDeliveries(e, D, policy)
    /\ UNCHANGED <<now, handlers, process, pool, history>>

ReplayDrop(e) ==
    /\ phase = "running"
    /\ e \in DOMAIN emails
    /\ DropEmail(e)
    /\ UNCHANGED <<now, handlers, process, pool, history>>

\* handleDelete and handleDeleteAll: whatever the state of the deliveries.
DeleteByUser(E) ==
    /\ phase = "running"
    /\ E # {}
    /\ E \subseteq DOMAIN emails
    /\ Cardinality(E) = 1 \/ E = DOMAIN emails
    /\ DeleteEmails(E)
    /\ UNCHANGED <<now, handlers, process, pool, history>>

\* Store.CleanupExpired: expired emails without unfinished deliveries.  Which
\* emails are old enough is left open.
CleanupExpired(E) ==
    /\ phase = "running"
    /\ E # {}
    /\ E \subseteq {e \in DOMAIN emails : UnfinishedOf(deliveries, e) = {}}
    /\ DeleteEmails(E)
    /\ UNCHANGED <<now, handlers, process, pool, history>>
-----------------------------------------------------------------------------
(* A worker: Dispatcher.work and Dispatcher.runQueued.                     *)

\* The top of the loop: return when q.stop is closed, else go on to claim.
CheckStop(w) ==
    /\ pc[w] = "loop"
    /\ pc' = [pc EXCEPT ![w] = IF stop THEN "exited" ELSE "claim"]
    /\ UNCHANGED <<tables, now, handlers, process, job, result, history>>

\* Store.ClaimDelivery finds a due row.  With the context cancelled the
\* transaction cannot begin.
ClaimDelivery(w) ==
    /\ pc[w] = "claim"
    /\ ~cancelled
    /\ \E d \in Claimable :
         /\ deliveries' = [deliveries EXCEPT ![d].status = "in_progress"]
         /\ job' = [job EXCEPT ![w] =
                      [id |-> d, email |-> deliveries[d].email,
                       attempts |-> deliveries[d].attempts, snapshot |-> deliveries[d].snapshot]]
    /\ pc' = [pc EXCEPT ![w] = "claimed"]
    /\ UNCHANGED <<emails, seen, issued, lastBatch, now, handlers, process, result, history>>

\* ClaimDelivery returns no job: nothing is due, or it fails.
ClaimNothing(w) ==
    /\ pc[w] = "claim"
    /\ \/ Claimable = {} /\ faults' = faults
       \/ cancelled /\ faults' = faults
       \/ faults < MaxFaults /\ faults' = faults + 1
    /\ pc' = [pc EXCEPT ![w] = "wait"]
    /\ UNCHANGED <<tables, now, handlers, process, job, result, sends, refusals, lost>>

\* The select at the bottom of the loop: the ticker, or q.stop.
Wait(w) ==
    /\ pc[w] = "wait"
    /\ pc' = [pc EXCEPT ![w] = IF stop THEN "exited" ELSE "loop"]
    /\ UNCHANGED <<tables, now, handlers, process, job, result, history>>

\* What a worker that is told to stop saves for a row it has claimed.
Released(j) == [status |-> "pending", attempts |-> j.attempts, next |-> now]

\* Faulty variant: returns without giving the row back.
Release_Forget(w) ==
    /\ pc[w] = "claimed"
    /\ stop
    /\ pc' = [pc EXCEPT ![w] = "exited"]
    /\ job' = [job EXCEPT ![w] = NoJob]
    /\ UNCHANGED <<tables, now, handlers, process, result, history>>

\* The recheck of q.stop after the claim: the row is given back.
Release(w) ==
    /\ pc[w] = "claimed"
    /\ stop
    /\ \/ /\ FinishDelivery(job[w], Released(job[w]))
          /\ UNCHANGED <<lost, faults>>
       \/ /\ faults < MaxFaults
          /\ faults' = faults + 1
          /\ lost' = lost \cup {job[w].id}
          /\ UNCHANGED tables
    /\ pc' = [pc EXCEPT ![w] = "exited"]
    /\ job' = [job EXCEPT ![w] = NoJob]
    /\ UNCHANGED <<now, handlers, process, result, sends, refusals>>

\* runQueued cannot make a request: the snapshot does not parse, the payload
\* template failed when the row was enqueued, or the signing secret is gone.
PrepareFails(w) ==
    /\ pc[w] = "claimed"
    /\ ~stop
    /\ result' = [result EXCEPT ![w] =
                    [status |-> "error", attempts |-> job[w].attempts, next |-> Never]]
    /\ pc' = [pc EXCEPT ![w] = "finish"]
    /\ UNCHANGED <<tables, now, handlers, process, job, history>>

\* runQueued sends the request.
Send(w) ==
    /\ pc[w] = "claimed"
    /\ ~stop
    /\ job[w].snapshot # NoSnapshot
    /\ sends' = [sends EXCEPT ![job[w].id] = @ + 1]
    /\ pc' = [pc EXCEPT ![w] = "sending"]
    /\ UNCHANGED <<tables, now, handlers, process, job, result, refusals, lost, faults>>

\* Faulty variants: one retry too many; a cancelled attempt is counted; a cancelled
\* attempt is taken back from the stored count.
Decision_ExtraRetry(j, answer) ==
    LET attempts == j.attempts + 1
    IN  IF answer = "ok"
        THEN [status |-> "success", attempts |-> attempts, next |-> Never]
        ELSE IF cancelled
        THEN [status |-> "pending", attempts |-> j.attempts, next |-> now]
        ELSE IF Retryable(j.snapshot, answer) /\ attempts <= j.snapshot.maxRetries + 1
        THEN [status |-> "pending", attempts |-> attempts, next |-> now]
        ELSE [status |-> "failed", attempts |-> attempts, next |-> Never]

Decision_CountCancelled(j, answer) ==
    LET attempts == j.attempts + 1
    IN  IF answer = "ok"
        THEN [status |-> "success", attempts |-> attempts, next |-> Never]
        ELSE IF cancelled
        THEN [status |-> "pending", attempts |-> attempts, next |-> now]
        ELSE IF Retryable(j.snapshot, answer) /\ attempts <= j.snapshot.maxRetries
        THEN [status |-> "pending", attempts |-> attempts, next |-> now]
        ELSE [status |-> FailureStatus(answer), attempts |-> attempts, next |-> Never]

Decision_Refund(j, answer) ==
    IF answer # "ok" /\ cancelled
    THEN [status |-> "pending", attempts |-> j.attempts - 1, next |-> now]
    ELSE [status |-> "success", attempts |-> j.attempts + 1, next |-> Never]

\* What runQueued decides about an answer; ctx.Err() is read after the answer.
Decision(j, answer) ==
    LET retry == j.snapshot
        attempts == j.attempts + 1
    IN  IF answer = "ok"
        THEN [status |-> "success", attempts |-> attempts, next |-> Never]
        ELSE IF cancelled
        THEN [status |-> "pending", attempts |-> j.attempts, next |-> now]
        ELSE IF Retryable(retry, answer) /\ attempts <= retry.maxRetries
        THEN [status |-> "pending", attempts |-> attempts, next |-> now + backoff(retry, attempts)]
        ELSE [status |-> FailureStatus(answer), attempts |-> attempts, next |-> Never]

\* The request ends and runQueued decides what to save.
Answer(w, answer) ==
    /\ pc[w] = "sending"
    /\ answer = "canceled" => cancelled
    /\ result' = [result EXCEPT ![w] = Decision(job[w], answer)]
    /\ refusals' = [refusals EXCEPT ![job[w].id] =
                      IF answer \in {"server_error", "timeout"} THEN @ + 1 ELSE @]
    /\ pc' = [pc EXCEPT ![w] = "finish"]
    /\ UNCHANGED <<tables, now, handlers, process, job, sends, lost, faults>>

\* runQueued saves the result (with a context that is never cancelled) and
\* returns to the loop.  After a storage failure the row stays in progress.
SaveResult(w) ==
    /\ pc[w] = "finish"
    /\ \/ /\ FinishDelivery(job[w], result[w])
          /\ UNCHANGED <<lost, faults>>
       \/ /\ faults < MaxFaults
          /\ faults' = faults + 1
          /\ lost' = lost \cup {job[w].id}
          /\ UNCHANGED tables
    /\ pc' = [pc EXCEPT ![w] = "loop"]
    /\ job' = [job EXCEPT ![w] = NoJob]
    /\ result' = [result EXCEPT ![w] = NoResult]
    /\ UNCHANGED <<now, handlers, process, sends, refusals>>
-----------------------------------------------------------------------------
(* The process and the clock.                                              *)

\* Dispatcher.StopQueue, on the signal that ends the process; the servers that
\* run the handlers are shut down later.
StopQueue ==
    /\ phase = "running"
    /\ ~stop
    /\ restarts < MaxRestarts
    /\ stop' = TRUE
    /\ UNCHANGED <<tables, now, handlers, phase, cancelled, restarts, pool, history>>

\* Faulty variant: stops waiting for the grace period without cancelling.
GraceExpires_NoCancel ==
    /\ phase = "running"
    /\ stop
    /\ ~cancelled
    /\ UNCHANGED vars

\* Dispatcher.Shutdown: its context expires before the workers are done.
GraceExpires ==
    /\ phase = "running"
    /\ stop
    /\ ~cancelled
    /\ cancelled' = TRUE
    /\ UNCHANGED <<tables, now, handlers, phase, stop, restarts, pool, history>>

\* q.done is closed, Shutdown returns, the process ends; handlers end with it.
Exit ==
    /\ phase = "running"
    /\ stop
    /\ \A w \in Workers : pc[w] = "exited"
    /\ phase' = "stopped"
    /\ handlers' = {}
    /\ UNCHANGED <<tables, now, stop, cancelled, restarts, pool, history>>

\* The process dies between any two steps; only the tables survive.
Crash ==
    /\ phase = "running"
    /\ restarts < MaxRestarts
    /\ phase' = "crashed"
    /\ handlers' = {}
    /\ pc' = [w \in Workers |-> "exited"]
    /\ job' = [w \in Workers |-> NoJob]
    /\ result' = [w \in Workers |-> NoResult]
    /\ UNCHANGED <<tables, now, stop, cancelled, restarts, history>>

\* Dispatcher.StartQueue: RecoverDeliveries, then the workers.
StartQueue ==
    /\ phase # "running"
    /\ deliveries' = RecoveredRows
    /\ phase' = "running"
    /\ stop' = FALSE
    /\ cancelled' = FALSE
    /\ restarts' = restarts + 1
    /\ pc' = [w \in Workers |-> "loop"]
    /\ lost' = {}
    /\ UNCHANGED <<emails, seen, issued, lastBatch, now, handlers, job, result, sends, refusals, faults>>

\* Time passes; it matters only while some row waits for its time.
Tick ==
    /\ \E d \in DOMAIN deliveries :
         deliveries[d].status = "pending" /\ deliveries[d].due > now
    /\ now' = now + 1
    /\ UNCHANGED <<tables, handlers, process, pool, history>>
-----------------------------------------------------------------------------
Init ==
    /\ emails = [e \in {} |-> {}]
    /\ deliveries = [d \in {} |-> {}]
    /\ seen = {}
    /\ issued = {}
    /\ lastBatch = NoBatch
    /\ now = 0
    /\ handlers = {}
    /\ phase = "running"
    /\ stop = FALSE
    /\ cancelled = FALSE
    /\ pc = [w \in Workers |-> "loop"]
    /\ job = [w \in Workers |-> NoJob]
    /\ result = [w \in Workers |-> NoResult]
    /\ sends = [d \in Deliveries |-> 0]
    /\ refusals = [d \in Deliveries |-> 0]
    /\ lost = {}
    /\ restarts = 0
    /\ faults = 0

\* Every step a worker takes by itself; Answer depends on the receiver.
WorkerStep(w) ==
    \/ CheckStop(w)
    \/ ClaimDelivery(w)
    \/ ClaimNothing(w)
    \/ Wait(w)
    \/ Release(w)
    \/ PrepareFails(w)
    \/ Send(w)
    \/ SaveResult(w)

Environment ==
    \/ \E e \in Emails, s \in {"received", "rejected"} : SaveEmail(e, s)
    \/ \E e \in Emails, D \in SUBSET Deliveries : \E policy \in [D -> RetryConfigs] :
         HandlerEnqueue(e, D, policy) \/ Replay(e, D, policy)
    \/ \E e \in Emails : HandlerDrop(e) \/ HandlerFails(e) \/ ReplayDrop(e)
    \/ \E E \in SUBSET Emails : DeleteByUser(E) \/ CleanupExpired(E)

Lifecycle == StopQueue \/ GraceExpires \/ Exit \/ Crash \/ StartQueue \/ Tick

Next ==
    \/ \E w \in Workers : WorkerStep(w)
    \/ \E w \in Workers, answer \in Answers : Answer(w, answer)
    \/ Environment
    \/ Lifecycle

Spec == Init /\ [][Next]_vars
-----------------------------------------------------------------------------
(* Fairness.                                                               *)

\* Goroutines are scheduled, database calls return, net/http aborts a request
\* whose context is cancelled, and the timer of Shutdown's context fires.
SchedulerFairness ==
    /\ \A w \in Workers : WF_vars(WorkerStep(w))
    /\ \A w \in Workers : WF_vars(cancelled /\ \E answer \in Answers : Answer(w, answer))
    /\ WF_vars(GraceExpires)
    /\ WF_vars(Exit)

\* With a positive retry.timeout every request ends; time passes; a service
\* manager starts the process again after it ended.
ServiceFairness ==
    /\ \A w \in Workers : WF_vars(\E answer \in Answers : Answer(w, answer))
    /\ WF_vars(Tick)
    /\ WF_vars(StartQueue)

SchedulerSpec == Spec /\ SchedulerFairness
-----------------------------------------------------------------------------
(* Properties.                                                             *)

TableTypes ==
    /\ DOMAIN emails \subseteq seen
    /\ seen \subseteq Emails
    /\ emails \in [DOMAIN emails -> [status: EmailStatuses, batch: Nat]]
    /\ DOMAIN deliveries \subseteq issued
    /\ issued \subseteq Deliveries
    /\ deliveries \in [DOMAIN deliveries -> Rows]
    /\ lastBatch \in Nat

PoolTypes ==
    /\ pc \in [Workers -> {"loop", "claim", "claimed", "sending", "finish", "wait", "exited"}]
    /\ job \in [Workers -> Jobs \cup {NoJob}]
    /\ result \in [Workers -> Results \cup {NoResult}]
    /\ \A w \in Workers : job[w] # NoJob <=> pc[w] \in {"claimed", "sending", "finish"}
    /\ \A w \in Workers : result[w] # NoResult <=> pc[w] = "finish"
    /\ \A w \in Workers : pc[w] = "sending" => job[w].snapshot # NoSnapshot
    /\ phase # "running" => \A w \in Workers : pc[w] = "exited"

ProcessTypes ==
    /\ now \in Nat
    /\ handlers \subseteq Emails
    /\ phase \in {"running", "stopped", "crashed"}
    /\ stop \in BOOLEAN
    /\ cancelled \in BOOLEAN
    /\ restarts \in Nat
    /\ faults \in 0..MaxFaults
    /\ sends \in [Deliveries -> Nat]
    /\ refusals \in [Deliveries -> Nat]
    /\ lost \subseteq Deliveries

\* The tables, the workers and the process have the types the code declares; a
\* worker holds a row exactly between ClaimDelivery and FinishDelivery, and exists
\* only while the process runs.
TypeOK == TableTypes /\ PoolTypes /\ ProcessTypes

\* Two workers never hold the same row, through crashes, recovery and deletions
\* (ClaimDelivery: "workers cannot send the same row").
ExclusiveClaim ==
    \A v, w \in Workers :
        (v # w /\ job[v] # NoJob /\ job[w] # NoJob) => job[v].id # job[w].id

\* A row is in progress only while a worker holds it, or after this process failed
\* to save its result: a clean shutdown leaves nothing in progress (Shutdown
\* "waits for their state to be safely persisted").
InProgressIsHeld ==
    phase # "crashed" =>
        \A d \in DOMAIN deliveries :
            deliveries[d].status = "in_progress" =>
                d \in lost \/ \E w \in Workers : job[w] # NoJob /\ job[w].id = d

\* "An email stays Received until all queued deliveries finish": an unfinished
\* delivery of any batch keeps its email, and keeps it received.
ReceivedUntilFinished ==
    \A d \in DOMAIN deliveries :
        deliveries[d].status \in Unfinished =>
            /\ deliveries[d].email \in DOMAIN emails
            /\ emails[deliveries[d].email].status = "received"

\* The rows of the latest batch of an email.
LatestBatch(e) == {d \in DOMAIN deliveries : deliveries[d].batch = emails[e].batch}

Succeeded(d) == deliveries[d].status = "success"

\* The status of an email is true of its latest batch; one other than received
\* means that no delivery of any batch is unfinished.
TellsOutcome(e) ==
    LET s == emails[e].status
    IN  /\ s = "delivered" => LatestBatch(e) # {} /\ \A d \in LatestBatch(e) : Succeeded(d)
        /\ s = "partial_failure" => \E d, x \in LatestBatch(e) : Succeeded(d) /\ ~Succeeded(x)
        /\ s = "failed" => LatestBatch(e) # {} /\ \A d \in LatestBatch(e) : ~Succeeded(d)
        /\ s # "received" => UnfinishedOf(deliveries, e) = {}
        /\ (s = "received" /\ emails[e].batch # NoBatch) => UnfinishedOf(deliveries, e) # {}

\* "The most recent batch determines the final email status after all work
\* finishes": what the list of emails shows is true, through overlapping replays,
\* failures and crashes.
StatusTellsOutcome == \A e \in DOMAIN emails : TellsOutcome(e)

\* Work that is not finished can always be sent again: it keeps its snapshot and
\* has a time at which it is due.
UnfinishedIsScheduled ==
    \A d \in DOMAIN deliveries :
        deliveries[d].status \in Unfinished =>
            deliveries[d].snapshot # NoSnapshot /\ deliveries[d].due # Never

\* At-least-once delivery has a ceiling: a receiver sees at most 1 + max_retries
\* requests for a delivery, and one more for every time the process was restarted.
SendsBounded ==
    \A w \in Workers :
        pc[w] = "sending" => sends[job[w].id] <= job[w].snapshot.maxRetries + 1 + restarts

\* A delivery is given up as failed only after the receiver itself failed
\* 1 + max_retries times, or timed out when timeouts are not retried: a shutdown
\* never consumes a retry.
GivenUpIsEarned ==
    [][\A d \in DOMAIN deliveries \cap DOMAIN deliveries' :
         (deliveries[d].status # "failed" /\ deliveries'[d].status = "failed") =>
            \/ refusals[d] > deliveries[d].snapshot.maxRetries
            \/ refusals[d] > 0 /\ ~deliveries[d].snapshot.retryOnTimeout]_vars

\* A finished delivery keeps its result and is not sent again, and a deleted one
\* does not come back, whatever a worker that still holds it does.
SettledForGood ==
    [][\A d \in issued :
         /\ d \notin DOMAIN deliveries => d \notin DOMAIN deliveries'
         /\ (d \in DOMAIN deliveries /\ deliveries[d].status \in Final) =>
              /\ d \in DOMAIN deliveries' => deliveries'[d] = deliveries[d]
              /\ sends'[d] = sends[d]]_vars

\* "Accepted and queued": an email that is shown as received is being handled or
\* has an unfinished delivery.  The code does not keep this: see the README.
ReceivedIsQueued ==
    \A e \in DOMAIN emails :
        emails[e].status = "received" => e \in handlers \/ UnfinishedOf(deliveries, e) # {}

-----------------------------------------------------------------------------
(* The inductive invariant behind the invariants above.                    *)

\* A held row that still exists is in progress and as the worker read it.
HeldIsCurrent ==
    \A w \in Workers :
        job[w] # NoJob =>
            /\ job[w].id \in issued \ lost
            /\ job[w].id \in DOMAIN deliveries =>
                 /\ deliveries[job[w].id].status = "in_progress"
                 /\ deliveries[job[w].id].email = job[w].email
                 /\ deliveries[job[w].id].attempts = job[w].attempts
                 /\ deliveries[job[w].id].snapshot = job[w].snapshot

\* A row whose result was lost stays in progress, so that nobody claims it.
LostIsInProgress ==
    \A d \in lost :
        /\ d \in issued
        /\ d \in DOMAIN deliveries => deliveries[d].status = "in_progress"

\* A result is final exactly when it has no next attempt.
ResultIsDecided ==
    \A w \in Workers :
        result[w] # NoResult =>
            /\ result[w].status \in {"pending"} \cup Final
            /\ result[w].next = Never <=> result[w].status \in Final

\* Who holds what.
ClaimInv ==
    /\ ExclusiveClaim
    /\ HeldIsCurrent
    /\ LostIsInProgress
    /\ ResultIsDecided
    /\ UnfinishedIsScheduled
    /\ InProgressIsHeld

\* A delivery belongs to an email that exists and to a batch of that email alone,
\* not later than the email's latest batch, which is not empty.
BatchesAreOwned ==
    /\ \A d \in DOMAIN deliveries :
         /\ deliveries[d].email \in DOMAIN emails
         /\ deliveries[d].batch \in 1..emails[deliveries[d].email].batch
    /\ \A d, x \in DOMAIN deliveries :
         deliveries[d].batch = deliveries[x].batch => deliveries[d].email = deliveries[x].email
    /\ \A e \in DOMAIN emails :
         /\ emails[e].batch \in 0..lastBatch
         /\ emails[e].batch # NoBatch =>
              \E d \in DOMAIN deliveries :
                 deliveries[d].batch = emails[e].batch /\ deliveries[d].email = e

\* What the tables say about emails.
StatusInv ==
    /\ BatchesAreOwned
    /\ ReceivedUntilFinished
    /\ StatusTellsOutcome

\* A held row disappears only together with its email.
HeldHasEmail ==
    \A w \in Workers :
        job[w] # NoJob =>
            /\ job[w].email \in seen
            /\ job[w].email \in DOMAIN emails => job[w].id \in DOMAIN deliveries

\* How many requests may have been sent beyond the attempts on record while nobody
\* is sending: one for each earlier life of the process, and one for this life once
\* its requests are cancelled or it crashed.
Slack == restarts + IF cancelled \/ phase = "crashed" THEN 1 ELSE 0

\* The attempts on record account for the requests: in the rows,
RowsAccount ==
    \A d \in DOMAIN deliveries :
        deliveries[d].status \in Unfinished =>
            /\ deliveries[d].attempts <= deliveries[d].snapshot.maxRetries
            /\ deliveries[d].attempts <= refusals[d]
            /\ deliveries[d].status = "pending" => sends[d] <= deliveries[d].attempts + Slack
            /\ sends[d] <= deliveries[d].attempts + restarts + 1

\* in the jobs the workers hold,
JobsAccount ==
    \A w \in Workers :
        job[w] # NoJob =>
            /\ job[w].snapshot \in RetryConfigs
            /\ job[w].attempts <= job[w].snapshot.maxRetries
            /\ job[w].attempts <= refusals[job[w].id]
            /\ pc[w] = "claimed" => sends[job[w].id] <= job[w].attempts + Slack
            /\ sends[job[w].id] <= job[w].attempts + restarts + 1

\* and in the results they are about to save.
ResultsAccount ==
    \A w \in Workers :
        result[w] # NoResult =>
            /\ result[w].status = "pending" =>
                 /\ result[w].attempts <= job[w].snapshot.maxRetries
                 /\ result[w].attempts <= refusals[job[w].id]
                 /\ sends[job[w].id] <= result[w].attempts + Slack
            /\ result[w].status = "failed" =>
                 \/ refusals[job[w].id] > job[w].snapshot.maxRetries
                 \/ refusals[job[w].id] > 0 /\ ~job[w].snapshot.retryOnTimeout

SendInv ==
    /\ cancelled => stop
    /\ \A d \in Deliveries \ issued : sends[d] = 0
    /\ RowsAccount
    /\ JobsAccount
    /\ ResultsAccount

QueueInv == TypeOK /\ ClaimInv /\ StatusInv /\ HeldHasEmail /\ SendInv
-----------------------------------------------------------------------------
(* Refinement and progress.                                                *)

\* What the ledger knows of the rows: the outcome, not the way to it.
LedgerOf(rows) ==
    [d \in DOMAIN rows |->
       [outcome |-> IF rows[d].status \in Unfinished THEN "open" ELSE rows[d].status,
        email |-> rows[d].email,
        batch |-> rows[d].batch]]

Ledger == INSTANCE DeliveryLedger WITH mail <- emails, ledger <- LedgerOf(deliveries)

\* Every behaviour of the queue is, in what the tables say about outcomes and
\* email statuses, a behaviour of the ledger: claims, attempts, retries, crashes,
\* recoveries and storage failures are invisible.
ImplementsLedger == Ledger!LSpec

\* When receivers answer and the process is started again, every delivery gets a
\* final result, or is deleted with its email, unless the process failed to save its
\* result and has not been restarted since.
EveryDeliverySettles ==
    ServiceFairness =>
        \A d \in Deliveries :
            (d \in DOMAIN deliveries /\ deliveries[d].status \in Unfinished) ~>
                (d \in DOMAIN deliveries => deliveries[d].status \in Final \/ d \in lost)

\* Shutdown returns, even when a receiver never answers.
ShutdownTerminates == (phase = "running" /\ stop) ~> (phase # "running")
=============================================================================
