--------------------------- MODULE DeliveryLedger ---------------------------
(***************************************************************************)
(* What the delivery queue promises to the rest of mailrelay, with nothing *)
(* of how it keeps the promise: no workers, no attempts, no clock, no      *)
(* process that stops, crashes or restarts.                                *)
(*                                                                         *)
(* Every delivery is published once, with the batch it belongs to, is      *)
(* settled at most once, with one outcome that never changes, and may      *)
(* disappear only with its email.  An email is "received" while any of its *)
(* deliveries is unsettled; the step that settles the last one gives it    *)
(* the verdict on its latest batch.                                        *)
(***************************************************************************)
EXTENDS Naturals

CONSTANTS
    Emails,      \* email identifiers
    Deliveries   \* delivery identifiers

VARIABLES
    mail,        \* existing emails: email id -> [status, batch]
    ledger,      \* existing deliveries: delivery id -> [outcome, email, batch]
    seen,        \* email ids ever used
    issued,      \* delivery ids ever used
    lastBatch    \* number of batches published

lvars == <<mail, ledger, seen, issued, lastBatch>>

Outcomes == {"success", "failed", "rejected", "error"}

NoBatch == 0

\* The deliveries of email e that a ledger L does not yet hold an outcome for.
Open(L, e) == {d \in DOMAIN L : L[d].email = e /\ L[d].outcome = "open"}

\* The status an email gets from the outcomes of one batch.
VerdictOn(outcomes) ==
    IF outcomes = {"success"} THEN "delivered"
    ELSE IF "success" \in outcomes THEN "partial_failure"
    ELSE "failed"

BatchOutcomes(L, b) == {L[d].outcome : d \in {x \in DOMAIN L : L[x].batch = b}}

LInit ==
    /\ mail = [e \in {} |-> {}]
    /\ ledger = [d \in {} |-> {}]
    /\ seen = {}
    /\ issued = {}
    /\ lastBatch = NoBatch

\* An email is stored, accepted or rejected by the authentication checks.
Accept(e, s) ==
    /\ e \notin seen
    /\ seen' = seen \cup {e}
    /\ mail' = [x \in DOMAIN mail \cup {e} |->
                  IF x = e THEN [status |-> s, batch |-> NoBatch] ELSE mail[x]]
    /\ UNCHANGED <<ledger, issued, lastBatch>>

\* A batch of deliveries is published for an email, which is unfinished again.
Publish(e, D) ==
    /\ e \in DOMAIN mail
    /\ D # {}
    /\ D \cap issued = {}
    /\ issued' = issued \cup D
    /\ lastBatch' = lastBatch + 1
    /\ ledger' = [d \in DOMAIN ledger \cup D |->
                    IF d \in D
                    THEN [outcome |-> "open", email |-> e, batch |-> lastBatch + 1]
                    ELSE ledger[d]]
    /\ mail' = [mail EXCEPT ![e] = [status |-> "received", batch |-> lastBatch + 1]]
    /\ UNCHANGED seen

\* The outcome of a delivery becomes known, for good.
Settle(d, o) ==
    /\ d \in DOMAIN ledger
    /\ ledger[d].outcome = "open"
    /\ ledger' = [ledger EXCEPT ![d].outcome = o]
    /\ LET e == ledger[d].email
       IN  mail' = IF Open(ledger', e) = {}
                   THEN [mail EXCEPT ![e].status = VerdictOn(BatchOutcomes(ledger', mail[e].batch))]
                   ELSE mail
    /\ UNCHANGED <<seen, issued, lastBatch>>

\* No rule matches an email with nothing open: it is dropped.
Drop(e) ==
    /\ e \in DOMAIN mail
    /\ Open(ledger, e) = {}
    /\ mail' = [mail EXCEPT ![e].status = "dropped"]
    /\ UNCHANGED <<ledger, seen, issued, lastBatch>>

\* Emails are removed, each with all of its deliveries.
Remove(E) ==
    /\ E \subseteq DOMAIN mail
    /\ mail' = [e \in DOMAIN mail \ E |-> mail[e]]
    /\ ledger' = [d \in {x \in DOMAIN ledger : ledger[x].email \notin E} |-> ledger[d]]
    /\ UNCHANGED <<seen, issued, lastBatch>>

LNext ==
    \/ \E e \in Emails, s \in {"received", "rejected"} : Accept(e, s)
    \/ \E e \in Emails, D \in SUBSET Deliveries : Publish(e, D)
    \/ \E d \in Deliveries, o \in Outcomes : Settle(d, o)
    \/ \E e \in Emails : Drop(e)
    \/ \E E \in SUBSET Emails : Remove(E)

LSpec == LInit /\ [][LNext]_lvars
=============================================================================
