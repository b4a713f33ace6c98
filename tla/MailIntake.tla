----------------------------- MODULE MailIntake -----------------------------
(***************************************************************************)
(* How mail comes in and how it goes: the SMTP session                     *)
(* (internal/smtp/server.go), the handlers that store an accepted or       *)
(* rejected email, its raw file and its deliveries (cmd/mailrelay/main.go),*)
(* and the ways to delete emails and files: one by one and all at once in  *)
(* the web interface (internal/webui/handler.go), and the hourly cleanup   *)
(* (cmd/mailrelay/main.go). Database calls and file operations are one     *)
(* action each; what happens between them is left to the scheduler.        *)
(*                                                                         *)
(* go-smtp is external: it calls Rcpt after Mail, Data after Rcpt, Mail at *)
(* any time before Data, and Reset after RSET and after every Data.        *)
(* Clients are external: they send a message again until it is answered by *)
(* 250 or 550.                                                             *)
(*                                                                         *)
(* An email is numbered by the DATA command that brought it (a uuid in the *)
(* code). Its status is reduced to whether deliveries are unfinished; how  *)
(* these end is the subject of DeliveryQueue. STARTTLS, the checks of the  *)
(* sender (AuthCheck) and the parser are reduced to their verdict.         *)
(***************************************************************************)
EXTENDS Naturals, FiniteSets

CONSTANTS
    Sessions, Messages, Recipients,
    AllowedRecipients,   \* those that matchRecipient accepts
    NoMessage,
    MaxSends,            \* bound on DATA commands
    MaxMishaps,          \* bound on failing database and file operations, replies
                         \* that do not reach the client, signals and crashes
    MaxReplays           \* bound on replays

ASSUME IntakeAssumption ==
    /\ NoMessage \notin Messages
    /\ AllowedRecipients \subseteq Recipients
    /\ MaxSends \in Nat /\ MaxMishaps \in Nat /\ MaxReplays \in Nat

VARIABLES
    phase,     \* the process: "running", "stopping" after a signal, "down"
    session,   \* of each session: its next step, its envelope, its email, its reply
    emails,    \* table emails: number -> [from, to, unfinished]
    files,     \* numbers with a raw file
    deleting,  \* handleDelete: numbers whose file is to be removed
    cleaning,  \* cleanupOnce: numbers whose file is to be removed
    clearing,  \* handleDeleteAll: its step and the numbers it listed
    sent,      \* number -> message
    named,     \* number -> recipients accepted on its session since the last Reset
    done,      \* messages whose client got 250 or 550
    log,       \* what happened to each number
    mishaps, replays

vars == <<phase, session, emails, files, deleting, cleaning, clearing, sent, named, done, log,
          mishaps, replays>>

Numbers == DOMAIN sent
Idle == [pc |-> "idle", from |-> NoMessage, to |-> {}, named |-> {}, id |-> 0, code |-> 0]

Init ==
    /\ phase = "running"
    /\ session = [s \in Sessions |-> Idle]
    /\ emails = <<>>
    /\ files = {}
    /\ deleting = {} /\ cleaning = {}
    /\ clearing = [pc |-> "idle", ids |-> {}]
    /\ sent = <<>> /\ named = <<>>
    /\ done = {}
    /\ log = [n \in 1..MaxSends |-> {}]
    /\ mishaps = 0 /\ replays = 0

Up == phase # "down"

\* Something goes wrong. Calls with the handlers' context also fail after a signal,
\* which cancels it.
Fault == mishaps < MaxMishaps /\ mishaps' = mishaps + 1
ContextFault == \/ phase = "stopping" /\ UNCHANGED mishaps
                \/ Fault

Note(ids, what) == log' = [n \in DOMAIN log |-> IF n \in ids THEN log[n] \cup {what} ELSE log[n]]
Queued == {n \in DOMAIN log : "queued" \in log[n]}
Step(s, pc) == session' = [session EXCEPT ![s].pc = pc]
Answer(s, code) == session' = [session EXCEPT ![s].pc = "reply", ![s].code = code]

stores == <<emails, files>>
deleters == <<deleting, cleaning, clearing>>
clients == <<sent, named, done, replays>>
-----------------------------------------------------------------------------
\* session.Mail. A second MAIL replaces the sender and keeps the recipients. A
\* client does not begin a message that it is just sending.
Mail(s, m) ==
    /\ Up
    /\ session[s].pc \in {"idle", "envelope"}
    /\ m \notin done
    /\ \A x \in Sessions : session[x].from # m
    /\ session' = [session EXCEPT ![s].pc = "envelope", ![s].from = m]
    /\ UNCHANGED <<phase, stores, deleters, clients, log, mishaps>>

\* session.Rcpt. A recipient that is not allowed is answered by 550 and not kept.
Rcpt(s, r) ==
    /\ Up
    /\ session[s].pc = "envelope"
    /\ r \in AllowedRecipients
    /\ session' = [session EXCEPT ![s].to = @ \cup {r}, ![s].named = @ \cup {r}]
    /\ UNCHANGED <<phase, stores, deleters, clients, log, mishaps>>

\* Faulty variant: the recipients are kept.
Reset_Recipients(s) == session' = [session EXCEPT ![s] = [Idle EXCEPT !.to = session[s].to]]

\* session.Reset.
Reset(s) == session' = [session EXCEPT ![s] = Idle]

Rset(s) ==
    /\ Up
    /\ session[s].pc = "envelope"
    /\ Reset(s)
    /\ UNCHANGED <<phase, stores, deleters, clients, log, mishaps>>

\* session.Data, up to its first call of a handler: the message is to be stored,
\* is rejected by an enforced check, or cannot be read or parsed.
Data(s) ==
    /\ Up
    /\ session[s].pc = "envelope"
    /\ session[s].to # {}
    /\ Cardinality(Numbers) < MaxSends
    /\ LET n == Cardinality(Numbers) + 1
       IN  /\ sent' = [k \in 1..n |-> IF k = n THEN session[s].from ELSE sent[k]]
           /\ named' = [k \in 1..n |-> IF k = n THEN session[s].named ELSE named[k]]
           /\ \/ \E pc \in {"save", "save_rejected"} :
                   session' = [session EXCEPT ![s].pc = pc, ![s].id = n]
              \/ session' = [session EXCEPT ![s].pc = "reply", ![s].id = n, ![s].code = 550]
    /\ UNCHANGED <<phase, stores, deleters, done, replays, log, mishaps>>

Inserted(s) ==
    [n \in DOMAIN emails \cup {session[s].id} |->
        IF n = session[s].id
        THEN [from |-> session[s].from, to |-> session[s].to, unfinished |-> FALSE]
        ELSE emails[n]]

\* SaveEmail in buildHandler.
SaveEmail(s) ==
    /\ Up
    /\ session[s].pc = "save"
    /\ \/ /\ emails' = Inserted(s)
          /\ Step(s, "file")
          /\ phase = "running" /\ UNCHANGED mishaps
       \/ /\ ContextFault
          /\ Answer(s, 451)
          /\ UNCHANGED emails
    /\ UNCHANGED <<phase, files, deleters, clients, log>>

\* SaveEmail in buildRejectionHandler: a failure is logged and the handler goes on.
SaveRejected(s) ==
    /\ Up
    /\ session[s].pc = "save_rejected"
    /\ \/ emails' = Inserted(s) /\ phase = "running" /\ UNCHANGED mishaps
       \/ UNCHANGED emails /\ ContextFault
    /\ Step(s, "file_rejected")
    /\ UNCHANGED <<phase, files, deleters, clients, log>>

\* os.WriteFile; a failure is logged and the handler goes on.
WriteFile(s) ==
    /\ Up
    /\ session[s].pc \in {"file", "file_rejected"}
    /\ \/ /\ files' = files \cup {session[s].id}
          /\ Note({session[s].id}, IF session[s].id \in DOMAIN emails THEN "filed" ELSE "leaked")
          /\ UNCHANGED mishaps
       \/ UNCHANGED <<files, log>> /\ Fault
    /\ IF session[s].pc = "file" THEN Step(s, "route") ELSE Answer(s, 550)
    /\ UNCHANGED <<phase, emails, deleters, clients>>

\* No rule matches. That the update of the status fails is only logged.
Drop(s) ==
    /\ Up
    /\ session[s].pc = "route"
    /\ Answer(s, 250)
    /\ Note({session[s].id}, "dropped")
    /\ UNCHANGED <<phase, stores, deleters, clients, mishaps>>

\* Faulty variant: the deliveries are committed and an error is returned.
Enqueue_Error(s) ==
    /\ Up
    /\ session[s].pc = "route"
    /\ session[s].id \in DOMAIN emails
    /\ emails' = [emails EXCEPT ![session[s].id].unfinished = TRUE]
    /\ Answer(s, 451)
    /\ Note({session[s].id}, "queued")
    /\ UNCHANGED <<phase, files, deleters, clients, mishaps>>

\* Dispatcher.Enqueue commits.
Enqueue(s) ==
    /\ phase = "running"
    /\ session[s].pc = "route"
    /\ session[s].id \in DOMAIN emails
    /\ emails' = [emails EXCEPT ![session[s].id].unfinished = TRUE]
    /\ Answer(s, 250)
    /\ Note({session[s].id}, "queued")
    /\ UNCHANGED <<phase, files, deleters, clients, mishaps>>

\* Faulty variant: the failure is only logged.
EnqueueFails_Accepts(s) ==
    /\ Up
    /\ session[s].pc = "route"
    /\ \/ session[s].id \notin DOMAIN emails /\ UNCHANGED mishaps
       \/ ContextFault
    /\ Answer(s, 250)
    /\ UNCHANGED <<phase, stores, deleters, clients, log>>

\* Dispatcher.Enqueue fails: the foreign key of an email that was deleted, a
\* cancelled context, a fault.
EnqueueFails(s) ==
    /\ Up
    /\ session[s].pc = "route"
    /\ \/ session[s].id \notin DOMAIN emails /\ UNCHANGED mishaps
       \/ ContextFault
    /\ Answer(s, 451)
    /\ UNCHANGED <<phase, stores, deleters, clients, log>>

\* The reply reaches the client; go-smtp resets the session.
Reply(s) ==
    /\ Up
    /\ session[s].pc = "reply"
    /\ done' = IF session[s].code \in {250, 550} THEN done \cup {session[s].from} ELSE done
    /\ Note(IF session[s].code = 250 THEN {session[s].id} ELSE {}, "accepted")
    /\ Reset(s)
    /\ UNCHANGED <<phase, stores, deleters, sent, named, replays, mishaps>>

\* The connection breaks before the reply arrives.
LoseReply(s) ==
    /\ Up
    /\ session[s].pc = "reply"
    /\ Fault
    /\ Note({session[s].id} \cap Queued, "unheard")
    /\ Reset(s)
    /\ UNCHANGED <<phase, stores, deleters, clients>>
-----------------------------------------------------------------------------
\* The tables without some emails; deliveries go with them.
Without(ids) == [n \in DOMAIN emails \ ids |-> emails[n]]

\* Files are removed one by one; a failure is logged and the file is kept.
RemoveFiles(ids, kept) ==
    /\ kept \subseteq files
    /\ files' = files \ (ids \ kept)
    /\ IF kept = {} THEN UNCHANGED mishaps ELSE Fault

\* handleDelete: the row, then the file.
DeleteEmail(n) ==
    /\ Up
    /\ deleting = {}
    /\ n \in DOMAIN emails
    /\ emails' = Without({n})
    /\ deleting' = {n}
    /\ Note({n}, "deleted")
    /\ UNCHANGED <<phase, session, files, cleaning, clearing, clients, mishaps>>

RemoveDeleted ==
    /\ Up
    /\ deleting # {}
    /\ \E kept \in SUBSET deleting : RemoveFiles(deleting, kept) /\ Note(kept, "leaked")
    /\ deleting' = {}
    /\ UNCHANGED <<phase, session, emails, cleaning, clearing, clients>>

\* handleDeleteAll: the numbers, their files, then all rows. When the numbers
\* cannot be listed, the rows are deleted nevertheless.
ListAll ==
    /\ Up
    /\ clearing.pc = "idle"
    /\ DOMAIN emails # {}
    /\ \/ clearing' = [pc |-> "files", ids |-> DOMAIN emails] /\ UNCHANGED mishaps
       \/ clearing' = [pc |-> "rows", ids |-> {}] /\ Fault
    /\ UNCHANGED <<phase, session, stores, deleting, cleaning, clients, log>>

RemoveAllFiles ==
    /\ Up
    /\ clearing.pc = "files"
    /\ \E kept \in SUBSET clearing.ids :
         RemoveFiles(clearing.ids, kept) /\ Note((clearing.ids \cap files) \ kept, "stripped")
    /\ clearing' = [pc |-> "rows", ids |-> {}]
    /\ UNCHANGED <<phase, session, emails, deleting, cleaning, clients>>

DeleteAllEmails ==
    /\ Up
    /\ clearing.pc = "rows"
    /\ \/ /\ emails' = <<>>
          /\ log' = [n \in DOMAIN log |->
                       IF n \in DOMAIN emails
                       THEN log[n] \cup {"deleted"} \cup
                              (IF n \in files \ (deleting \cup cleaning) THEN {"leaked"} ELSE {})
                       ELSE log[n]]
          /\ UNCHANGED mishaps
       \/ UNCHANGED <<emails, log>> /\ Fault
    /\ clearing' = [pc |-> "idle", ids |-> {}]
    /\ UNCHANGED <<phase, session, files, deleting, cleaning, clients>>

\* Faulty variant: the numbers are those of the emails that have expired, also of
\* those that are kept because a replay made them unfinished again.
CleanupExpired_Listed(E) ==
    /\ phase = "running"
    /\ emails' = Without({n \in E : ~emails[n].unfinished})
    /\ cleaning' = E
    /\ UNCHANGED <<log, mishaps>>

\* CleanupExpired returns what it deleted. When it fails while it reads the numbers
\* of deleted rows, cleanupOnce leaves the files of these rows.
CleanupExpired(E) ==
    LET deleted == {n \in E : ~emails[n].unfinished}
    IN  /\ emails' = Without(deleted)
        /\ \/ phase = "running" /\ cleaning' = deleted /\ UNCHANGED <<log, mishaps>>
           \/ ContextFault /\ cleaning' = {} /\ Note(deleted \cap files, "leaked")

\* cleanupOnce: rows of expired emails, then the files.
Cleanup(E) ==
    /\ Up
    /\ cleaning = {}
    /\ CleanupExpired(E)
    /\ UNCHANGED <<phase, session, files, deleting, clearing, clients>>

\* Faulty variant: the files are left.
RemoveCleaned_None ==
    /\ Up
    /\ cleaning # {}
    /\ cleaning' = {}
    /\ UNCHANGED <<phase, session, stores, deleting, clearing, clients, log, mishaps>>

RemoveCleaned ==
    /\ Up
    /\ cleaning # {}
    /\ \E kept \in SUBSET cleaning : RemoveFiles(cleaning, kept) /\ Note(kept, "leaked")
    /\ cleaning' = {}
    /\ UNCHANGED <<phase, session, emails, deleting, clearing, clients>>

\* The queue finishes the deliveries of an email.
Finish(n) ==
    /\ Up
    /\ n \in DOMAIN emails
    /\ emails[n].unfinished
    /\ emails' = [emails EXCEPT ![n].unfinished = FALSE]
    /\ Note({n}, "finished")
    /\ UNCHANGED <<phase, session, files, deleters, clients, mishaps>>

\* handleReplay enqueues again. (Without a matching rule nothing here changes.)
Replay(n) ==
    /\ Up
    /\ n \in DOMAIN emails
    /\ replays < MaxReplays
    /\ replays' = replays + 1
    /\ emails' = [emails EXCEPT ![n].unfinished = TRUE]
    /\ UNCHANGED <<phase, session, files, deleters, sent, named, done, log, mishaps>>
-----------------------------------------------------------------------------
\* SIGTERM: Shutdown cancels the handlers' context.
Signal ==
    /\ phase = "running"
    /\ Fault
    /\ phase' = "stopping"
    /\ UNCHANGED <<session, stores, deleters, clients, log>>

\* The process ends, after a signal or by a crash. Connections break; files that
\* were to be removed stay.
Exit ==
    /\ Up
    /\ ContextFault
    /\ phase' = "down"
    /\ session' = [s \in Sessions |-> Idle]
    /\ deleting' = {} /\ cleaning' = {}
    /\ clearing' = [pc |-> "idle", ids |-> {}]
    /\ log' = [n \in DOMAIN log |->
                 log[n] \cup (IF \E s \in Sessions : session[s].id = n /\ n \in Queued THEN {"unheard"} ELSE {})
                        \cup (IF n \in deleting \cup cleaning THEN {"leaked"} ELSE {})]
    /\ UNCHANGED <<stores, clients>>

Start ==
    /\ phase = "down"
    /\ phase' = "running"
    /\ UNCHANGED <<session, stores, deleters, clients, log, mishaps>>

Smtp(s) ==
    \/ \E m \in Messages : Mail(s, m)
    \/ \E r \in Recipients : Rcpt(s, r)
    \/ Rset(s) \/ Data(s)
    \/ SaveEmail(s) \/ SaveRejected(s) \/ WriteFile(s)
    \/ Drop(s) \/ Enqueue(s) \/ EnqueueFails(s)
    \/ Reply(s) \/ LoseReply(s)

Deletion ==
    \/ \E n \in Numbers : DeleteEmail(n)
    \/ RemoveDeleted
    \/ ListAll \/ RemoveAllFiles \/ DeleteAllEmails
    \/ \E E \in SUBSET DOMAIN emails : Cleanup(E)
    \/ RemoveCleaned

Next ==
    \/ \E s \in Sessions : Smtp(s)
    \/ Deletion
    \/ \E n \in Numbers : Finish(n) \/ Replay(n)
    \/ Signal \/ Exit \/ Start

Spec == Init /\ [][Next]_vars
-----------------------------------------------------------------------------
\* An envelope is that of one transaction, although a session carries one message
\* after the other: the sender is the one that MAIL named last, the recipients are
\* all those that were accepted since the last Reset, and no others. (After a second
\* MAIL without RSET, these include the ones named before it.)
EnvelopeIsOneTransaction ==
    \A n \in DOMAIN emails :
        /\ emails[n].from = sent[n]
        /\ emails[n].to # {}
        /\ emails[n].to = named[n]

\* "250" means that the message was dropped by the rules, or that its deliveries
\* were queued and are there until they finish or somebody deletes the email.
AcceptedIsNotLost ==
    \A n \in Numbers : "accepted" \in log[n] =>
        \/ log[n] \cap {"dropped", "finished", "deleted"} # {}
        \/ n \in DOMAIN emails /\ emails[n].unfinished

\* A client sends again after 451 or when it heard nothing. A message is queued
\* once more only when the client did not hear the 250 of an earlier time.
QueuedTwiceOnlyIfUnheard ==
    \A m \in Messages :
        LET queued == {n \in Numbers : sent[n] = m /\ "queued" \in log[n]}
        IN  Cardinality({n \in queued : "unheard" \notin log[n]}) <= 1

\* The raw file stays as long as its email, unless a delete-all, which takes the
\* files first, removed it: no cleanup takes the file of an email that a replay keeps.
KeptEmailsKeepFiles ==
    \A n \in DOMAIN emails :
        "filed" \in log[n] => n \in files \/ "stripped" \in log[n]

\* Files do not outlive their emails, but for what the code leaves behind: the email
\* was deleted, or a rejected one not stored, before the handler wrote the file; it
\* arrived between the listing and the deletion of a delete-all; the process ended
\* between the deletion of a row and of its file; the file could not be removed; a
\* cleanup failed after it had deleted the row.
FilesGoWithEmails ==
    \A n \in files \ DOMAIN emails :
        n \in deleting \cup cleaning \/ "leaked" \in log[n]
=============================================================================
