-------------------------- MODULE MailIntakeProofs --------------------------
(***************************************************************************)
(* Proofs about MailIntake, for any sets of sessions, messages and         *)
(* recipients and for any bounds.                                          *)
(***************************************************************************)
EXTENDS MailIntake, FiniteSetTheorems, TLAPS

\* Steps of a session that has the number of its email.
Numbered == {"save", "save_rejected", "file", "file_rejected", "route", "reply"}

SessionSteps == {"idle", "envelope"} \cup Numbered

SessionRecords ==
    [pc : SessionSteps, from : Messages \cup {NoMessage},
     to : SUBSET AllowedRecipients, named : SUBSET AllowedRecipients,
     id : 0..MaxSends, code : {0, 250, 451, 550}]

EmailRecords ==
    [from : Messages, to : SUBSET AllowedRecipients, unfinished : BOOLEAN]

\* Numbers are given one after the other.
NumbersInv ==
    /\ \E k \in 0..MaxSends : Numbers = 1..k
    /\ DOMAIN log = 1..MaxSends

\* The types.
TypeInv ==
    /\ NumbersInv
    /\ Numbers \subseteq DOMAIN log
    /\ 0 \notin Numbers
    /\ session \in [Sessions -> SessionRecords]
    /\ sent \in [Numbers -> Messages]
    /\ DOMAIN emails \subseteq Numbers
    /\ emails \in [DOMAIN emails -> EmailRecords]
    /\ files \subseteq Numbers
    /\ deleting \subseteq Numbers
    /\ cleaning \subseteq Numbers
    /\ clearing \in [pc : {"idle", "files", "rows"}, ids : SUBSET Numbers]
    /\ done \subseteq Messages

\* Each session has a message and a number of its own, and the recipients that it
\* accepted since the last Reset.
SessionInv ==
    /\ \A s \in Sessions :
         /\ session[s].pc = "idle" => session[s] = Idle
         /\ session[s].pc # "idle" => session[s].from \in Messages
         /\ session[s].to = session[s].named
         /\ session[s].pc \notin Numbered => session[s].id = 0
         /\ session[s].pc \in Numbered =>
              /\ session[s].id \in Numbers
              /\ sent[session[s].id] = session[s].from
              /\ named[session[s].id] = session[s].to
              /\ session[s].to # {}
    /\ \A s, x \in Sessions :
         s # x => /\ session[s].from = session[x].from => session[s].from = NoMessage
                  /\ session[s].id = session[x].id => session[s].id = 0

\* An email whose handler has not stored it yet has left no trace.
Untouched(n) ==
    /\ n \notin DOMAIN emails \cup files \cup deleting \cup cleaning \cup clearing.ids
    /\ log[n] = {}

FreshInv ==
    /\ \A n \in DOMAIN log : n \notin Numbers => log[n] = {}
    /\ \A s \in Sessions :
         session[s].pc \in {"save", "save_rejected"} => Untouched(session[s].id)

\* The client was, or will be, told that this email was accepted.
Promised(n) ==
    \/ "accepted" \in log[n]
    \/ \E s \in Sessions : session[s].id = n /\ session[s].pc = "reply" /\ session[s].code = 250

PromiseInv ==
    \A n \in Numbers : Promised(n) =>
        \/ log[n] \cap {"dropped", "finished", "deleted"} # {}
        \/ n \in DOMAIN emails /\ emails[n].unfinished

\* Queued, and the client heard of it or still may.
QueuedOnce(n) == "queued" \in log[n] /\ "unheard" \notin log[n]

\* A client that heard of its queued message is done with it, one that did not
\* still waits for the reply, and there is no second time meanwhile.
QueueInv ==
    /\ \A n \in Numbers :
         QueuedOnce(n) => sent[n] \in done \/ \E s \in Sessions : session[s].id = n
    /\ \A s \in Sessions :
         /\ session[s].from \notin done
         /\ session[s].id # 0 /\ "queued" \in log[session[s].id] =>
              session[s].pc = "reply" /\ session[s].code = 250
    /\ \A n, k \in Numbers :
         QueuedOnce(n) /\ QueuedOnce(k) /\ sent[n] = sent[k] => n = k

\* Files to be removed are not those of emails that exist.
FileInv ==
    /\ (deleting \cup cleaning) \cap DOMAIN emails = {}
    /\ KeptEmailsKeepFiles
    /\ FilesGoWithEmails

\* What a step does, without EXCEPT. The session goes to its next step, ...
Moves(s, pc, code) ==
    /\ session' \in [Sessions -> SessionRecords]
    /\ session'[s].pc = pc
    /\ session'[s].from = session[s].from
    /\ session'[s].to = session[s].to /\ session'[s].named = session[s].named
    /\ session'[s].id = session[s].id /\ session'[s].code = code
    /\ \A x \in Sessions : x # s => session'[x] = session[x]

\* ... or has its number and stands before a handler or the reply, ...
Takes(s, n) ==
    /\ session' \in [Sessions -> SessionRecords]
    /\ \/ session'[s].pc \in {"save", "save_rejected"}
       \/ session'[s].pc = "reply" /\ session'[s].code = 550
    /\ session'[s].from = session[s].from
    /\ session'[s].to = session[s].to /\ session'[s].named = session[s].named
    /\ session'[s].id = n
    /\ \A x \in Sessions : x # s => session'[x] = session[x]

\* ... the deliveries of an email are queued or finished, ...
Marks(n, b) ==
    /\ DOMAIN emails' = DOMAIN emails
    /\ emails' \in [DOMAIN emails -> EmailRecords]
    /\ emails'[n].from = emails[n].from /\ emails'[n].to = emails[n].to
    /\ emails'[n].unfinished = b
    /\ \A k \in DOMAIN emails : k # n => emails'[k] = emails[k]

\* ... or the email of a session is stored.
Stores(s) ==
    /\ DOMAIN emails' = DOMAIN emails \cup {session[s].id}
    /\ emails' \in [DOMAIN emails' -> EmailRecords]
    /\ emails'[session[s].id].from = session[s].from
    /\ emails'[session[s].id].to = session[s].to
    /\ emails'[session[s].id].unfinished = FALSE
    /\ \A k \in DOMAIN emails : k # session[s].id => emails'[k] = emails[k]

\* What happened to numbers is only added to.
Adds(ids, what) ==
    /\ DOMAIN log' = DOMAIN log
    /\ \A n \in DOMAIN log :
         /\ n \in ids => log'[n] = log[n] \cup {what}
         /\ n \notin ids => log'[n] = log[n]

\* One of MAIL and RCPT.
Opens(s) ==
    /\ session' \in [Sessions -> SessionRecords]
    /\ session'[s].pc = "envelope" /\ session'[s].id = session[s].id
    /\ \/ /\ session[s].pc \in {"idle", "envelope"} /\ session'[s].from \in Messages \ done
          /\ \A x \in Sessions : session[x].from # session'[s].from
          /\ session'[s].to = session[s].to /\ session'[s].named = session[s].named
       \/ /\ session[s].pc = "envelope" /\ session'[s].from = session[s].from
          /\ \E r \in AllowedRecipients :
               /\ session'[s].to = session[s].to \cup {r}
               /\ session'[s].named = session[s].named \cup {r}
    /\ \A x \in Sessions : x # s => session'[x] = session[x]
    /\ UNCHANGED <<emails, files, deleting, cleaning, clearing, sent, named, done, log>>

\* DATA, which gives the next number; nothing that was sent before changes.
Sends(s, n) ==
    /\ session[s].pc = "envelope" /\ session[s].to # {}
    /\ n \notin Numbers
    /\ Numbers' = Numbers \cup {n}
    /\ Numbers' = 1..n
    /\ sent' \in [Numbers' -> Messages]
    /\ sent'[n] = session[s].from /\ named'[n] = session[s].named
    /\ \A k \in Numbers : sent'[k] = sent[k] /\ named'[k] = named[k]
    /\ Takes(s, n)
    /\ UNCHANGED <<emails, files, deleting, cleaning, clearing, done, log>>

\* SaveEmail of either handler, and its failure, ...
Saves(s) ==
    /\ session[s].pc \in {"save", "save_rejected"}
    /\ Stores(s)
    /\ \E pc \in {"file", "file_rejected"} : Moves(s, pc, session[s].code)
    /\ UNCHANGED <<files, deleting, cleaning, clearing, sent, named, done, log>>

SavesNothing(s) ==
    /\ session[s].pc \in {"save", "save_rejected"}
    /\ Moves(s, "file_rejected", session[s].code) \/ Moves(s, "reply", 451)
    /\ UNCHANGED <<emails, files, deleting, cleaning, clearing, sent, named, done, log>>

\* ... the raw file, and its failure, ...
Files(s) ==
    /\ session[s].pc \in {"file", "file_rejected"}
    /\ Moves(s, "route", session[s].code) \/ Moves(s, "reply", 550)
    /\ files' = files \cup {session[s].id}
    /\ \/ session[s].id \in DOMAIN emails /\ Adds({session[s].id}, "filed")
       \/ session[s].id \notin DOMAIN emails /\ Adds({session[s].id}, "leaked")
    /\ UNCHANGED <<emails, deleting, cleaning, clearing, sent, named, done>>

FilesNothing(s) ==
    /\ session[s].pc \in {"file", "file_rejected"}
    /\ Moves(s, "route", session[s].code) \/ Moves(s, "reply", 550)
    /\ UNCHANGED <<emails, files, deleting, cleaning, clearing, sent, named, done, log>>

\* ... and what the rules make of it: nothing, deliveries, or an error.
Drops(s) ==
    /\ session[s].pc = "route"
    /\ Moves(s, "reply", 250) /\ Adds({session[s].id}, "dropped")
    /\ UNCHANGED <<emails, files, deleting, cleaning, clearing, sent, named, done>>

Queues(s) ==
    /\ session[s].pc = "route"
    /\ Moves(s, "reply", 250) /\ Adds({session[s].id}, "queued")
    /\ session[s].id \in DOMAIN emails /\ Marks(session[s].id, TRUE)
    /\ UNCHANGED <<files, deleting, cleaning, clearing, sent, named, done>>

QueuesNothing(s) ==
    /\ session[s].pc = "route"
    /\ Moves(s, "reply", 451)
    /\ UNCHANGED <<emails, files, deleting, cleaning, clearing, sent, named, done, log>>

\* The end of a transaction: RSET, or a reply that is no 250 and is heard, ...
Ends(s) ==
    /\ session' \in [Sessions -> SessionRecords]
    /\ session'[s] = Idle
    /\ \A x \in Sessions : x # s => session'[x] = session[x]
    /\ UNCHANGED <<emails, files, deleting, cleaning, clearing, sent, named>>

Resets(s) ==
    /\ Ends(s)
    /\ \/ session[s].pc = "envelope" /\ UNCHANGED done
       \/ /\ session[s].pc = "reply" /\ session[s].code # 250
          /\ done' \in {done, done \cup {session[s].from}}
    /\ Adds({}, "accepted")

\* ... a 250, and a reply that is lost.
Accepts(s) ==
    /\ Ends(s)
    /\ session[s].pc = "reply" /\ session[s].code = 250
    /\ done' = done \cup {session[s].from}
    /\ Adds({session[s].id}, "accepted")

Loses(s) ==
    /\ Ends(s)
    /\ session[s].pc = "reply"
    /\ \/ session[s].id \in Queued /\ Adds({session[s].id}, "unheard")
       \/ session[s].id \notin Queued /\ Adds({}, "unheard")
    /\ UNCHANGED done

\* Rows are deleted.
Deletes(ids) ==
    /\ ids \subseteq DOMAIN emails
    /\ DOMAIN emails' = DOMAIN emails \ ids
    /\ emails' \in [DOMAIN emails' -> EmailRecords]
    /\ \A k \in DOMAIN emails' : emails'[k] = emails[k]

\* handleDelete, ...
DeletesOne(n) ==
    /\ Deletes({n}) /\ Adds({n}, "deleted")
    /\ deleting = {} /\ deleting' = {n}
    /\ UNCHANGED <<session, files, cleaning, clearing, sent, named, done>>

\* ... the rows of handleDeleteAll, ...
DeletesAll ==
    /\ Deletes(DOMAIN emails)
    /\ DOMAIN log' = DOMAIN log
    /\ \A n \in DOMAIN log :
         /\ n \notin DOMAIN emails => log'[n] = log[n]
         /\ n \in DOMAIN emails => log'[n] \in
               {log[n] \cup {"deleted"}, log[n] \cup {"deleted", "leaked"}}
         /\ n \in DOMAIN emails /\ n \in files \ (deleting \cup cleaning) => "leaked" \in log'[n]
    /\ clearing' = [pc |-> "idle", ids |-> {}]
    /\ UNCHANGED <<session, files, deleting, cleaning, sent, named, done>>

DeletesNothing ==
    /\ clearing' = [pc |-> "idle", ids |-> {}]
    /\ UNCHANGED <<session, emails, files, deleting, cleaning, sent, named, done, log>>

\* ... and the rows of cleanupOnce.
Cleans(ids) ==
    /\ Deletes(ids)
    /\ \A n \in ids : ~emails[n].unfinished
    /\ cleaning = {} /\ cleaning' = ids
    /\ UNCHANGED <<session, files, deleting, clearing, sent, named, done, log>>

\* A cleanup that fails when the rows are deleted leaves their files.
CleansPartly(ids) ==
    /\ Deletes(ids)
    /\ \A n \in ids : ~emails[n].unfinished
    /\ cleaning = {} /\ cleaning' = {}
    /\ Adds(ids \cap files, "leaked")
    /\ UNCHANGED <<session, files, deleting, clearing, sent, named, done>>

\* The files of deleted rows are removed, except those that cannot be, ...
Removes(kept) ==
    /\ \/ /\ kept \subseteq deleting /\ files' = files \ (deleting \ kept)
          /\ deleting' = {} /\ UNCHANGED cleaning
       \/ /\ kept \subseteq cleaning /\ files' = files \ (cleaning \ kept)
          /\ cleaning' = {} /\ UNCHANGED deleting
    /\ Adds(kept, "leaked")
    /\ UNCHANGED <<session, emails, clearing, sent, named, done>>

\* ... and those of the emails that handleDeleteAll listed.
Strips(kept) ==
    /\ kept \subseteq clearing.ids
    /\ files' = files \ (clearing.ids \ kept)
    /\ Adds((clearing.ids \cap files) \ kept, "stripped")
    /\ clearing' = [pc |-> "rows", ids |-> {}]
    /\ UNCHANGED <<session, emails, deleting, cleaning, sent, named, done>>

\* The end of an email's deliveries, and a replay.
Finishes(n) ==
    /\ n \in DOMAIN emails
    /\ Marks(n, FALSE) /\ Adds({n}, "finished")
    /\ UNCHANGED <<session, files, deleting, cleaning, clearing, sent, named, done>>

Replays(n) ==
    /\ n \in DOMAIN emails
    /\ Marks(n, TRUE)
    /\ UNCHANGED <<session, files, deleting, cleaning, clearing, sent, named, done, log>>

\* The session after its program counter, or its reply, was set.
LEMMA StepFields ==
    ASSUME session \in [Sessions -> SessionRecords], NEW s \in Sessions,
           NEW pc \in SessionSteps, Step(s, pc)
    PROVE  Moves(s, pc, session[s].code)
    BY DEF Step, Moves, SessionRecords

LEMMA AnswerFields ==
    ASSUME session \in [Sessions -> SessionRecords], NEW s \in Sessions,
           NEW code \in {250, 451, 550}, Answer(s, code)
    PROVE  Moves(s, "reply", code)
<1>1. /\ session'[s].pc = "reply"
      /\ session'[s].from = session[s].from
      /\ session'[s].to = session[s].to /\ session'[s].named = session[s].named
      /\ session'[s].id = session[s].id /\ session'[s].code = code
    BY DEF Answer, SessionRecords
<1>2. session' \in [Sessions -> SessionRecords]
  <2> DEFINE q == [session EXCEPT ![s].pc = "reply"]
  <2>1. "reply" \in SessionSteps
    BY DEF SessionSteps, Numbered
  <2>2. q \in [Sessions -> SessionRecords]
    BY <2>1 DEF SessionRecords
  <2>3. session' = [q EXCEPT ![s].code = code]
    BY DEF Answer
  <2> HIDE DEF q
  <2> QED
    BY <2>2, <2>3 DEF SessionRecords
<1>3. \A x \in Sessions : x # s => session'[x] = session[x]
    BY DEF Answer
<1> QED
    BY <1>1, <1>2, <1>3 DEF Moves

LEMMA IdleFields ==
    /\ Idle \in SessionRecords
    /\ Idle.pc = "idle" /\ Idle.from = NoMessage /\ Idle.to = {} /\ Idle.named = {}
    /\ Idle.id = 0 /\ Idle.code = 0
    BY IntakeAssumption DEF Idle, SessionRecords, SessionSteps

LEMMA ResetFields ==
    ASSUME session \in [Sessions -> SessionRecords], NEW s \in Sessions, Reset(s)
    PROVE  /\ session' \in [Sessions -> SessionRecords]
           /\ session'[s] = Idle
           /\ \A x \in Sessions : x # s => session'[x] = session[x]
    BY IdleFields DEF Reset

\* The session after MAIL and after RCPT.
LEMMA MailFields ==
    ASSUME session \in [Sessions -> SessionRecords], NEW s \in Sessions, NEW m \in Messages,
           Mail(s, m)
    PROVE  /\ session' \in [Sessions -> SessionRecords]
           /\ session'[s].pc = "envelope" /\ session'[s].from = m
           /\ session'[s].to = session[s].to /\ session'[s].named = session[s].named
           /\ session'[s].id = session[s].id
           /\ \A x \in Sessions : x # s => session'[x] = session[x]
<1>2. session[s] \in SessionRecords
    OBVIOUS
<1>3. session'[s] = [pc |-> "envelope", from |-> m, to |-> session[s].to,
                     named |-> session[s].named, id |-> session[s].id, code |-> session[s].code]
    BY <1>2 DEF Mail, SessionRecords
<1>4. session'[s] \in SessionRecords
    BY <1>2, <1>3 DEF SessionRecords, SessionSteps
<1>5. session' \in [Sessions -> SessionRecords] /\ \A x \in Sessions : x # s => session'[x] = session[x]
    BY <1>4 DEF Mail
<1> QED
    BY <1>3, <1>5

LEMMA RcptFields ==
    ASSUME session \in [Sessions -> SessionRecords], NEW s \in Sessions, NEW r \in Recipients,
           session[s].from \in Messages, Rcpt(s, r)
    PROVE  /\ session' \in [Sessions -> SessionRecords]
           /\ session'[s].pc = "envelope" /\ session'[s].from = session[s].from
           /\ session'[s].to = session[s].to \cup {r}
           /\ session'[s].named = session[s].named \cup {r}
           /\ session'[s].id = session[s].id
           /\ \A x \in Sessions : x # s => session'[x] = session[x]
<1> DEFINE to == session[s].to \cup {r}
           accepted == session[s].named \cup {r}
           q == [session EXCEPT ![s].to = to]
<1>1. session[s] \in SessionRecords /\ session[s].pc = "envelope" /\ r \in AllowedRecipients
    BY DEF Rcpt
<1>2. to \in SUBSET AllowedRecipients /\ accepted \in SUBSET AllowedRecipients
    BY <1>1 DEF SessionRecords
<1>3. session' = [q EXCEPT ![s].named = accepted]
    BY DEF Rcpt
<1> HIDE DEF to, accepted
<1>4. /\ q \in [Sessions -> SessionRecords]
      /\ q[s].pc = "envelope" /\ q[s].from = session[s].from /\ q[s].to = to
      /\ q[s].id = session[s].id
      /\ \A x \in Sessions : x # s => q[x] = session[x]
    BY <1>1, <1>2 DEF SessionRecords
<1> HIDE DEF q
<1>5. /\ session' \in [Sessions -> SessionRecords]
      /\ session'[s].pc = "envelope" /\ session'[s].from = session[s].from
      /\ session'[s].to = to /\ session'[s].named = accepted
      /\ session'[s].id = session[s].id
      /\ \A x \in Sessions : x # s => session'[x] = session[x]
    BY <1>2, <1>3, <1>4 DEF SessionRecords
<1> QED
    BY <1>5 DEF to, accepted

\* The session after DATA.
LEMMA DataFields ==
    ASSUME TypeInv, NEW s \in Sessions, NEW n \in 1..MaxSends,
           \/ \E pc \in {"save", "save_rejected"} :
                session' = [session EXCEPT ![s].pc = pc, ![s].id = n]
           \/ session' = [session EXCEPT ![s].pc = "reply", ![s].id = n, ![s].code = 550]
    PROVE  Takes(s, n)
<1>1. session \in [Sessions -> SessionRecords] /\ session[s] \in SessionRecords
    BY DEF TypeInv
<1>2. PICK pc \in {"save", "save_rejected", "reply"}, code \in {session[s].code, 550} :
        /\ session'[s] = [pc |-> pc, from |-> session[s].from, to |-> session[s].to,
                          named |-> session[s].named, id |-> n, code |-> code]
        /\ pc = "reply" => code = 550
    BY <1>1 DEF SessionRecords
<1>3. session'[s] \in SessionRecords
    BY <1>1, <1>2, IntakeAssumption DEF SessionRecords, SessionSteps, Numbered
<1>4. session' \in [Sessions -> SessionRecords] /\ \A x \in Sessions : x # s => session'[x] = session[x]
    BY <1>1, <1>3
<1> QED
    BY <1>2, <1>4 DEF Takes

\* A DATA command gets the next number; nothing that was sent before changes.
LEMMA NextNumber ==
    ASSUME TypeInv, NEW s \in Sessions, Data(s)
    PROVE  \E n \in 1..MaxSends :
             /\ n \notin Numbers
             /\ Numbers' = Numbers \cup {n}
             /\ Numbers' = 1..n
             /\ sent'[n] = session[s].from /\ named'[n] = session[s].named
             /\ \A k \in Numbers : sent'[k] = sent[k] /\ named'[k] = named[k]
             /\ Takes(s, n)
<1>1. PICK k \in 0..MaxSends : Numbers = 1..k
    BY DEF TypeInv, NumbersInv
<1>2. Cardinality(Numbers) = k
    BY <1>1, FS_Interval, IntakeAssumption
<1>3. k + 1 \in 1..MaxSends
    BY <1>2, IntakeAssumption DEF Data
<1>4. /\ sent' = [j \in 1..(k + 1) |-> IF j = k + 1 THEN session[s].from ELSE sent[j]]
      /\ named' = [j \in 1..(k + 1) |-> IF j = k + 1 THEN session[s].named ELSE named[j]]
    BY <1>2 DEF Data
<1>5. Numbers' = 1..(k + 1)
    BY <1>4 DEF Numbers
<1>6. /\ sent'[k + 1] = session[s].from /\ named'[k + 1] = session[s].named
      /\ \A j \in Numbers : sent'[j] = sent[j] /\ named'[j] = named[j]
    BY <1>1, <1>3, <1>4, IntakeAssumption
<1>7. \/ \E pc \in {"save", "save_rejected"} :
           session' = [session EXCEPT ![s].pc = pc, ![s].id = k + 1]
      \/ session' = [session EXCEPT ![s].pc = "reply", ![s].id = k + 1, ![s].code = 550]
    BY <1>2 DEF Data
<1>8. k + 1 \notin Numbers /\ Numbers' = Numbers \cup {k + 1}
    BY <1>1, <1>3, <1>5, IntakeAssumption
<1>9. Takes(s, k + 1)
    BY <1>3, <1>7, DataFields
<1> QED
    BY <1>3, <1>5, <1>6, <1>8, <1>9

\* The table after the deliveries of an email were queued or finished, and after
\* an email was stored.
LEMMA EmailFields ==
    ASSUME TypeInv, NEW n \in DOMAIN emails, NEW b \in BOOLEAN,
           emails' = [emails EXCEPT ![n].unfinished = b]
    PROVE  Marks(n, b)
<1>1. emails \in [DOMAIN emails -> EmailRecords] /\ emails[n] \in EmailRecords
    BY DEF TypeInv
<1>2. emails'[n] = [from |-> emails[n].from, to |-> emails[n].to, unfinished |-> b]
    BY <1>1 DEF EmailRecords
<1>3. emails'[n] \in EmailRecords
    BY <1>1, <1>2 DEF EmailRecords
<1> QED
    BY <1>1, <1>2, <1>3 DEF Marks

LEMMA InsertedFields ==
    ASSUME TypeInv, NEW s \in Sessions, session[s].from \in Messages,
           emails' = Inserted(s)
    PROVE  Stores(s)
<1>1. [from |-> session[s].from, to |-> session[s].to, unfinished |-> FALSE] \in EmailRecords
    BY DEF TypeInv, SessionRecords, EmailRecords
<1> QED
    BY <1>1 DEF TypeInv, Inserted, Stores

LEMMA NoteAdds ==
    ASSUME NEW ids, NEW what, Note(ids, what)
    PROVE  Adds(ids, what)
    BY DEF Note, Adds

\* Each action in these terms.
LEMMA MailOpens ==
    ASSUME TypeInv, NEW s \in Sessions, NEW m \in Messages, Mail(s, m)
    PROVE  Opens(s)
<1>1. session \in [Sessions -> SessionRecords]
    BY DEF TypeInv
<1>2. /\ session' \in [Sessions -> SessionRecords]
      /\ session'[s].pc = "envelope" /\ session'[s].from = m
      /\ session'[s].to = session[s].to /\ session'[s].named = session[s].named
      /\ session'[s].id = session[s].id
      /\ \A x \in Sessions : x # s => session'[x] = session[x]
    BY <1>1, MailFields
<1> QED
    BY <1>2 DEF Mail, Opens, stores, deleters, clients

LEMMA RcptOpens ==
    ASSUME TypeInv, SessionInv, NEW s \in Sessions, NEW r \in Recipients, Rcpt(s, r)
    PROVE  Opens(s)
<1>1. session \in [Sessions -> SessionRecords] /\ session[s].from \in Messages
    BY DEF TypeInv, SessionInv, Rcpt
<1>2. /\ session' \in [Sessions -> SessionRecords]
      /\ session'[s].pc = "envelope" /\ session'[s].from = session[s].from
      /\ session'[s].to = session[s].to \cup {r}
      /\ session'[s].named = session[s].named \cup {r}
      /\ session'[s].id = session[s].id
      /\ \A x \in Sessions : x # s => session'[x] = session[x]
    BY <1>1, RcptFields
<1> QED
    BY <1>2 DEF Rcpt, Opens, stores, deleters, clients

LEMMA DataSends ==
    ASSUME TypeInv, SessionInv, NEW s \in Sessions, Data(s)
    PROVE  \E n \in 1..MaxSends : Sends(s, n)
<1>1. PICK n \in 1..MaxSends :
        /\ n \notin Numbers /\ Numbers' = Numbers \cup {n} /\ Numbers' = 1..n
        /\ sent'[n] = session[s].from /\ named'[n] = session[s].named
        /\ (\A k \in Numbers : sent'[k] = sent[k] /\ named'[k] = named[k])
        /\ Takes(s, n)
    BY NextNumber
<1>2. session[s].from \in Messages
    BY DEF SessionInv, Data
<1>3. sent' = [k \in Numbers' |-> sent'[k]]
    BY DEF Data, Numbers
<1>4. sent' \in [Numbers' -> Messages]
    BY <1>1, <1>2, <1>3 DEF TypeInv
<1> QED
    BY <1>1, <1>4 DEF Data, Sends, stores, deleters

LEMMA HandlerSaves ==
    ASSUME TypeInv, SessionInv, NEW s \in Sessions, SaveEmail(s) \/ SaveRejected(s)
    PROVE  Saves(s) \/ SavesNothing(s)
<1>1. session \in [Sessions -> SessionRecords]
    BY DEF TypeInv
<1>2. session[s].pc \in {"save", "save_rejected"}
    BY DEF SaveEmail, SaveRejected
<1>3. session[s].from \in Messages
    BY <1>2 DEF SessionInv
<1>4. emails' = Inserted(s) => Stores(s)
    BY <1>3, InsertedFields
<1>5. \A pc \in {"file", "file_rejected"} : Step(s, pc) => Moves(s, pc, session[s].code)
    BY <1>1, StepFields DEF SessionSteps, Numbered
<1>6. Answer(s, 451) => Moves(s, "reply", 451)
    BY <1>1, AnswerFields
<1> QED
    BY <1>2, <1>4, <1>5, <1>6 DEF Saves, SavesNothing, SaveEmail, SaveRejected, deleters, clients

LEMMA HandlerFiles ==
    ASSUME TypeInv, NEW s \in Sessions, WriteFile(s)
    PROVE  Files(s) \/ FilesNothing(s)
<1>1. session \in [Sessions -> SessionRecords]
    BY DEF TypeInv
<1>2. Step(s, "route") => Moves(s, "route", session[s].code)
    BY <1>1, StepFields DEF SessionSteps, Numbered
<1>3. Answer(s, 550) => Moves(s, "reply", 550)
    BY <1>1, AnswerFields
<1> QED
    BY <1>2, <1>3, NoteAdds DEF Files, FilesNothing, WriteFile, deleters, clients

LEMMA HandlerRoutes ==
    ASSUME TypeInv, NEW s \in Sessions, Drop(s) \/ Enqueue(s) \/ EnqueueFails(s)
    PROVE  Drops(s) \/ Queues(s) \/ QueuesNothing(s)
<1>1. session \in [Sessions -> SessionRecords]
    BY DEF TypeInv
<1>2. \A code \in {250, 451} : Answer(s, code) => Moves(s, "reply", code)
    BY <1>1, AnswerFields
<1>3. CASE Drop(s)
    BY <1>2, <1>3, NoteAdds DEF Drops, Drop, stores, deleters, clients
<1>4. CASE Enqueue(s)
  <2>1. session[s].id \in DOMAIN emails /\ Marks(session[s].id, TRUE)
    BY <1>4, EmailFields DEF Enqueue
  <2> QED
    BY <1>2, <1>4, <2>1, NoteAdds DEF Queues, Enqueue, deleters, clients
<1>5. CASE EnqueueFails(s)
    BY <1>2, <1>5 DEF QueuesNothing, EnqueueFails, stores, deleters, clients
<1> QED
    BY <1>3, <1>4, <1>5

LEMMA ReplyEnds ==
    ASSUME TypeInv, NEW s \in Sessions, Rset(s) \/ Reply(s) \/ LoseReply(s)
    PROVE  Resets(s) \/ Accepts(s) \/ Loses(s)
<1>1. session \in [Sessions -> SessionRecords]
    BY DEF TypeInv
<1>2. Ends(s)
    BY <1>1, ResetFields DEF Ends, Rset, Reply, LoseReply, stores, deleters, clients
<1>3. CASE Rset(s)
    BY <1>2, <1>3 DEF Resets, Rset, Adds, clients
<1>4. CASE Reply(s) /\ session[s].code = 250
    BY <1>2, <1>4, NoteAdds DEF Accepts, Reply
<1>5. CASE Reply(s) /\ session[s].code # 250
    BY <1>2, <1>5, NoteAdds DEF Resets, Reply
<1>6. CASE LoseReply(s)
  <2>1. Note({session[s].id} \cap Queued, "unheard")
    BY <1>6 DEF LoseReply
  <2>2. CASE session[s].id \in Queued
    <3>1. {session[s].id} \cap Queued = {session[s].id}
      BY <2>2
    <3> QED
      BY <1>2, <1>6, <2>1, <2>2, <3>1, NoteAdds DEF Loses, LoseReply, clients
  <2>3. CASE session[s].id \notin Queued
    <3>1. {session[s].id} \cap Queued = {}
      BY <2>3
    <3> QED
      BY <1>2, <1>6, <2>1, <2>3, <3>1, NoteAdds DEF Loses, LoseReply, clients
  <2> QED
    BY <2>2, <2>3
<1> QED
    BY <1>3, <1>4, <1>5, <1>6

LEMMA WithoutDeletes ==
    ASSUME TypeInv, NEW ids \in SUBSET DOMAIN emails, emails' = Without(ids)
    PROVE  Deletes(ids)
    BY DEF TypeInv, Without, Deletes

LEMMA WebDeletesOne ==
    ASSUME TypeInv, NEW n \in Numbers, DeleteEmail(n)
    PROVE  DeletesOne(n)
<1>1. Deletes({n})
    BY WithoutDeletes DEF DeleteEmail
<1> QED
    BY <1>1, NoteAdds DEF DeleteEmail, DeletesOne, clients

LEMMA WebDeletesAll ==
    ASSUME TypeInv, DeleteAllEmails
    PROVE  DeletesAll \/ DeletesNothing
<1>1. emails' = <<>> => Deletes(DOMAIN emails)
    BY DEF Deletes
<1> QED
    BY <1>1 DEF DeleteAllEmails, DeletesAll, DeletesNothing, clients

LEMMA CleanupCleans ==
    ASSUME TypeInv, NEW E \in SUBSET DOMAIN emails, Cleanup(E)
    PROVE  \E ids \in SUBSET DOMAIN emails : Cleans(ids) \/ CleansPartly(ids)
<1> DEFINE ids == {n \in E : ~emails[n].unfinished}
<1>1. ids \in SUBSET DOMAIN emails /\ \A n \in ids : ~emails[n].unfinished
    OBVIOUS
<1>2. /\ emails' = Without(ids)
      /\ \/ cleaning' = ids /\ UNCHANGED log
         \/ cleaning' = {} /\ Note(ids \cap files, "leaked")
    BY DEF Cleanup, CleanupExpired
<1> HIDE DEF ids
<1>3. Deletes(ids)
    BY <1>1, <1>2, WithoutDeletes
<1>4. Cleans(ids) \/ CleansPartly(ids)
    BY <1>1, <1>2, <1>3, NoteAdds DEF Cleanup, Cleans, CleansPartly, clients
<1> QED
    BY <1>1, <1>4

LEMMA RemoveRemoves ==
    ASSUME TypeInv, RemoveDeleted \/ RemoveCleaned
    PROVE  \E kept \in SUBSET Numbers : Removes(kept)
<1>1. CASE RemoveDeleted
  <2>1. PICK kept \in SUBSET deleting : RemoveFiles(deleting, kept) /\ Note(kept, "leaked")
    BY <1>1 DEF RemoveDeleted
  <2>2. Removes(kept)
    BY <1>1, <2>1, NoteAdds DEF RemoveDeleted, RemoveFiles, Removes, clients
  <2> QED
    BY <2>2 DEF TypeInv
<1>2. CASE RemoveCleaned
  <2>1. PICK kept \in SUBSET cleaning : RemoveFiles(cleaning, kept) /\ Note(kept, "leaked")
    BY <1>2 DEF RemoveCleaned
  <2>2. Removes(kept)
    BY <1>2, <2>1, NoteAdds DEF RemoveCleaned, RemoveFiles, Removes, clients
  <2> QED
    BY <2>2 DEF TypeInv
<1> QED
    BY <1>1, <1>2

LEMMA RemoveStrips ==
    ASSUME TypeInv, RemoveAllFiles
    PROVE  \E kept \in SUBSET Numbers : Strips(kept)
<1>1. PICK kept \in SUBSET clearing.ids :
        RemoveFiles(clearing.ids, kept) /\ Note((clearing.ids \cap files) \ kept, "stripped")
    BY DEF RemoveAllFiles
<1>2. Strips(kept)
    BY <1>1, NoteAdds DEF RemoveAllFiles, RemoveFiles, Strips, clients
<1>3. kept \subseteq Numbers
    BY DEF TypeInv
<1> QED
    BY <1>2, <1>3

LEMMA QueueRequeues ==
    ASSUME TypeInv, NEW n \in Numbers, Finish(n) \/ Replay(n)
    PROVE  Finishes(n) \/ Replays(n)
<1>1. CASE Finish(n)
  <2>1. n \in DOMAIN emails /\ Marks(n, FALSE)
    BY <1>1, EmailFields DEF Finish
  <2> QED
    BY <1>1, <2>1, NoteAdds DEF Finish, Finishes, deleters, clients
<1>2. CASE Replay(n)
    BY <1>2, EmailFields DEF Replay, Replays, deleters
<1> QED
    BY <1>1, <1>2

\* What a step can do.
SessionEffects(s) ==
    \/ Opens(s) \/ \E n \in 1..MaxSends : Sends(s, n)
    \/ Saves(s) \/ SavesNothing(s) \/ Files(s) \/ FilesNothing(s)
    \/ Drops(s) \/ Queues(s) \/ QueuesNothing(s)
    \/ Resets(s) \/ Accepts(s) \/ Loses(s)

Effects ==
    \/ \E s \in Sessions : SessionEffects(s)
    \/ \E n \in Numbers : DeletesOne(n) \/ Finishes(n) \/ Replays(n)
    \/ \E ids \in SUBSET DOMAIN emails : Cleans(ids) \/ CleansPartly(ids)
    \/ DeletesAll \/ DeletesNothing \/ ListAll
    \/ \E kept \in SUBSET Numbers : Removes(kept) \/ Strips(kept)
    \/ Signal \/ Exit \/ Start
    \/ UNCHANGED vars

LEMMA StepEffects ==
    ASSUME TypeInv, SessionInv, [Next]_vars
    PROVE  Effects
<1>1. ASSUME NEW s \in Sessions, Smtp(s)
      PROVE  SessionEffects(s)
    BY <1>1, MailOpens, RcptOpens, DataSends, HandlerSaves, HandlerFiles, HandlerRoutes, ReplyEnds
       DEF Smtp, SessionEffects
<1>2. ASSUME Deletion
      PROVE  Effects
    BY <1>2, WebDeletesOne, WebDeletesAll, CleanupCleans, RemoveRemoves, RemoveStrips
       DEF Deletion, Effects
<1> QED
    BY <1>1, <1>2, QueueRequeues DEF Next, Effects

\* The types are kept.
LEMMA TypeStep ==
    ASSUME TypeInv, SessionInv, Effects
    PROVE  TypeInv'
<1> USE IntakeAssumption DEF TypeInv, NumbersInv, SessionInv, Numbered, Numbers
<1>1. ASSUME NEW s \in Sessions, Opens(s)
      PROVE  TypeInv'
    BY <1>1 DEF Opens
<1>2. ASSUME NEW s \in Sessions, NEW n \in 1..MaxSends, Sends(s, n)
      PROVE  TypeInv'
  <2>1. n \in DOMAIN log
    BY <1>2 DEF NumbersInv
  <2> HIDE DEF Numbers
  <2>2. /\ n \notin Numbers /\ Numbers' = Numbers \cup {n}
        /\ sent' \in [Numbers' -> Messages]
        /\ sent'[n] = session[s].from /\ named'[n] = session[s].named
        /\ \A k \in Numbers : sent'[k] = sent[k] /\ named'[k] = named[k]
        /\ session[s].pc = "envelope" /\ session[s].to # {}
        /\ UNCHANGED <<emails, files, deleting, cleaning, clearing, done, log>>
    BY <1>2 DEF Sends
  <2>3. /\ session' \in [Sessions -> SessionRecords]
        /\ \/ session'[s].pc \in {"save", "save_rejected"}
           \/ session'[s].pc = "reply" /\ session'[s].code = 550
        /\ session'[s].from = session[s].from
        /\ session'[s].to = session[s].to /\ session'[s].named = session[s].named
        /\ session'[s].id = n
        /\ \A x \in Sessions : x # s => session'[x] = session[x]
    BY <1>2 DEF Sends, Takes
  <2>4. NumbersInv'
    BY <1>2 DEF Sends, NumbersInv
  <2> HIDE DEF NumbersInv
  <2>5. 0 \notin Numbers' /\ Numbers' \subseteq DOMAIN log'
    BY <2>1, <2>2
  <2>6. clearing' \in [pc : {"idle", "files", "rows"}, ids : SUBSET Numbers']
    BY <2>2
  <2> QED
    BY <2>2, <2>3, <2>4, <2>5, <2>6
<1>3. ASSUME NEW s \in Sessions, Saves(s)
      PROVE  TypeInv'
    BY <1>3 DEF Saves, Stores, Moves
<1>4. ASSUME NEW s \in Sessions, SavesNothing(s)
      PROVE  TypeInv'
    BY <1>4 DEF SavesNothing, Moves
<1>5. ASSUME NEW s \in Sessions, Files(s)
      PROVE  TypeInv'
    BY <1>5 DEF Files, Moves, Adds
<1>6. ASSUME NEW s \in Sessions, FilesNothing(s)
      PROVE  TypeInv'
    BY <1>6 DEF FilesNothing, Moves
<1>7. ASSUME NEW s \in Sessions, Drops(s)
      PROVE  TypeInv'
    BY <1>7 DEF Drops, Moves, Adds
<1>8. ASSUME NEW s \in Sessions, Queues(s)
      PROVE  TypeInv'
    BY <1>8 DEF Queues, Moves, Marks, Adds
<1>9. ASSUME NEW s \in Sessions, QueuesNothing(s)
      PROVE  TypeInv'
    BY <1>9 DEF QueuesNothing, Moves
<1>10. ASSUME NEW s \in Sessions, Resets(s)
      PROVE  TypeInv'
    BY <1>10, IdleFields DEF Resets, Ends, Adds
<1>11. ASSUME NEW s \in Sessions, Accepts(s)
      PROVE  TypeInv'
    BY <1>11, IdleFields DEF Accepts, Ends, Adds
<1>12. ASSUME NEW s \in Sessions, Loses(s)
      PROVE  TypeInv'
    BY <1>12, IdleFields DEF Loses, Ends, Adds, Queued
<1>13. ASSUME NEW n \in Numbers, DeletesOne(n)
      PROVE  TypeInv'
    BY <1>13 DEF DeletesOne, Deletes, Adds
<1>14. ASSUME NEW n \in Numbers, Finishes(n)
      PROVE  TypeInv'
    BY <1>14 DEF Finishes, Marks, Adds
<1>15. ASSUME NEW n \in Numbers, Replays(n)
      PROVE  TypeInv'
    BY <1>15 DEF Replays, Marks
<1>16. ASSUME NEW ids \in SUBSET DOMAIN emails, Cleans(ids)
      PROVE  TypeInv'
    BY <1>16 DEF Cleans, Deletes
<1>17. CASE DeletesAll
    BY <1>17 DEF DeletesAll, Deletes
<1>18. CASE DeletesNothing
    BY <1>18 DEF DeletesNothing
<1>19. ASSUME NEW kept \in SUBSET Numbers, Removes(kept)
      PROVE  TypeInv'
    BY <1>19 DEF Removes, Adds
<1>20. CASE ListAll
    BY <1>20 DEF ListAll, stores, clients
<1>21. ASSUME NEW kept \in SUBSET Numbers, Strips(kept)
      PROVE  TypeInv'
    BY <1>21 DEF Strips, Adds
<1>22. ASSUME NEW ids \in SUBSET DOMAIN emails, CleansPartly(ids)
      PROVE  TypeInv'
    BY <1>22 DEF CleansPartly, Deletes, Adds
<1>23. CASE Signal
    BY <1>23 DEF Signal, stores, deleters, clients
<1>24. CASE Exit
    BY <1>24, IdleFields DEF Exit, Queued, stores, clients
<1>25. CASE Start
    BY <1>25 DEF Start, stores, deleters, clients
<1>26. CASE UNCHANGED vars
    BY <1>26 DEF vars
<1> QED
    BY <1>1, <1>2, <1>3, <1>4, <1>5, <1>6, <1>7, <1>8, <1>9, <1>10,
       <1>11, <1>12, <1>13, <1>14, <1>15, <1>16, <1>17, <1>18, <1>19, <1>20, <1>21, <1>22, <1>23, <1>24, <1>25, <1>26 DEF Effects, SessionEffects

\* A session that is reset has nothing to share.
LEMMA EndsSession ==
    ASSUME TypeInv, SessionInv, NEW s \in Sessions, Ends(s)
    PROVE  SessionInv'
<1> USE DEF TypeInv, SessionInv, Numbered, Numbers
<1>1. /\ session'[s] = Idle
      /\ \A x \in Sessions : x # s => session'[x] = session[x]
      /\ UNCHANGED <<sent, named>>
    BY DEF Ends
<1>2. /\ session'[s].pc = "idle" /\ session'[s].from = NoMessage
      /\ session'[s].to = session'[s].named /\ session'[s].id = 0
    BY <1>1, IdleFields
<1>3. ASSUME NEW x \in Sessions
      PROVE  /\ session'[x].pc = "idle" => session'[x] = Idle
             /\ session'[x].pc # "idle" => session'[x].from \in Messages
             /\ session'[x].to = session'[x].named
             /\ session'[x].pc \notin Numbered => session'[x].id = 0
             /\ session'[x].pc \in Numbered =>
                  /\ session'[x].id \in Numbers'
                  /\ sent'[session'[x].id] = session'[x].from
                  /\ named'[session'[x].id] = session'[x].to
                  /\ session'[x].to # {}
  <2>1. CASE x = s
    BY <1>1, <1>2, <2>1
  <2>2. CASE x # s
    BY <1>1, <2>2
  <2> QED
    BY <2>1, <2>2
<1>4. ASSUME NEW x \in Sessions, NEW y \in Sessions, x # y
      PROVE  /\ session'[x].from = session'[y].from => session'[x].from = NoMessage
             /\ session'[x].id = session'[y].id => session'[x].id = 0
    BY <1>1, <1>2, <1>4
<1> QED
    BY <1>3, <1>4

\* Sessions do not share messages or numbers.
LEMMA SessionStep ==
    ASSUME TypeInv, SessionInv, Effects
    PROVE  SessionInv'
<1> USE DEF TypeInv, SessionInv, Numbered, Numbers
<1>1. ASSUME NEW s \in Sessions, Opens(s)
      PROVE  SessionInv'
  <2>1. /\ session[s].pc \in {"idle", "envelope"} /\ session'[s].pc = "envelope"
        /\ session'[s].id = session[s].id
        /\ \A x \in Sessions : x # s => session'[x] = session[x]
        /\ UNCHANGED <<sent, named>>
    BY <1>1 DEF Opens
  <2>2. /\ session'[s].from \in Messages
        /\ \/ session'[s].from = session[s].from
           \/ \A x \in Sessions : session[x].from # session'[s].from
    BY <1>1 DEF Opens
  <2>3. session[s].to = session[s].named /\ session[s].id = 0
    BY <2>1
  <2>4. session'[s].to = session'[s].named
    BY <1>1, <2>3 DEF Opens
  <2>5. ASSUME NEW x \in Sessions
        PROVE  /\ session'[x].pc = "idle" => session'[x] = Idle
               /\ session'[x].pc # "idle" => session'[x].from \in Messages
               /\ session'[x].to = session'[x].named
               /\ session'[x].pc \notin Numbered => session'[x].id = 0
               /\ session'[x].pc \in Numbered =>
                    /\ session'[x].id \in Numbers'
                    /\ sent'[session'[x].id] = session'[x].from
                    /\ named'[session'[x].id] = session'[x].to
                    /\ session'[x].to # {}
    <3>1. CASE x = s
      BY <2>1, <2>2, <2>3, <2>4, <3>1
    <3>2. CASE x # s
      BY <2>1, <3>2
    <3> QED
      BY <3>1, <3>2
  <2>6. ASSUME NEW x \in Sessions, NEW y \in Sessions, x # y
        PROVE  /\ session'[x].from = session'[y].from => session'[x].from = NoMessage
               /\ session'[x].id = session'[y].id => session'[x].id = 0
    BY <2>1, <2>2, <2>6
  <2> QED
    BY <2>5, <2>6
<1>2. ASSUME NEW s \in Sessions, NEW n \in 1..MaxSends, Sends(s, n)
      PROVE  SessionInv'
  <2>1. n \in DOMAIN log
    BY <1>2 DEF NumbersInv
  <2> HIDE DEF Numbers
  <2>2. /\ n \notin Numbers /\ Numbers' = Numbers \cup {n}
        /\ sent' \in [Numbers' -> Messages]
        /\ sent'[n] = session[s].from /\ named'[n] = session[s].named
        /\ \A k \in Numbers : sent'[k] = sent[k] /\ named'[k] = named[k]
        /\ session[s].pc = "envelope" /\ session[s].to # {}
        /\ UNCHANGED <<emails, files, deleting, cleaning, clearing, done, log>>
    BY <1>2 DEF Sends
  <2>3. /\ session' \in [Sessions -> SessionRecords]
        /\ \/ session'[s].pc \in {"save", "save_rejected"}
           \/ session'[s].pc = "reply" /\ session'[s].code = 550
        /\ session'[s].from = session[s].from
        /\ session'[s].to = session[s].to /\ session'[s].named = session[s].named
        /\ session'[s].id = n
        /\ \A x \in Sessions : x # s => session'[x] = session[x]
    BY <1>2 DEF Sends, Takes
  <2>4. \A x \in Sessions : session[x].id # n
    BY <2>2
  <2>5. ASSUME NEW x \in Sessions
        PROVE  /\ session'[x].pc = "idle" => session'[x] = Idle
               /\ session'[x].pc # "idle" => session'[x].from \in Messages
               /\ session'[x].to = session'[x].named
               /\ session'[x].pc \notin Numbered => session'[x].id = 0
               /\ session'[x].pc \in Numbered =>
                    /\ session'[x].id \in Numbers'
                    /\ sent'[session'[x].id] = session'[x].from
                    /\ named'[session'[x].id] = session'[x].to
                    /\ session'[x].to # {}
    <3>1. CASE x = s
      BY <2>2, <2>3, <3>1
    <3>2. CASE x # s
      BY <2>2, <2>3, <3>2
    <3> QED
      BY <3>1, <3>2
  <2>6. ASSUME NEW x \in Sessions, NEW y \in Sessions, x # y
        PROVE  /\ session'[x].from = session'[y].from => session'[x].from = NoMessage
               /\ session'[x].id = session'[y].id => session'[x].id = 0
    BY <2>3, <2>4, <2>6
  <2> QED
    BY <2>5, <2>6
<1>3. ASSUME NEW s \in Sessions, Saves(s)
      PROVE  SessionInv'
    BY <1>3 DEF Saves, Stores, Moves
<1>4. ASSUME NEW s \in Sessions, SavesNothing(s)
      PROVE  SessionInv'
    BY <1>4 DEF SavesNothing, Moves
<1>5. ASSUME NEW s \in Sessions, Files(s)
      PROVE  SessionInv'
    BY <1>5 DEF Files, Moves, Adds
<1>6. ASSUME NEW s \in Sessions, FilesNothing(s)
      PROVE  SessionInv'
    BY <1>6 DEF FilesNothing, Moves
<1>7. ASSUME NEW s \in Sessions, Drops(s)
      PROVE  SessionInv'
    BY <1>7 DEF Drops, Moves, Adds
<1>8. ASSUME NEW s \in Sessions, Queues(s)
      PROVE  SessionInv'
    BY <1>8 DEF Queues, Moves, Marks, Adds
<1>9. ASSUME NEW s \in Sessions, QueuesNothing(s)
      PROVE  SessionInv'
    BY <1>9 DEF QueuesNothing, Moves
<1>10. ASSUME NEW s \in Sessions, Resets(s)
      PROVE  SessionInv'
    BY <1>10, EndsSession DEF Resets
<1>11. ASSUME NEW s \in Sessions, Accepts(s)
      PROVE  SessionInv'
    BY <1>11, EndsSession DEF Accepts
<1>12. ASSUME NEW s \in Sessions, Loses(s)
      PROVE  SessionInv'
    BY <1>12, EndsSession DEF Loses
<1>13. ASSUME NEW n \in Numbers, DeletesOne(n)
      PROVE  SessionInv'
    BY <1>13 DEF DeletesOne, Deletes, Adds
<1>14. ASSUME NEW n \in Numbers, Finishes(n)
      PROVE  SessionInv'
    BY <1>14 DEF Finishes, Marks, Adds
<1>15. ASSUME NEW n \in Numbers, Replays(n)
      PROVE  SessionInv'
    BY <1>15 DEF Replays, Marks
<1>16. ASSUME NEW ids \in SUBSET DOMAIN emails, Cleans(ids)
      PROVE  SessionInv'
    BY <1>16 DEF Cleans, Deletes
<1>17. CASE DeletesAll
    BY <1>17 DEF DeletesAll, Deletes
<1>18. CASE DeletesNothing
    BY <1>18 DEF DeletesNothing
<1>19. ASSUME NEW kept \in SUBSET Numbers, Removes(kept)
      PROVE  SessionInv'
    BY <1>19 DEF Removes, Adds
<1>20. CASE ListAll
    BY <1>20 DEF ListAll, stores, clients
<1>21. ASSUME NEW kept \in SUBSET Numbers, Strips(kept)
      PROVE  SessionInv'
    BY <1>21 DEF Strips, Adds
<1>22. ASSUME NEW ids \in SUBSET DOMAIN emails, CleansPartly(ids)
      PROVE  SessionInv'
    BY <1>22 DEF CleansPartly, Deletes, Adds
<1>23. CASE Signal
    BY <1>23 DEF Signal, stores, deleters, clients
<1>24. CASE Exit
    BY <1>24, IdleFields DEF Exit, Queued, stores, clients
<1>25. CASE Start
    BY <1>25 DEF Start, stores, deleters, clients
<1>26. CASE UNCHANGED vars
    BY <1>26 DEF vars
<1> QED
    BY <1>1, <1>2, <1>3, <1>4, <1>5, <1>6, <1>7, <1>8, <1>9, <1>10,
       <1>11, <1>12, <1>13, <1>14, <1>15, <1>16, <1>17, <1>18, <1>19, <1>20, <1>21, <1>22, <1>23, <1>24, <1>25, <1>26 DEF Effects, SessionEffects

\* Nothing happens to an email before it is stored.
LEMMA FreshStep ==
    ASSUME TypeInv, SessionInv, FreshInv, Effects
    PROVE  FreshInv'
<1> USE DEF TypeInv, SessionInv, FreshInv, Untouched, Numbered, Numbers
<1>1. ASSUME NEW s \in Sessions, Opens(s)
      PROVE  FreshInv'
    BY <1>1 DEF Opens
<1>2. ASSUME NEW s \in Sessions, NEW n \in 1..MaxSends, Sends(s, n)
      PROVE  FreshInv'
  <2>1. n \in DOMAIN log
    BY <1>2 DEF NumbersInv
  <2> HIDE DEF Numbers
  <2>2. /\ n \notin Numbers /\ Numbers' = Numbers \cup {n}
        /\ sent' \in [Numbers' -> Messages]
        /\ sent'[n] = session[s].from /\ named'[n] = session[s].named
        /\ \A k \in Numbers : sent'[k] = sent[k] /\ named'[k] = named[k]
        /\ session[s].pc = "envelope" /\ session[s].to # {}
        /\ UNCHANGED <<emails, files, deleting, cleaning, clearing, done, log>>
    BY <1>2 DEF Sends
  <2>3. /\ session' \in [Sessions -> SessionRecords]
        /\ \/ session'[s].pc \in {"save", "save_rejected"}
           \/ session'[s].pc = "reply" /\ session'[s].code = 550
        /\ session'[s].from = session[s].from
        /\ session'[s].to = session[s].to /\ session'[s].named = session[s].named
        /\ session'[s].id = n
        /\ \A x \in Sessions : x # s => session'[x] = session[x]
    BY <1>2 DEF Sends, Takes
  <2> QED
    BY <2>1, <2>2, <2>3
<1>3. ASSUME NEW s \in Sessions, Saves(s)
      PROVE  FreshInv'
    BY <1>3 DEF Saves, Stores, Moves
<1>4. ASSUME NEW s \in Sessions, SavesNothing(s)
      PROVE  FreshInv'
    BY <1>4 DEF SavesNothing, Moves
<1>5. ASSUME NEW s \in Sessions, Files(s)
      PROVE  FreshInv'
    BY <1>5 DEF Files, Moves, Adds
<1>6. ASSUME NEW s \in Sessions, FilesNothing(s)
      PROVE  FreshInv'
    BY <1>6 DEF FilesNothing, Moves
<1>7. ASSUME NEW s \in Sessions, Drops(s)
      PROVE  FreshInv'
    BY <1>7 DEF Drops, Moves, Adds
<1>8. ASSUME NEW s \in Sessions, Queues(s)
      PROVE  FreshInv'
    BY <1>8 DEF Queues, Moves, Marks, Adds
<1>9. ASSUME NEW s \in Sessions, QueuesNothing(s)
      PROVE  FreshInv'
    BY <1>9 DEF QueuesNothing, Moves
<1>10. ASSUME NEW s \in Sessions, Resets(s)
      PROVE  FreshInv'
    BY <1>10, IdleFields DEF Resets, Ends, Adds
<1>11. ASSUME NEW s \in Sessions, Accepts(s)
      PROVE  FreshInv'
    BY <1>11, IdleFields DEF Accepts, Ends, Adds
<1>12. ASSUME NEW s \in Sessions, Loses(s)
      PROVE  FreshInv'
    BY <1>12, IdleFields DEF Loses, Ends, Adds, Queued
<1>13. ASSUME NEW n \in Numbers, DeletesOne(n)
      PROVE  FreshInv'
    BY <1>13 DEF DeletesOne, Deletes, Adds
<1>14. ASSUME NEW n \in Numbers, Finishes(n)
      PROVE  FreshInv'
    BY <1>14 DEF Finishes, Marks, Adds
<1>15. ASSUME NEW n \in Numbers, Replays(n)
      PROVE  FreshInv'
    BY <1>15 DEF Replays, Marks
<1>16. ASSUME NEW ids \in SUBSET DOMAIN emails, Cleans(ids)
      PROVE  FreshInv'
    BY <1>16 DEF Cleans, Deletes
<1>17. CASE DeletesAll
    BY <1>17 DEF DeletesAll, Deletes
<1>18. CASE DeletesNothing
    BY <1>18 DEF DeletesNothing
<1>19. ASSUME NEW kept \in SUBSET Numbers, Removes(kept)
      PROVE  FreshInv'
    BY <1>19 DEF Removes, Adds
<1>20. CASE ListAll
    BY <1>20 DEF ListAll, stores, clients
<1>21. ASSUME NEW kept \in SUBSET Numbers, Strips(kept)
      PROVE  FreshInv'
    BY <1>21 DEF Strips, Adds
<1>22. ASSUME NEW ids \in SUBSET DOMAIN emails, CleansPartly(ids)
      PROVE  FreshInv'
    BY <1>22 DEF CleansPartly, Deletes, Adds
<1>23. CASE Signal
    BY <1>23 DEF Signal, stores, deleters, clients
<1>24. CASE Exit
    BY <1>24, IdleFields DEF Exit, Queued, stores, clients
<1>25. CASE Start
    BY <1>25 DEF Start, stores, deleters, clients
<1>26. CASE UNCHANGED vars
    BY <1>26 DEF vars
<1> QED
    BY <1>1, <1>2, <1>3, <1>4, <1>5, <1>6, <1>7, <1>8, <1>9, <1>10,
       <1>11, <1>12, <1>13, <1>14, <1>15, <1>16, <1>17, <1>18, <1>19, <1>20, <1>21, <1>22, <1>23, <1>24, <1>25, <1>26 DEF Effects, SessionEffects

\* Stored envelopes are those of one message.
LEMMA EnvelopeStep ==
    ASSUME TypeInv, SessionInv, EnvelopeIsOneTransaction, Effects
    PROVE  EnvelopeIsOneTransaction'
<1> USE DEF TypeInv, SessionInv, EnvelopeIsOneTransaction, Numbered, Numbers
<1>1. ASSUME NEW s \in Sessions, Opens(s)
      PROVE  EnvelopeIsOneTransaction'
    BY <1>1 DEF Opens
<1>2. ASSUME NEW s \in Sessions, NEW n \in 1..MaxSends, Sends(s, n)
      PROVE  EnvelopeIsOneTransaction'
  <2>1. n \in DOMAIN log
    BY <1>2 DEF NumbersInv
  <2> HIDE DEF Numbers
  <2>2. /\ n \notin Numbers /\ Numbers' = Numbers \cup {n}
        /\ sent' \in [Numbers' -> Messages]
        /\ sent'[n] = session[s].from /\ named'[n] = session[s].named
        /\ \A k \in Numbers : sent'[k] = sent[k] /\ named'[k] = named[k]
        /\ session[s].pc = "envelope" /\ session[s].to # {}
        /\ UNCHANGED <<emails, files, deleting, cleaning, clearing, done, log>>
    BY <1>2 DEF Sends
  <2>3. /\ session' \in [Sessions -> SessionRecords]
        /\ \/ session'[s].pc \in {"save", "save_rejected"}
           \/ session'[s].pc = "reply" /\ session'[s].code = 550
        /\ session'[s].from = session[s].from
        /\ session'[s].to = session[s].to /\ session'[s].named = session[s].named
        /\ session'[s].id = n
        /\ \A x \in Sessions : x # s => session'[x] = session[x]
    BY <1>2 DEF Sends, Takes
  <2> QED
    BY <2>1, <2>2, <2>3
<1>3. ASSUME NEW s \in Sessions, Saves(s)
      PROVE  EnvelopeIsOneTransaction'
    BY <1>3 DEF Saves, Stores, Moves
<1>4. ASSUME NEW s \in Sessions, SavesNothing(s)
      PROVE  EnvelopeIsOneTransaction'
    BY <1>4 DEF SavesNothing, Moves
<1>5. ASSUME NEW s \in Sessions, Files(s)
      PROVE  EnvelopeIsOneTransaction'
    BY <1>5 DEF Files, Moves, Adds
<1>6. ASSUME NEW s \in Sessions, FilesNothing(s)
      PROVE  EnvelopeIsOneTransaction'
    BY <1>6 DEF FilesNothing, Moves
<1>7. ASSUME NEW s \in Sessions, Drops(s)
      PROVE  EnvelopeIsOneTransaction'
    BY <1>7 DEF Drops, Moves, Adds
<1>8. ASSUME NEW s \in Sessions, Queues(s)
      PROVE  EnvelopeIsOneTransaction'
    BY <1>8 DEF Queues, Moves, Marks, Adds
<1>9. ASSUME NEW s \in Sessions, QueuesNothing(s)
      PROVE  EnvelopeIsOneTransaction'
    BY <1>9 DEF QueuesNothing, Moves
<1>10. ASSUME NEW s \in Sessions, Resets(s)
      PROVE  EnvelopeIsOneTransaction'
    BY <1>10, IdleFields DEF Resets, Ends, Adds
<1>11. ASSUME NEW s \in Sessions, Accepts(s)
      PROVE  EnvelopeIsOneTransaction'
    BY <1>11, IdleFields DEF Accepts, Ends, Adds
<1>12. ASSUME NEW s \in Sessions, Loses(s)
      PROVE  EnvelopeIsOneTransaction'
    BY <1>12, IdleFields DEF Loses, Ends, Adds, Queued
<1>13. ASSUME NEW n \in Numbers, DeletesOne(n)
      PROVE  EnvelopeIsOneTransaction'
    BY <1>13 DEF DeletesOne, Deletes, Adds
<1>14. ASSUME NEW n \in Numbers, Finishes(n)
      PROVE  EnvelopeIsOneTransaction'
    BY <1>14 DEF Finishes, Marks, Adds
<1>15. ASSUME NEW n \in Numbers, Replays(n)
      PROVE  EnvelopeIsOneTransaction'
    BY <1>15 DEF Replays, Marks
<1>16. ASSUME NEW ids \in SUBSET DOMAIN emails, Cleans(ids)
      PROVE  EnvelopeIsOneTransaction'
    BY <1>16 DEF Cleans, Deletes
<1>17. CASE DeletesAll
    BY <1>17 DEF DeletesAll, Deletes
<1>18. CASE DeletesNothing
    BY <1>18 DEF DeletesNothing
<1>19. ASSUME NEW kept \in SUBSET Numbers, Removes(kept)
      PROVE  EnvelopeIsOneTransaction'
    BY <1>19 DEF Removes, Adds
<1>20. CASE ListAll
    BY <1>20 DEF ListAll, stores, clients
<1>21. ASSUME NEW kept \in SUBSET Numbers, Strips(kept)
      PROVE  EnvelopeIsOneTransaction'
    BY <1>21 DEF Strips, Adds
<1>22. ASSUME NEW ids \in SUBSET DOMAIN emails, CleansPartly(ids)
      PROVE  EnvelopeIsOneTransaction'
    BY <1>22 DEF CleansPartly, Deletes, Adds
<1>23. CASE Signal
    BY <1>23 DEF Signal, stores, deleters, clients
<1>24. CASE Exit
    BY <1>24, IdleFields DEF Exit, Queued, stores, clients
<1>25. CASE Start
    BY <1>25 DEF Start, stores, deleters, clients
<1>26. CASE UNCHANGED vars
    BY <1>26 DEF vars
<1> QED
    BY <1>1, <1>2, <1>3, <1>4, <1>5, <1>6, <1>7, <1>8, <1>9, <1>10,
       <1>11, <1>12, <1>13, <1>14, <1>15, <1>16, <1>17, <1>18, <1>19, <1>20, <1>21, <1>22, <1>23, <1>24, <1>25, <1>26 DEF Effects, SessionEffects

\* What the client is told is true.
LEMMA PromiseStep ==
    ASSUME TypeInv, SessionInv, FreshInv, PromiseInv, Effects
    PROVE  PromiseInv'
<1> USE DEF TypeInv, SessionInv, FreshInv, Untouched, PromiseInv, Promised, Numbered, Numbers
<1>1. ASSUME NEW s \in Sessions, Opens(s)
      PROVE  PromiseInv'
    BY <1>1 DEF Opens
<1>2. ASSUME NEW s \in Sessions, NEW n \in 1..MaxSends, Sends(s, n)
      PROVE  PromiseInv'
  <2>1. n \in DOMAIN log
    BY <1>2 DEF NumbersInv
  <2> HIDE DEF Numbers
  <2>2. /\ n \notin Numbers /\ Numbers' = Numbers \cup {n}
        /\ sent' \in [Numbers' -> Messages]
        /\ sent'[n] = session[s].from /\ named'[n] = session[s].named
        /\ \A k \in Numbers : sent'[k] = sent[k] /\ named'[k] = named[k]
        /\ session[s].pc = "envelope" /\ session[s].to # {}
        /\ UNCHANGED <<emails, files, deleting, cleaning, clearing, done, log>>
    BY <1>2 DEF Sends
  <2>3. /\ session' \in [Sessions -> SessionRecords]
        /\ \/ session'[s].pc \in {"save", "save_rejected"}
           \/ session'[s].pc = "reply" /\ session'[s].code = 550
        /\ session'[s].from = session[s].from
        /\ session'[s].to = session[s].to /\ session'[s].named = session[s].named
        /\ session'[s].id = n
        /\ \A x \in Sessions : x # s => session'[x] = session[x]
    BY <1>2 DEF Sends, Takes
  <2> QED
    BY <2>1, <2>2, <2>3
<1>3. ASSUME NEW s \in Sessions, Saves(s)
      PROVE  PromiseInv'
    BY <1>3 DEF Saves, Stores, Moves
<1>4. ASSUME NEW s \in Sessions, SavesNothing(s)
      PROVE  PromiseInv'
    BY <1>4 DEF SavesNothing, Moves
<1>5. ASSUME NEW s \in Sessions, Files(s)
      PROVE  PromiseInv'
    BY <1>5 DEF Files, Moves, Adds
<1>6. ASSUME NEW s \in Sessions, FilesNothing(s)
      PROVE  PromiseInv'
    BY <1>6 DEF FilesNothing, Moves
<1>7. ASSUME NEW s \in Sessions, Drops(s)
      PROVE  PromiseInv'
  <2> SUFFICES ASSUME NEW n \in Numbers, Promised(n)'
               PROVE  \/ log'[n] \cap {"dropped", "finished", "deleted"} # {}
                      \/ n \in DOMAIN emails' /\ emails'[n].unfinished
    BY <1>7 DEF Drops
  <2>1. CASE n = session[s].id
    <3>1. "dropped" \in log'[n]
      BY <1>7, <2>1 DEF Drops, Adds
    <3> QED
      BY <3>1
  <2>2. CASE n # session[s].id
    <3>1. log'[n] = log[n] /\ emails' = emails
      BY <1>7, <2>2 DEF Drops, Adds
    <3>2. Promised(n)
      BY <1>7, <2>2, <3>1 DEF Drops, Moves
    <3> QED
      BY <3>1, <3>2
  <2> QED
    BY <2>1, <2>2
<1>8. ASSUME NEW s \in Sessions, Queues(s)
      PROVE  PromiseInv'
    BY <1>8 DEF Queues, Moves, Marks, Adds
<1>9. ASSUME NEW s \in Sessions, QueuesNothing(s)
      PROVE  PromiseInv'
    BY <1>9 DEF QueuesNothing, Moves
<1>10. ASSUME NEW s \in Sessions, Resets(s)
      PROVE  PromiseInv'
    BY <1>10, IdleFields DEF Resets, Ends, Adds
<1>11. ASSUME NEW s \in Sessions, Accepts(s)
      PROVE  PromiseInv'
    BY <1>11, IdleFields DEF Accepts, Ends, Adds
<1>12. ASSUME NEW s \in Sessions, Loses(s)
      PROVE  PromiseInv'
    BY <1>12, IdleFields DEF Loses, Ends, Adds, Queued
<1>13. ASSUME NEW n \in Numbers, DeletesOne(n)
      PROVE  PromiseInv'
  <2> SUFFICES ASSUME NEW k \in Numbers, Promised(k)'
               PROVE  \/ log'[k] \cap {"dropped", "finished", "deleted"} # {}
                      \/ k \in DOMAIN emails' /\ emails'[k].unfinished
    BY <1>13 DEF DeletesOne
  <2>1. CASE k = n
    <3>1. "deleted" \in log'[k]
      BY <1>13, <2>1 DEF DeletesOne, Adds
    <3> QED
      BY <3>1
  <2>2. CASE k # n
    <3>1. log'[k] = log[k] /\ session' = session
      BY <1>13, <2>2 DEF DeletesOne, Adds
    <3>2. Promised(k)
      BY <3>1
    <3>3. k \in DOMAIN emails => k \in DOMAIN emails' /\ emails'[k] = emails[k]
      BY <1>13, <2>2 DEF DeletesOne, Deletes
    <3> QED
      BY <3>1, <3>2, <3>3
  <2> QED
    BY <2>1, <2>2
<1>14. ASSUME NEW n \in Numbers, Finishes(n)
      PROVE  PromiseInv'
  <2> SUFFICES ASSUME NEW k \in Numbers, Promised(k)'
               PROVE  \/ log'[k] \cap {"dropped", "finished", "deleted"} # {}
                      \/ k \in DOMAIN emails' /\ emails'[k].unfinished
    BY <1>14 DEF Finishes
  <2>1. CASE k = n
    <3>1. "finished" \in log'[k]
      BY <1>14, <2>1 DEF Finishes, Adds
    <3> QED
      BY <3>1
  <2>2. CASE k # n
    <3>1. log'[k] = log[k] /\ session' = session
      BY <1>14, <2>2 DEF Finishes, Adds
    <3>2. Promised(k)
      BY <3>1
    <3>3. k \in DOMAIN emails => k \in DOMAIN emails' /\ emails'[k] = emails[k]
      BY <1>14, <2>2 DEF Finishes, Marks
    <3> QED
      BY <3>1, <3>2, <3>3
  <2> QED
    BY <2>1, <2>2
<1>15. ASSUME NEW n \in Numbers, Replays(n)
      PROVE  PromiseInv'
    BY <1>15 DEF Replays, Marks
<1>16. ASSUME NEW ids \in SUBSET DOMAIN emails, Cleans(ids)
      PROVE  PromiseInv'
    BY <1>16 DEF Cleans, Deletes
<1>17. CASE DeletesAll
  <2> SUFFICES ASSUME NEW n \in Numbers, Promised(n)'
               PROVE  \/ log'[n] \cap {"dropped", "finished", "deleted"} # {}
                      \/ n \in DOMAIN emails' /\ emails'[n].unfinished
    BY <1>17 DEF DeletesAll
  <2>1. CASE n \in DOMAIN emails
    <3>1. "deleted" \in log'[n]
      BY <1>17, <2>1 DEF DeletesAll
    <3> QED
      BY <3>1
  <2>2. CASE n \notin DOMAIN emails
    <3>1. log'[n] = log[n] /\ session' = session
      BY <1>17, <2>2 DEF DeletesAll
    <3>2. Promised(n)
      BY <3>1
    <3> QED
      BY <2>2, <3>1, <3>2
  <2> QED
    BY <2>1, <2>2
<1>18. CASE DeletesNothing
    BY <1>18 DEF DeletesNothing
<1>19. ASSUME NEW kept \in SUBSET Numbers, Removes(kept)
      PROVE  PromiseInv'
    BY <1>19 DEF Removes, Adds
<1>20. CASE ListAll
    BY <1>20 DEF ListAll, stores, clients
<1>21. ASSUME NEW kept \in SUBSET Numbers, Strips(kept)
      PROVE  PromiseInv'
    BY <1>21 DEF Strips, Adds
<1>22. ASSUME NEW ids \in SUBSET DOMAIN emails, CleansPartly(ids)
      PROVE  PromiseInv'
    BY <1>22 DEF CleansPartly, Deletes, Adds
<1>23. CASE Signal
    BY <1>23 DEF Signal, stores, deleters, clients
<1>24. CASE Exit
    BY <1>24, IdleFields DEF Exit, Queued, stores, clients
<1>25. CASE Start
    BY <1>25 DEF Start, stores, deleters, clients
<1>26. CASE UNCHANGED vars
    BY <1>26 DEF vars
<1> QED
    BY <1>1, <1>2, <1>3, <1>4, <1>5, <1>6, <1>7, <1>8, <1>9, <1>10,
       <1>11, <1>12, <1>13, <1>14, <1>15, <1>16, <1>17, <1>18, <1>19, <1>20, <1>21, <1>22, <1>23, <1>24, <1>25, <1>26 DEF Effects, SessionEffects

\* A client that heard of its queued message does not send it again.
LEMMA QueueStep ==
    ASSUME TypeInv, SessionInv, FreshInv, QueueInv, Effects
    PROVE  QueueInv'
<1> USE DEF TypeInv, SessionInv, FreshInv, Untouched, QueueInv, QueuedOnce, Numbered, Numbers
<1>1. ASSUME NEW s \in Sessions, Opens(s)
      PROVE  QueueInv'
    BY <1>1 DEF Opens
<1>2. ASSUME NEW s \in Sessions, NEW n \in 1..MaxSends, Sends(s, n)
      PROVE  QueueInv'
  <2>1. n \in DOMAIN log
    BY <1>2 DEF NumbersInv
  <2> HIDE DEF Numbers
  <2>2. /\ n \notin Numbers /\ Numbers' = Numbers \cup {n}
        /\ sent' \in [Numbers' -> Messages]
        /\ sent'[n] = session[s].from /\ named'[n] = session[s].named
        /\ \A k \in Numbers : sent'[k] = sent[k] /\ named'[k] = named[k]
        /\ session[s].pc = "envelope" /\ session[s].to # {}
        /\ UNCHANGED <<emails, files, deleting, cleaning, clearing, done, log>>
    BY <1>2 DEF Sends
  <2>3. /\ session' \in [Sessions -> SessionRecords]
        /\ \/ session'[s].pc \in {"save", "save_rejected"}
           \/ session'[s].pc = "reply" /\ session'[s].code = 550
        /\ session'[s].from = session[s].from
        /\ session'[s].to = session[s].to /\ session'[s].named = session[s].named
        /\ session'[s].id = n
        /\ \A x \in Sessions : x # s => session'[x] = session[x]
    BY <1>2 DEF Sends, Takes
  <2> QED
    BY <2>1, <2>2, <2>3
<1>3. ASSUME NEW s \in Sessions, Saves(s)
      PROVE  QueueInv'
    BY <1>3 DEF Saves, Stores, Moves
<1>4. ASSUME NEW s \in Sessions, SavesNothing(s)
      PROVE  QueueInv'
    BY <1>4 DEF SavesNothing, Moves
<1>5. ASSUME NEW s \in Sessions, Files(s)
      PROVE  QueueInv'
    BY <1>5 DEF Files, Moves, Adds
<1>6. ASSUME NEW s \in Sessions, FilesNothing(s)
      PROVE  QueueInv'
    BY <1>6 DEF FilesNothing, Moves
<1>7. ASSUME NEW s \in Sessions, Drops(s)
      PROVE  QueueInv'
    BY <1>7 DEF Drops, Moves, Adds
<1>8. ASSUME NEW s \in Sessions, Queues(s)
      PROVE  QueueInv'
  <2>1. /\ session[s].id \in Numbers /\ session[s].id # 0 /\ "queued" \notin log[session[s].id]
        /\ sent[session[s].id] = session[s].from /\ session[s].from \notin done
    BY <1>8 DEF Queues
  <2>2. /\ UNCHANGED <<sent, named, done>>
        /\ session'[s].id = session[s].id /\ session'[s].from = session[s].from
        /\ session'[s].pc = "reply" /\ session'[s].code = 250
        /\ \A x \in Sessions : x # s => session'[x] = session[x]
    BY <1>8 DEF Queues, Moves
  <2>3. /\ log'[session[s].id] = log[session[s].id] \cup {"queued"}
        /\ \A n \in Numbers : n # session[s].id => log'[n] = log[n]
    BY <1>8, <2>1 DEF Queues, Adds
  <2>4. \A x \in Sessions : x # s => session[x].id # session[s].id /\ session[x].from # session[s].from
    BY <2>1, <1>8, IntakeAssumption DEF Queues
  <2>5. ASSUME NEW n \in Numbers, QueuedOnce(n)'
        PROVE  sent[n] \in done \/ \E x \in Sessions : session'[x].id = n
    BY <2>2, <2>3, <2>5
  <2>6. ASSUME NEW x \in Sessions
        PROVE  /\ session'[x].from \notin done
               /\ session'[x].id # 0 /\ "queued" \in log'[session'[x].id] =>
                    session'[x].pc = "reply" /\ session'[x].code = 250
    BY <2>1, <2>2, <2>3, <2>4
  <2>7. ASSUME NEW n \in Numbers, QueuedOnce(n), sent[n] = session[s].from
        PROVE  FALSE
    <3>1. PICK x \in Sessions : session[x].id = n
      BY <2>1, <2>7
    <3>2. x # s
      BY <2>1, <2>7, <3>1
    <3>3. session[x].from = sent[n]
      BY <3>1
    <3> QED
      BY <2>4, <2>7, <3>2, <3>3
  <2>8. ASSUME NEW n \in Numbers, NEW k \in Numbers, QueuedOnce(n)', QueuedOnce(k)', sent[n] = sent[k]
        PROVE  n = k
    BY <2>1, <2>3, <2>7, <2>8
  <2> QED
    BY <2>2, <2>5, <2>6, <2>8
<1>9. ASSUME NEW s \in Sessions, QueuesNothing(s)
      PROVE  QueueInv'
    BY <1>9 DEF QueuesNothing, Moves
<1>10. ASSUME NEW s \in Sessions, Resets(s)
      PROVE  QueueInv'
  <2>1. /\ session'[s].from = NoMessage /\ session'[s].id = 0
        /\ \A x \in Sessions : x # s => session'[x] = session[x]
        /\ UNCHANGED sent
    BY <1>10, IdleFields DEF Resets, Ends
  <2>2. /\ done \subseteq done' /\ done' \subseteq done \cup {session[s].from} /\ done' \subseteq Messages
        /\ session[s].id # 0 => "queued" \notin log[session[s].id]
    BY <1>10 DEF Resets
  <2>3. \A n \in Numbers : log'[n] = log[n]
    BY <1>10 DEF Resets, Adds
  <2>5. \A x \in Sessions : x # s => session[x].from \notin done'
    BY <1>10, IntakeAssumption DEF Resets
  <2>6. ASSUME NEW n \in Numbers, QueuedOnce(n)'
        PROVE  sent[n] \in done' \/ \E x \in Sessions : session'[x].id = n
    BY <2>1, <2>2, <2>3, <2>6
  <2>7. ASSUME NEW x \in Sessions
        PROVE  /\ session'[x].from \notin done'
               /\ session'[x].id # 0 /\ "queued" \in log'[session'[x].id] =>
                    session'[x].pc = "reply" /\ session'[x].code = 250
    <3>1. CASE x = s
      BY <2>1, <2>2, <3>1, IntakeAssumption
    <3>2. CASE x # s
      BY <2>1, <2>2, <2>3, <2>5, <3>2
    <3> QED
      BY <3>1, <3>2
  <2>8. ASSUME NEW n \in Numbers, NEW k \in Numbers, QueuedOnce(n)', QueuedOnce(k)', sent[n] = sent[k]
        PROVE  n = k
    BY <2>3, <2>8
  <2> QED
    BY <2>1, <2>6, <2>7, <2>8
<1>11. ASSUME NEW s \in Sessions, Accepts(s)
      PROVE  QueueInv'
  <2>1. /\ session'[s].from = NoMessage /\ session'[s].id = 0
        /\ \A x \in Sessions : x # s => session'[x] = session[x]
        /\ UNCHANGED sent
    BY <1>11, IdleFields DEF Accepts, Ends
  <2>2. /\ done' = done \cup {session[s].from} /\ done' \subseteq Messages
        /\ session[s].id \in Numbers /\ sent[session[s].id] = session[s].from
    BY <1>11 DEF Accepts
  <2>3. \A n \in Numbers : /\ "queued" \in log'[n] <=> "queued" \in log[n]
                           /\ "unheard" \in log'[n] <=> "unheard" \in log[n]
    BY <1>11 DEF Accepts, Adds
  <2>5. \A x \in Sessions : x # s => session[x].from \notin done'
    BY <1>11, IntakeAssumption DEF Accepts
  <2>6. ASSUME NEW n \in Numbers, QueuedOnce(n)'
        PROVE  sent[n] \in done' \/ \E x \in Sessions : session'[x].id = n
    BY <2>1, <2>2, <2>3, <2>6
  <2>7. ASSUME NEW x \in Sessions
        PROVE  /\ session'[x].from \notin done'
               /\ session'[x].id # 0 /\ "queued" \in log'[session'[x].id] =>
                    session'[x].pc = "reply" /\ session'[x].code = 250
    <3>1. CASE x = s
      BY <2>1, <2>2, <3>1, IntakeAssumption
    <3>2. CASE x # s
      BY <2>1, <2>2, <2>3, <2>5, <3>2
    <3> QED
      BY <3>1, <3>2
  <2>8. ASSUME NEW n \in Numbers, NEW k \in Numbers, QueuedOnce(n)', QueuedOnce(k)', sent[n] = sent[k]
        PROVE  n = k
    BY <2>3, <2>8
  <2> QED
    BY <2>1, <2>6, <2>7, <2>8
<1>12. ASSUME NEW s \in Sessions, Loses(s)
      PROVE  QueueInv'
  <2>1. /\ session'[s].from = NoMessage /\ session'[s].id = 0
        /\ \A x \in Sessions : x # s => session'[x] = session[x]
        /\ UNCHANGED sent
    BY <1>12, IdleFields DEF Loses, Ends
  <2>2. /\ done' = done /\ session[s].id \in Numbers
    BY <1>12 DEF Loses
  <2>3. \A n \in Numbers : /\ "queued" \in log'[n] <=> "queued" \in log[n]
                           /\ "unheard" \in log[n] => "unheard" \in log'[n]
    BY <1>12 DEF Loses, Adds
  <2>4. "queued" \in log[session[s].id] => "unheard" \in log'[session[s].id]
    BY <1>12, <2>2 DEF Loses, Adds, Queued
  <2>5. \A x \in Sessions : x # s => session[x].from \notin done'
    BY <2>2
  <2>6. ASSUME NEW n \in Numbers, QueuedOnce(n)'
        PROVE  sent[n] \in done' \/ \E x \in Sessions : session'[x].id = n
    BY <2>1, <2>2, <2>3, <2>4, <2>6
  <2>7. ASSUME NEW x \in Sessions
        PROVE  /\ session'[x].from \notin done'
               /\ session'[x].id # 0 /\ "queued" \in log'[session'[x].id] =>
                    session'[x].pc = "reply" /\ session'[x].code = 250
    <3>1. CASE x = s
      BY <2>1, <2>2, <3>1, IntakeAssumption
    <3>2. CASE x # s
      BY <2>1, <2>2, <2>3, <2>5, <3>2
    <3> QED
      BY <3>1, <3>2
  <2>8. ASSUME NEW n \in Numbers, NEW k \in Numbers, QueuedOnce(n)', QueuedOnce(k)', sent[n] = sent[k]
        PROVE  n = k
    BY <2>3, <2>8
  <2> QED
    BY <2>1, <2>6, <2>7, <2>8
<1>13. ASSUME NEW n \in Numbers, DeletesOne(n)
      PROVE  QueueInv'
    BY <1>13 DEF DeletesOne, Deletes, Adds
<1>14. ASSUME NEW n \in Numbers, Finishes(n)
      PROVE  QueueInv'
    BY <1>14 DEF Finishes, Marks, Adds
<1>15. ASSUME NEW n \in Numbers, Replays(n)
      PROVE  QueueInv'
    BY <1>15 DEF Replays, Marks
<1>16. ASSUME NEW ids \in SUBSET DOMAIN emails, Cleans(ids)
      PROVE  QueueInv'
    BY <1>16 DEF Cleans, Deletes
<1>17. CASE DeletesAll
    BY <1>17 DEF DeletesAll, Deletes
<1>18. CASE DeletesNothing
    BY <1>18 DEF DeletesNothing
<1>19. ASSUME NEW kept \in SUBSET Numbers, Removes(kept)
      PROVE  QueueInv'
    BY <1>19 DEF Removes, Adds
<1>20. CASE ListAll
    BY <1>20 DEF ListAll, stores, clients
<1>21. ASSUME NEW kept \in SUBSET Numbers, Strips(kept)
      PROVE  QueueInv'
    BY <1>21 DEF Strips, Adds
<1>22. ASSUME NEW ids \in SUBSET DOMAIN emails, CleansPartly(ids)
      PROVE  QueueInv'
    BY <1>22 DEF CleansPartly, Deletes, Adds
<1>23. CASE Signal
    BY <1>23 DEF Signal, stores, deleters, clients
<1>24. CASE Exit
  <2>1. /\ session' = [s \in Sessions |-> Idle]
        /\ UNCHANGED <<sent, named, done>>
    BY <1>24 DEF Exit, clients
  <2>2. \A s \in Sessions : session'[s].from = NoMessage /\ session'[s].id = 0
    BY <2>1, IdleFields
  <2>3. \A n \in Numbers : /\ "queued" \in log'[n] <=> "queued" \in log[n]
                           /\ "unheard" \in log[n] => "unheard" \in log'[n]
    BY <1>24 DEF Exit
  <2>4. \A n \in Numbers, s \in Sessions :
          session[s].id = n /\ "queued" \in log[n] => "unheard" \in log'[n]
    BY <1>24 DEF Exit, Queued
  <2>5. ASSUME NEW n \in Numbers, QueuedOnce(n)'
        PROVE  sent[n] \in done
    BY <2>3, <2>4, <2>5
  <2>6. NoMessage \notin done
    BY IntakeAssumption
  <2>7. ASSUME NEW n \in Numbers, NEW k \in Numbers, QueuedOnce(n)', QueuedOnce(k)', sent[n] = sent[k]
        PROVE  n = k
    BY <2>3, <2>7
  <2> QED
    BY <2>1, <2>2, <2>5, <2>6, <2>7
<1>25. CASE Start
    BY <1>25 DEF Start, stores, deleters, clients
<1>26. CASE UNCHANGED vars
    BY <1>26 DEF vars
<1> QED
    BY <1>1, <1>2, <1>3, <1>4, <1>5, <1>6, <1>7, <1>8, <1>9, <1>10,
       <1>11, <1>12, <1>13, <1>14, <1>15, <1>16, <1>17, <1>18, <1>19, <1>20, <1>21, <1>22, <1>23, <1>24, <1>25, <1>26 DEF Effects, SessionEffects

\* Files come and go with their emails.
LEMMA FileStep ==
    ASSUME TypeInv, SessionInv, FreshInv, FileInv, Effects
    PROVE  FileInv'
<1> USE DEF TypeInv, SessionInv, FreshInv, Untouched, FileInv, KeptEmailsKeepFiles, FilesGoWithEmails, Numbered, Numbers
<1>1. ASSUME NEW s \in Sessions, Opens(s)
      PROVE  FileInv'
    BY <1>1 DEF Opens
<1>2. ASSUME NEW s \in Sessions, NEW n \in 1..MaxSends, Sends(s, n)
      PROVE  FileInv'
  <2>1. n \in DOMAIN log
    BY <1>2 DEF NumbersInv
  <2> HIDE DEF Numbers
  <2>2. /\ n \notin Numbers /\ Numbers' = Numbers \cup {n}
        /\ sent' \in [Numbers' -> Messages]
        /\ sent'[n] = session[s].from /\ named'[n] = session[s].named
        /\ \A k \in Numbers : sent'[k] = sent[k] /\ named'[k] = named[k]
        /\ session[s].pc = "envelope" /\ session[s].to # {}
        /\ UNCHANGED <<emails, files, deleting, cleaning, clearing, done, log>>
    BY <1>2 DEF Sends
  <2>3. /\ session' \in [Sessions -> SessionRecords]
        /\ \/ session'[s].pc \in {"save", "save_rejected"}
           \/ session'[s].pc = "reply" /\ session'[s].code = 550
        /\ session'[s].from = session[s].from
        /\ session'[s].to = session[s].to /\ session'[s].named = session[s].named
        /\ session'[s].id = n
        /\ \A x \in Sessions : x # s => session'[x] = session[x]
    BY <1>2 DEF Sends, Takes
  <2> QED
    BY <2>1, <2>2, <2>3
<1>3. ASSUME NEW s \in Sessions, Saves(s)
      PROVE  FileInv'
    BY <1>3 DEF Saves, Stores, Moves
<1>4. ASSUME NEW s \in Sessions, SavesNothing(s)
      PROVE  FileInv'
    BY <1>4 DEF SavesNothing, Moves
<1>5. ASSUME NEW s \in Sessions, Files(s)
      PROVE  FileInv'
    BY <1>5 DEF Files, Moves, Adds
<1>6. ASSUME NEW s \in Sessions, FilesNothing(s)
      PROVE  FileInv'
    BY <1>6 DEF FilesNothing, Moves
<1>7. ASSUME NEW s \in Sessions, Drops(s)
      PROVE  FileInv'
    BY <1>7 DEF Drops, Moves, Adds
<1>8. ASSUME NEW s \in Sessions, Queues(s)
      PROVE  FileInv'
    BY <1>8 DEF Queues, Moves, Marks, Adds
<1>9. ASSUME NEW s \in Sessions, QueuesNothing(s)
      PROVE  FileInv'
    BY <1>9 DEF QueuesNothing, Moves
<1>10. ASSUME NEW s \in Sessions, Resets(s)
      PROVE  FileInv'
    BY <1>10, IdleFields DEF Resets, Ends, Adds
<1>11. ASSUME NEW s \in Sessions, Accepts(s)
      PROVE  FileInv'
    BY <1>11, IdleFields DEF Accepts, Ends, Adds
<1>12. ASSUME NEW s \in Sessions, Loses(s)
      PROVE  FileInv'
    BY <1>12, IdleFields DEF Loses, Ends, Adds, Queued
<1>13. ASSUME NEW n \in Numbers, DeletesOne(n)
      PROVE  FileInv'
    BY <1>13 DEF DeletesOne, Deletes, Adds
<1>14. ASSUME NEW n \in Numbers, Finishes(n)
      PROVE  FileInv'
    BY <1>14 DEF Finishes, Marks, Adds
<1>15. ASSUME NEW n \in Numbers, Replays(n)
      PROVE  FileInv'
    BY <1>15 DEF Replays, Marks
<1>16. ASSUME NEW ids \in SUBSET DOMAIN emails, Cleans(ids)
      PROVE  FileInv'
    BY <1>16 DEF Cleans, Deletes
<1>17. CASE DeletesAll
    BY <1>17 DEF DeletesAll, Deletes
<1>18. CASE DeletesNothing
    BY <1>18 DEF DeletesNothing
<1>19. ASSUME NEW kept \in SUBSET Numbers, Removes(kept)
      PROVE  FileInv'
    BY <1>19 DEF Removes, Adds
<1>20. CASE ListAll
    BY <1>20 DEF ListAll, stores, clients
<1>21. ASSUME NEW kept \in SUBSET Numbers, Strips(kept)
      PROVE  FileInv'
    BY <1>21 DEF Strips, Adds
<1>22. ASSUME NEW ids \in SUBSET DOMAIN emails, CleansPartly(ids)
      PROVE  FileInv'
    BY <1>22 DEF CleansPartly, Deletes, Adds
<1>23. CASE Signal
    BY <1>23 DEF Signal, stores, deleters, clients
<1>24. CASE Exit
    BY <1>24, IdleFields DEF Exit, Queued, stores, clients
<1>25. CASE Start
    BY <1>25 DEF Start, stores, deleters, clients
<1>26. CASE UNCHANGED vars
    BY <1>26 DEF vars
<1> QED
    BY <1>1, <1>2, <1>3, <1>4, <1>5, <1>6, <1>7, <1>8, <1>9, <1>10,
       <1>11, <1>12, <1>13, <1>14, <1>15, <1>16, <1>17, <1>18, <1>19, <1>20, <1>21, <1>22, <1>23, <1>24, <1>25, <1>26 DEF Effects, SessionEffects

\* The inductive invariant.
MailInv ==
    /\ TypeInv
    /\ SessionInv
    /\ FreshInv
    /\ EnvelopeIsOneTransaction
    /\ PromiseInv
    /\ QueueInv
    /\ FileInv

LEMMA InitMailInv ==
    ASSUME Init
    PROVE  MailInv
<1> USE DEF Init
<1>1. Numbers = {} /\ DOMAIN emails = {}
    BY DEF Numbers
<1>2. Idle \in SessionRecords /\ \A s \in Sessions : session[s] = Idle
    BY IntakeAssumption DEF Idle, SessionRecords, SessionSteps
<1>3. NumbersInv
  <2>1. Numbers = 1..0 /\ 0 \in 0..MaxSends
    BY <1>1, IntakeAssumption
  <2> QED
    BY <2>1 DEF NumbersInv
<1>4. TypeInv
    BY <1>1, <1>2, <1>3 DEF TypeInv, Numbers
<1>5. SessionInv
    BY <1>2, IdleFields DEF SessionInv, Numbered
<1>6. FreshInv
    BY <1>2, IdleFields DEF FreshInv
<1>7. PromiseInv /\ EnvelopeIsOneTransaction
    BY <1>1 DEF PromiseInv, EnvelopeIsOneTransaction
<1>8. QueueInv
    BY <1>1, <1>2, IdleFields DEF QueueInv
<1>9. FileInv
    BY <1>1 DEF FileInv, KeptEmailsKeepFiles, FilesGoWithEmails
<1> QED
    BY <1>4, <1>5, <1>6, <1>7, <1>8, <1>9 DEF MailInv

LEMMA NextMailInv ==
    ASSUME MailInv, [Next]_vars
    PROVE  MailInv'
<1>1. Effects
    BY StepEffects DEF MailInv
<1> QED
    BY <1>1, TypeStep, SessionStep, FreshStep, EnvelopeStep, PromiseStep, QueueStep, FileStep
       DEF MailInv

LEMMA MailInvariant == Spec => []MailInv
<1>1. Init => MailInv
    BY InitMailInv
<1>2. MailInv /\ [Next]_vars => MailInv'
    BY NextMailInv
<1> QED
    BY <1>1, <1>2, PTL DEF Spec

\* However sessions interleave, begin again and are reset, a stored email has the
\* sender of its message and the recipients accepted since the last Reset.
THEOREM EnvelopesAreOneTransaction == Spec => []EnvelopeIsOneTransaction
<1>1. MailInv => EnvelopeIsOneTransaction
    BY DEF MailInv
<1> QED
    BY <1>1, MailInvariant, PTL

\* No message that the handler of main.go answered by 250 is lost, whatever fails
\* and whenever the process ends.
THEOREM NoAcceptedMailIsLost == Spec => []AcceptedIsNotLost
<1>1. MailInv => AcceptedIsNotLost
    BY DEF MailInv, PromiseInv, Promised, AcceptedIsNotLost
<1> QED
    BY <1>1, MailInvariant, PTL

\* Of the times a message was queued, the client can have heard of one.
THEOREM HeardMailIsQueuedOnce == Spec => []QueuedTwiceOnlyIfUnheard
<1>1. ASSUME MailInv
      PROVE  QueuedTwiceOnlyIfUnheard
  <2> SUFFICES ASSUME NEW m \in Messages
               PROVE  Cardinality({n \in {k \in Numbers : sent[k] = m /\ "queued" \in log[k]} :
                                     "unheard" \notin log[n]}) <= 1
    BY DEF QueuedTwiceOnlyIfUnheard
  <2> DEFINE heard == {n \in {k \in Numbers : sent[k] = m /\ "queued" \in log[k]} :
                         "unheard" \notin log[n]}
  <2>1. \A n, k \in heard : n = k
    BY <1>1 DEF MailInv, QueueInv, QueuedOnce
  <2> HIDE DEF heard
  <2>2. heard = {} \/ \E n \in heard : heard = {n}
    BY <2>1
  <2>3. Cardinality(heard) \in {0, 1}
    BY <2>2, FS_EmptySet, FS_Singleton
  <2> QED
    BY <2>3 DEF heard
<1> QED
    BY <1>1, MailInvariant, PTL

\* No deletion and no cleanup takes the file of an email that is kept.
THEOREM KeptEmailsHaveFiles == Spec => []KeptEmailsKeepFiles
<1>1. MailInv => KeptEmailsKeepFiles
    BY DEF MailInv, FileInv
<1> QED
    BY <1>1, MailInvariant, PTL

\* Files outlive their emails only as FilesGoWithEmails says.
THEOREM FilesAreNotLeaked == Spec => []FilesGoWithEmails
<1>1. MailInv => FilesGoWithEmails
    BY DEF MailInv, FileInv
<1> QED
    BY <1>1, MailInvariant, PTL
=============================================================================
