------------------------------ MODULE EventBus ------------------------------
(***************************************************************************)
(* Live updates of the email list: the event bus and handleSSE of          *)
(* internal/webui/handler.go, the script of templates/list.html, and the   *)
(* writers that change the store and then call Notify.                     *)
(*                                                                         *)
(* db counts the changes to the store, and the table shows the count its   *)
(* last response was made from. A channel has room for one event; Notify   *)
(* visits the channels one by one under the bus's lock and drops the event *)
(* where there is no room. Subscribe and Unsubscribe are single steps that *)
(* wait for the lock.                                                      *)
(*                                                                         *)
(* One tab is modelled. Streams it has left stay on the bus until their    *)
(* handlers notice.                                                        *)
(***************************************************************************)
EXTENDS Naturals, FiniteSets

CONSTANTS
    Writers,     \* goroutines that change the store and notify
    Streams,     \* requests for /api/events, each with its channel
    None,        \* no stream, writer or request
    MaxChanges,  \* bound on changes to the store
    MaxUnread,   \* events a connection buffers before its handler blocks
    MaxTimers    \* bound on reconnect timers that are pending at once

ASSUME BusAssumption ==
    /\ MaxChanges \in Nat /\ MaxUnread \in Nat \ {0} /\ MaxTimers \in Nat
    /\ None \notin Streams \cup Writers

VARIABLES
    db,         \* changes committed to the store
    writer,     \* what each writer does: idle, committed
    holder,     \* the writer inside Notify, which holds EventBus.mu
    round,      \* channels that writer has still to visit
    clients,    \* EventBus.clients
    full,       \* channels that hold an event
    closed,     \* channels that were closed
    requested,  \* streams whose handler has not subscribed yet
    connected,  \* streams whose connection is up
    unread,     \* events written to a stream and not read by the tab
    owed,       \* the last change committed while the stream was subscribed
    evtSource, userPaused, hidden,
    timers,     \* reconnect timers that are pending
    slot,       \* the request htmx has in flight: its part and what it read
    next,       \* the request htmx keeps for later
    shown,      \* the change the table shows
    missed      \* since the last refresh, a request for the table failed or was discarded

bus == <<clients, full, closed, requested, owed>>
notifier == <<writer, holder, round>>
tab == <<evtSource, userPaused, hidden, timers>>
page == <<slot, next, shown, missed>>
vars == <<db, notifier, bus, connected, unread, tab, page>>

Unread == MaxChanges + 1   \* a request the server has not answered

Init ==
    /\ db = 0
    /\ writer = [w \in Writers |-> "idle"]
    /\ holder = None /\ round = {}
    /\ clients = {} /\ full = {} /\ closed = {}
    /\ unread = [c \in Streams |-> 0]
    /\ owed = [c \in Streams |-> 0]
    /\ evtSource \in Streams
    /\ requested = {evtSource} /\ connected = {evtSource}
    /\ userPaused = FALSE /\ hidden \in BOOLEAN /\ timers = 0
    /\ slot = None /\ next = None
    /\ shown = 0
    /\ missed = FALSE
-----------------------------------------------------------------------------
(***************************************************************************)
(* The writers: handlers of mail, of deletions and replays, the workers of *)
(* the delivery queue.                                                     *)
(***************************************************************************)

\* What the store now holds is owed to the streams that are subscribed.
Commit(w) ==
    /\ writer[w] = "idle" /\ db < MaxChanges
    /\ db' = db + 1
    /\ writer' = [writer EXCEPT ![w] = "committed"]
    /\ owed' = [c \in Streams |-> IF c \in clients THEN db + 1 ELSE owed[c]]
    /\ UNCHANGED <<holder, round, clients, full, closed, requested, connected, unread, tab, page>>

\* Changes nobody announces: retention, and mail whose deliveries could not
\* be queued.
CommitQuietly ==
    /\ db < MaxChanges
    /\ db' = db + 1
    /\ UNCHANGED <<notifier, bus, connected, unread, tab, page>>

Notify(w) ==
    /\ writer[w] = "committed" /\ holder = None
    /\ holder' = w
    /\ round' = clients
    /\ UNCHANGED <<db, writer, bus, connected, unread, tab, page>>

\* A full channel stays as it is.
SendEvent(c) ==
    /\ holder # None /\ c \in round
    /\ round' = round \ {c}
    /\ full' = full \cup {c}
    /\ UNCHANGED <<db, writer, holder, clients, closed, requested, owed, connected, unread, tab, page>>

NotifyReturns ==
    /\ holder # None /\ round = {}
    /\ holder' = None
    /\ writer' = [writer EXCEPT ![holder] = "idle"]
    /\ UNCHANGED <<db, round, bus, connected, unread, tab, page>>
-----------------------------------------------------------------------------
(***************************************************************************)
(* handleSSE, one per stream.                                              *)
(***************************************************************************)

Subscribe(c) ==
    /\ c \in requested /\ holder = None
    /\ requested' = requested \ {c}
    /\ clients' = clients \cup {c}
    /\ closed' = closed \ {c}
    /\ UNCHANGED <<db, notifier, full, owed, connected, unread, tab, page>>

\* case <-ch, with room in the connection for what is written.
PassOn(c) ==
    /\ c \in clients \cap full /\ unread[c] < MaxUnread
    /\ full' = full \ {c}
    /\ unread' = [unread EXCEPT ![c] = IF c \in connected THEN @ + 1 ELSE @]
    /\ UNCHANGED <<db, notifier, clients, closed, requested, owed, connected, tab, page>>

\* Faulty variant: the lock is not taken.
Unsubscribe_Unlocked(c) ==
    /\ c \in clients \ connected
    /\ clients' = clients \ {c}
    /\ closed' = closed \cup {c}
    /\ full' = full \ {c}
    /\ owed' = [owed EXCEPT ![c] = 0]
    /\ UNCHANGED <<db, notifier, requested, connected, unread, tab, page>>

\* The context of the request is done when its connection is gone; the deferred
\* Unsubscribe deletes the channel and closes it.
Unsubscribe(c) ==
    /\ c \in clients \ connected /\ holder = None
    /\ clients' = clients \ {c}
    /\ closed' = closed \cup {c}
    /\ full' = full \ {c}
    /\ owed' = [owed EXCEPT ![c] = 0]
    /\ UNCHANGED <<db, notifier, requested, connected, unread, tab, page>>
-----------------------------------------------------------------------------
(***************************************************************************)
(* The script of the page.                                                 *)
(***************************************************************************)

FreeStreams == Streams \ (requested \cup clients \cup connected)

\* Faulty variant: a stream that is there already is not looked for.
connectSSE_Always ==
    IF userPaused' THEN UNCHANGED <<evtSource, connected, requested, unread>>
    ELSE \E c \in FreeStreams :
            /\ evtSource' = c
            /\ connected' = connected \cup {c}
            /\ requested' = requested \cup {c}
            /\ unread' = [unread EXCEPT ![c] = 0]

connectSSE ==
    IF evtSource # None \/ userPaused' THEN UNCHANGED <<evtSource, connected, requested, unread>>
    ELSE \E c \in FreeStreams :
            /\ evtSource' = c
            /\ connected' = connected \cup {c}
            /\ requested' = requested \cup {c}
            /\ unread' = [unread EXCEPT ![c] = 0]

disconnectSSE ==
    /\ evtSource' = None
    /\ connected' = connected \ {evtSource}
    /\ UNCHANGED <<requested, unread>>

\* Faulty variant: an event is ignored while a request is in flight.
refreshContent_WhenIdle ==
    /\ slot' = IF slot = None THEN [part |-> "stats", read |-> Unread] ELSE slot
    /\ next' = IF slot = None THEN "table" ELSE next
    /\ missed' = FALSE
    /\ UNCHANGED shown

\* Two calls of htmx.ajax for the body: one request is in flight and of the others
\* only the last is kept.
refreshContent ==
    /\ slot' = IF slot = None THEN [part |-> "stats", read |-> Unread] ELSE slot
    /\ next' = "table"
    /\ missed' = FALSE
    /\ UNCHANGED shown

OnRefresh ==
    /\ evtSource # None /\ unread[evtSource] > 0
    /\ unread' = [unread EXCEPT ![evtSource] = @ - 1]
    /\ refreshContent
    /\ UNCHANGED <<db, notifier, bus, connected, tab>>

toggleLiveUpdates ==
    /\ ~hidden
    /\ userPaused' = ~userPaused
    /\ IF userPaused THEN connectSSE /\ refreshContent
       ELSE disconnectSSE /\ UNCHANGED page
    /\ UNCHANGED <<db, notifier, clients, full, closed, owed, hidden, timers>>

VisibilityChange ==
    /\ hidden' = ~hidden
    /\ UNCHANGED userPaused
    /\ IF userPaused THEN UNCHANGED <<evtSource, connected, requested, unread, page>>
       ELSE IF hidden' THEN disconnectSSE /\ UNCHANGED page
       ELSE connectSSE /\ refreshContent
    /\ UNCHANGED <<db, notifier, clients, full, closed, owed, timers>>

\* evtSource.onerror: the stream is closed and tried again later.
OnError ==
    /\ evtSource # None /\ timers < MaxTimers
    /\ disconnectSSE
    /\ timers' = timers + 1
    /\ UNCHANGED <<db, notifier, clients, full, closed, owed, userPaused, hidden, page>>

TimerFires ==
    /\ timers > 0
    /\ timers' = timers - 1
    /\ UNCHANGED userPaused
    /\ IF ~hidden /\ ~userPaused THEN connectSSE
       ELSE UNCHANGED <<evtSource, connected, requested, unread>>
    /\ UNCHANGED <<db, notifier, clients, full, closed, owed, hidden, page>>

\* A click on a row calls htmx.ajax for the body, too: when a request is in flight,
\* this one waits in the place of a refresh.
openModal ==
    /\ ~hidden
    /\ slot' = IF slot = None THEN [part |-> "modal", read |-> Unread] ELSE slot
    /\ next' = IF slot = None THEN None ELSE "modal"
    /\ missed' = (missed \/ next = "table")
    /\ UNCHANGED <<db, notifier, bus, connected, unread, tab, shown>>

setFilter ==
    /\ ~hidden
    /\ refreshContent
    /\ UNCHANGED <<db, notifier, bus, connected, unread, tab>>
-----------------------------------------------------------------------------
(***************************************************************************)
(* Requests of the page: the server reads the store, and later the answer  *)
(* arrives or the request fails; then htmx issues the one it has kept.     *)
(***************************************************************************)

Answer ==
    /\ slot # None /\ slot.read = Unread
    /\ slot' = [slot EXCEPT !.read = db]
    /\ UNCHANGED <<db, notifier, bus, connected, unread, tab, next, shown, missed>>

IssueNext ==
    /\ slot' = IF next = None THEN None ELSE [part |-> next, read |-> Unread]
    /\ next' = None

Receive ==
    /\ slot # None /\ slot.read # Unread
    /\ shown' = IF slot.part = "table" THEN slot.read ELSE shown
    /\ IssueNext
    /\ UNCHANGED <<db, notifier, bus, connected, unread, tab, missed>>

RequestFails ==
    /\ slot # None
    /\ missed' = (missed \/ slot.part = "table")
    /\ IssueNext
    /\ UNCHANGED <<db, notifier, bus, connected, unread, tab, shown>>
-----------------------------------------------------------------------------
NotifyStep ==
    \/ \E w \in Writers : Notify(w)
    \/ \E c \in Streams : SendEvent(c)
    \/ NotifyReturns

Server ==
    \/ \E w \in Writers : Commit(w)
    \/ CommitQuietly
    \/ NotifyStep
    \/ \E c \in Streams : Subscribe(c) \/ PassOn(c) \/ Unsubscribe(c)
    \/ Answer

Browser ==
    \/ OnRefresh \/ toggleLiveUpdates \/ VisibilityChange
    \/ OnError \/ TimerFires \/ setFilter \/ openModal
    \/ Receive \/ RequestFails

Next == Server \/ Browser

Spec == Init /\ [][Next]_vars

\* Goroutines get to run, the lock is handed on, a request is answered or
\* fails, and the browser reads its events. Nobody has to change the store,
\* to click, or to lose a connection.
FairSpec ==
    /\ Spec
    /\ WF_vars(NotifyStep)
    /\ WF_vars(\E c \in Streams : PassOn(c))
    /\ WF_vars(OnRefresh)
    /\ WF_vars(Answer \/ Receive \/ RequestFails)
-----------------------------------------------------------------------------
(***************************************************************************)
(* Properties.                                                             *)
(***************************************************************************)

\* Notify never sends on a channel that handleSSE has closed, which would
\* panic: deleting and closing a channel, and a whole round of Notify, each
\* happen under the lock.
NoSendOnClosed == round \cap closed = {}

\* Whatever the order of errors, reconnect timers, hiding and pausing, a tab
\* has no connection besides that of its evtSource, and a paused tab none:
\* connectSSE tests evtSource and userPaused.
OneStreamPerTab ==
    /\ connected \subseteq {evtSource}
    /\ userPaused => evtSource = None

\* The change that is owed to the tab by the stream it listens to.
Owed == IF evtSource = None THEN 0 ELSE owed[evtSource]

\* A change that is committed and announced while the tab's stream is subscribed
\* comes to be shown in the table, although events are dropped when a channel
\* is full and refreshes when one is in flight: unless the stream ends, the request
\* for the table fails, or a click on a row takes the place of one that waits.
LiveTableCatchesUp ==
    \A n \in 1..MaxChanges :
        Owed >= n ~> (shown >= n \/ Owed < n \/ missed)
=============================================================================
