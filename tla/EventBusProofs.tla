--------------------------- MODULE EventBusProofs ---------------------------
(***************************************************************************)
(* Proofs about EventBus, for any number of writers, streams and changes.  *)
(***************************************************************************)
EXTENDS EventBus, TLAPS

\* A round of Notify visits channels that are on the bus, which are open, and
\* none is under way while nobody holds the lock.
LockInv ==
    /\ clients \cap closed = {}
    /\ round \subseteq clients
    /\ holder = None => round = {}

\* The parts of the tab and what its properties rest on.
TabInv ==
    /\ evtSource \in Streams \cup {None}
    /\ userPaused \in BOOLEAN
    /\ connected \subseteq Streams
    /\ OneStreamPerTab

\* Only these steps concern the bus; all others leave it alone.
LEMMA LockStep ==
    ASSUME LockInv, [Next]_vars
    PROVE  LockInv'
<1> USE BusAssumption DEF LockInv
<1>1. ASSUME NEW w \in Writers, Commit(w)
      PROVE  LockInv'
    BY <1>1 DEF Commit
<1>2. CASE CommitQuietly
    BY <1>2 DEF CommitQuietly, bus, notifier
<1>3. ASSUME NEW w \in Writers, Notify(w)
      PROVE  LockInv'
    BY <1>3 DEF Notify, bus
<1>4. ASSUME NEW c \in Streams, SendEvent(c)
      PROVE  LockInv'
    BY <1>4 DEF SendEvent
<1>5. CASE NotifyReturns
    BY <1>5 DEF NotifyReturns, bus
<1>6. ASSUME NEW c \in Streams, Subscribe(c)
      PROVE  LockInv'
    BY <1>6 DEF Subscribe, notifier
<1>7. ASSUME NEW c \in Streams, PassOn(c)
      PROVE  LockInv'
    BY <1>7 DEF PassOn, notifier
<1>8. ASSUME NEW c \in Streams, Unsubscribe(c)
      PROVE  LockInv'
    BY <1>8 DEF Unsubscribe, notifier
<1>9. CASE Answer
    BY <1>9 DEF Answer, bus, notifier
<1>10. CASE Browser
    BY <1>10 DEF Browser, OnRefresh, toggleLiveUpdates, VisibilityChange, OnError, TimerFires,
                 setFilter, openModal, Receive, RequestFails, bus, notifier
<1>11. CASE UNCHANGED vars
    BY <1>11 DEF vars, bus, notifier
<1> QED
    BY <1>1, <1>2, <1>3, <1>4, <1>5, <1>6, <1>7, <1>8, <1>9, <1>10, <1>11
       DEF Next, Server, NotifyStep

\* Notify never sends on a channel that a handler has closed (EventBus.Notify,
\* EventBus.Unsubscribe): no panic, however many tabs come and go.
THEOREM NotifyIsSafe == Spec => []NoSendOnClosed
<1>1. Init => LockInv
    BY DEF Init, LockInv
<1>2. LockInv => NoSendOnClosed
    BY DEF LockInv, NoSendOnClosed
<1> QED
    BY <1>1, <1>2, LockStep, PTL DEF Spec

\* A tab that has no stream opens one, unless it is paused.
LEMMA ConnectStep ==
    ASSUME TabInv, userPaused' \in BOOLEAN, connectSSE,
           userPaused' => evtSource = None
    PROVE  TabInv'
<1>1. CASE evtSource # None \/ userPaused'
    BY <1>1 DEF connectSSE, TabInv, OneStreamPerTab
<1>2. CASE ~(evtSource # None \/ userPaused')
    <2>1. PICK c \in FreeStreams : evtSource' = c /\ connected' = connected \cup {c}
        BY <1>2 DEF connectSSE
    <2>2. c \in Streams
        BY <2>1 DEF FreeStreams
    <2>3. connected = {}
        BY <1>2, BusAssumption DEF TabInv, OneStreamPerTab
    <2> QED BY <1>2, <2>1, <2>2, <2>3 DEF TabInv, OneStreamPerTab
<1> QED BY <1>1, <1>2

\* A tab that closes its stream has none.
LEMMA DisconnectStep ==
    ASSUME TabInv, userPaused' \in BOOLEAN, disconnectSSE
    PROVE  TabInv'
BY DEF disconnectSSE, TabInv, OneStreamPerTab

LEMMA TabStep ==
    ASSUME TabInv, [Next]_vars
    PROVE  TabInv'
<1>1. ASSUME UNCHANGED <<evtSource, userPaused, connected>>
      PROVE  TabInv'
    BY <1>1 DEF TabInv, OneStreamPerTab
<1>2. CASE Server
    BY <1>1, <1>2 DEF Server, NotifyStep, Commit, CommitQuietly, Notify, SendEvent, NotifyReturns,
                      Subscribe, PassOn, Unsubscribe, Answer, tab
<1>3. CASE OnRefresh \/ setFilter \/ openModal \/ Receive \/ RequestFails
    BY <1>1, <1>3 DEF OnRefresh, setFilter, openModal, Receive, RequestFails, tab
<1>4. CASE toggleLiveUpdates
    <2>1. userPaused' = ~userPaused /\ userPaused' \in BOOLEAN
        BY <1>4 DEF toggleLiveUpdates, TabInv
    <2>2. CASE userPaused
        <3>1. connectSSE /\ ~userPaused'
            BY <1>4, <2>1, <2>2 DEF toggleLiveUpdates
        <3> QED BY <2>1, <3>1, ConnectStep
    <2>3. CASE ~userPaused
        BY <1>4, <2>1, <2>3, DisconnectStep DEF toggleLiveUpdates
    <2> QED BY <2>2, <2>3
<1>5. CASE VisibilityChange
    <2>1. userPaused' = userPaused /\ userPaused' \in BOOLEAN
        BY <1>5 DEF VisibilityChange, TabInv
    <2>2. CASE userPaused
        BY <1>1, <1>5, <2>1, <2>2 DEF VisibilityChange
    <2>3. CASE ~userPaused /\ hidden'
        BY <1>5, <2>1, <2>3, DisconnectStep DEF VisibilityChange
    <2>4. CASE ~userPaused /\ ~hidden'
        <3>1. connectSSE /\ ~userPaused'
            BY <1>5, <2>1, <2>4 DEF VisibilityChange
        <3> QED BY <2>1, <3>1, ConnectStep
    <2> QED BY <2>2, <2>3, <2>4
<1>6. CASE OnError
    BY <1>6, DisconnectStep DEF OnError, TabInv
<1>7. CASE TimerFires
    <2>1. userPaused' = userPaused /\ userPaused' \in BOOLEAN
        BY <1>7 DEF TimerFires, TabInv
    <2>2. CASE ~hidden /\ ~userPaused
        <3>1. connectSSE /\ ~userPaused'
            BY <1>7, <2>1, <2>2 DEF TimerFires
        <3> QED BY <2>1, <3>1, ConnectStep
    <2>3. CASE ~(~hidden /\ ~userPaused)
        BY <1>1, <1>7, <2>1, <2>3 DEF TimerFires
    <2> QED BY <2>2, <2>3
<1>8. CASE UNCHANGED vars
    BY <1>1, <1>8 DEF vars, tab
<1> QED
    BY <1>2, <1>3, <1>4, <1>5, <1>6, <1>7, <1>8 DEF Next, Browser

\* However errors, reconnect timers, hiding and pausing interleave, a tab has one
\* stream, and none while it is paused (connectSSE, disconnectSSE).
THEOREM TabsHaveOneStream == Spec => []OneStreamPerTab
<1>1. Init => TabInv
    BY DEF Init, TabInv, OneStreamPerTab
<1>2. TabInv => OneStreamPerTab
    BY DEF TabInv
<1> QED
    BY <1>1, <1>2, TabStep, PTL DEF Spec
=============================================================================
