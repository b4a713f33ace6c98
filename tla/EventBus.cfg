\* One writer and a silent one, two changes, and a tab with two streams.
SPECIFICATION FairSpec
CONSTANTS
    Writers = {w1}
    Streams = {c1, c2}
    None = None
    MaxChanges = 2
    MaxUnread = 1
    MaxTimers = 1
INVARIANTS
    NoSendOnClosed
    OneStreamPerTab
PROPERTIES
    LiveTableCatchesUp
