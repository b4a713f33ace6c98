\* Two messages on one session, two DATA commands, two mishaps.
SPECIFICATION Spec
CONSTANTS
    Sessions = {s1}
    Messages = {m1, m2}
    Recipients = {a, b}
    AllowedRecipients = {a}
    NoMessage = NoMessage
    MaxSends = 2
    MaxMishaps = 2
    MaxReplays = 1
SYMMETRY Symmetry
INVARIANTS
    EnvelopeIsOneTransaction
    AcceptedIsNotLost
    QueuedTwiceOnlyIfUnheard
    KeptEmailsKeepFiles
    
CHECK_DEADLOCK FALSE
