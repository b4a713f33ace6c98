\* Two workers, two deliveries of one email, one restart, one storage failure.
SPECIFICATION Spec
CONSTANTS
    Emails = {e1}
    Deliveries = {d1, d2}
    Workers = {w1, w2}
    RetryConfigs <- MCRetryConfigs
    Never = Never
    NoSnapshot = NoSnapshot
    NoJob = NoJob
    NoResult = NoResult
    MaxRestarts = 1
    MaxFaults = 1
    MaxDuration = 15
    Overflow = 15
SYMMETRY Symmetry
INVARIANTS
    TypeOK
    ExclusiveClaim
    InProgressIsHeld
    ReceivedUntilFinished
    StatusTellsOutcome
    UnfinishedIsScheduled
    SendsBounded
PROPERTIES
    GivenUpIsEarned
    SettledForGood
    ImplementsLedger
