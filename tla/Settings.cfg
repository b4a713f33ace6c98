\* Two saves, a restart, one failure, one email.
SPECIFICATION FairSpec
CONSTANTS
    t1 = t1
    t2 = t2
    Requests = {r1, r2}
    Configs <- MCConfigs
    FileConfig <- MCFileConfig
    Emails = {e1}
    NoRow = NoRow
    NoForm = NoForm
    Gone = Gone
    Unread = Unread
    MaxDays = 1
    Int32Days = 7
    MaxAge = 2
    MaxBoots = 2
    MaxFaults = 1
INVARIANTS
    CleanSaveSettlesAll
    NothingUnsavedInForce
PROPERTIES
    RetentionHonoured
    ExpiredAreDeleted
CHECK_DEADLOCK FALSE
