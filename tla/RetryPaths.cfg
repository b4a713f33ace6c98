\* The build that converts a float that is too large to the smallest duration.
SPECIFICATION Spec
CONSTANTS
    MaxDuration <- MCMaxDuration
    Overflow <- MCOverflow
    Retries = {0, 1, 2, 5}
    Waits = {0, 1, 3, 7, 12}
INVARIANTS
    PathsAgree
    WaitIsExponential
CHECK_DEADLOCK FALSE
