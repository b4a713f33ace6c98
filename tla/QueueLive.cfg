\* Deliveries settle and Shutdown returns: two deliveries, one worker, one restart, one storage failure.
SPECIFICATION SchedulerSpec
CONSTANTS
    Emails = {e1}
    Deliveries = {d1, d2}
    Workers = {w1}
    RetryConfigs <- MCRetryOnce
    Never = Never
    NoSnapshot = NoSnapshot
    NoJob = NoJob
    NoResult = NoResult
    MaxRestarts = 1
    MaxFaults = 1
    MaxDuration = 15
    Overflow = 15
PROPERTIES
    EveryDeliverySettles
    ShutdownTerminates
