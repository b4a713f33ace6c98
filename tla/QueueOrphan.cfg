\* An email may stay received with nothing queued for it.
SPECIFICATION Spec
CONSTANTS
    Emails = {e1}
    Deliveries = {d1}
    Workers = {w1, w2}
    RetryConfigs <- MCRetryOnce
    Never = Never
    NoSnapshot = NoSnapshot
    NoJob = NoJob
    NoResult = NoResult
    MaxRestarts = 1
    MaxFaults = 0
    MaxDuration = 15
    Overflow = 15
INVARIANTS
    ReceivedIsQueued
