\* A delivery may meet the row lock of another transaction.
SPECIFICATION Spec
CONSTANTS
    Jobs = {j1}
    Transcribe = {j1}
    Erasure = {}
    Workers = {w1}
    Dispatchers = {d1}
    MaxAttempts = 2
    ClaimBound = 2
    Stalls = FALSE
    Contention = TRUE
    NoJob = NoJob
    NoEvent = NoEvent
INVARIANTS
    RetryHasWakeup
CHECK_DEADLOCK FALSE
