\* A job that is no transcription, one worker request at a time, deliveries that may
\* meet the row lock of the dispatcher; fairness.
SPECIFICATION FairSpec
CONSTANTS
    Jobs = {j1}
    Transcribe = {}
    Erasure = {}
    Workers = {w1}
    Dispatchers = {d1}
    MaxAttempts = 2
    ClaimBound = 2
    Stalls = FALSE
    Contention = TRUE
    NoJob = NoJob
    NoEvent = NoEvent
PROPERTIES
    JobSettles
CHECK_DEADLOCK FALSE
