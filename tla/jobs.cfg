\* Workers may stall and deliveries may meet row locks.
SPECIFICATION Spec
CONSTANTS
    Jobs = {j1}
    Transcribe = {j1}
    Erasure = {}
    Workers = {w1,w2}
    Dispatchers = {d1}
    MaxAttempts = 2
    ClaimBound = 2
    Stalls = TRUE
    Contention = TRUE
    NoJob = NoJob
    NoEvent = NoEvent
SYMMETRY Symmetric
INVARIANTS
    OneRunner
    NeverStranded
    RetryIsNotForgotten
PROPERTIES
    ResultsAreFinal
CHECK_DEADLOCK FALSE
