\* A worker may stall until its lease lapses.
SPECIFICATION Spec
CONSTANTS
    Jobs = {j1}
    Transcribe = {j1}
    Erasure = {}
    Workers = {w1,w2}
    Dispatchers = {d1}
    MaxAttempts = 2
    ClaimBound = 2
    Stalls = TRUE
    Contention = FALSE
    NoJob = NoJob
    NoEvent = NoEvent
SYMMETRY Symmetric
PROPERTIES
    TerminalStays
CHECK_DEADLOCK FALSE
