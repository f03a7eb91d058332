\* Two pages of one search, two executions of the handler.
SPECIFICATION Spec
CONSTANTS
    Searches = {s1}
    MaxPage = 2
    MaxTries = 2
    MaxRows = 2
    MaxFaults = 2
    Workers = {w1, w2}
    Budget = 2
    PendingLimit = 1
    Nobody = Nobody
    Gone = Gone
SYMMETRY Symmetric
INVARIANTS
    PaidIsHeld
    SnapshotCounts
    BoughtOnce
CHECK_DEADLOCK FALSE
