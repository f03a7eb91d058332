\* A retention scan clears the fence of a queued deletion.
SPECIFICATION Spec
CONSTANTS
    Requests = {r1}
    Scans = {k1}
    Objects = {o1, o2}
    MaxAttempts = 2
    MaxCrashes = 0
    NoJob = NoJob
    NoObject = NoObject
SYMMETRY Symmetric
INVARIANTS
    HeldResumable
CHECK_DEADLOCK FALSE
