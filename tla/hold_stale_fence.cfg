\* A retention scan is interrupted and the visit held before it resumes.
SPECIFICATION Spec
CONSTANTS
    Requests = {r1}
    Scans = {k1}
    Objects = {o1}
    MaxAttempts = 2
    MaxCrashes = 0
    NoJob = NoJob
    NoObject = NoObject
SYMMETRY Symmetric
INVARIANTS
    HeldMeetsNoDeadFence
CHECK_DEADLOCK FALSE
