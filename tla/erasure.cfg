\* A deletion request and two retention scans over one visit.
SPECIFICATION Spec
CONSTANTS
    Requests = {r1}
    Scans = {k1, k2}
    Objects = {o1, o2}
    MaxAttempts = 1
    MaxCrashes = 1
    NoJob = NoJob
    NoObject = NoObject
SYMMETRY Symmetric
INVARIANTS
    HoldExcludesDeletion
    GoneIsErased
CHECK_DEADLOCK FALSE
