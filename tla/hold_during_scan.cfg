\* A legal hold is placed while a retention scan erases.
SPECIFICATION Spec
CONSTANTS
    Requests = {r1}
    Scans = {k1}
    Objects = {o1, o2}
    MaxAttempts = 2
    MaxCrashes = 0
    NoJob = NoJob
    NoObject = NoObject
SYMMETRY Symmetric
PROPERTIES
    HoldProtects
CHECK_DEADLOCK FALSE
