\* Two jobs for the recording, two attempts each, three faults.
SPECIFICATION Spec
CONSTANTS
    Jobs = {j1, j2}
    MaxTries = 2
    MaxFaults = 3
SYMMETRY Symmetric
INVARIANTS
    OneTranscript
    StartedOnce
    CopiesAreKnown
CHECK_DEADLOCK FALSE
