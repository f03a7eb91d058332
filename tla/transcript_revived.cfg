\* A transcript is edited after retention has deleted it.
SPECIFICATION TextsSpec
CONSTANTS
    Documents = {d1}
    Preparers = {p1}
    Reviewers = {v1}
    Chunks = 1
    MaxRequests = 2
    MaxFaults = 0
PROPERTIES
    DeletedStaysDeleted
CHECK_DEADLOCK FALSE
