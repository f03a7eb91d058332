\* Two documents, two preparations and two reviews; five requests of people.
SPECIFICATION TextsSpec
CONSTANTS
    Documents = {d1, d2}
    Preparers = {p1, p2}
    Reviewers = {v1, v2}
    Chunks = 2
    MaxRequests = 5
    MaxFaults = 1
SYMMETRY Symmetric
INVARIANTS
    OnePreparation
    ReviewIsOfOneText
CHECK_DEADLOCK FALSE
