\* A logout that meets the replacement of its session by a renewal.
SPECIFICATION Spec
CONSTANTS
    Requests = {q1}
    Keys = {k1, k2}
    Flows = {f1}
    Grants = {g1, g2}
    Overlaps = TRUE
    NoKey = NoKey
    NoFlow = NoFlow
    NoGrant = NoGrant
    NoRow = NoRow
SYMMETRY Symmetric
INVARIANT LogoutEnds
CHECK_DEADLOCK FALSE
