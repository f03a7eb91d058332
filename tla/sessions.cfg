\* Two requests at a time over the sessions of one browser.
SPECIFICATION Spec
CONSTANTS
    Requests = {q1, q2}
    Keys = {k1, k2, k3}
    Flows = {f1, f2}
    Grants = {g1, g2}
    Overlaps = FALSE
    NoKey = NoKey
    NoFlow = NoFlow
    NoGrant = NoGrant
    NoRow = NoRow
SYMMETRY Symmetric
INVARIANTS
    TokenSentOnce
    StoredTokenIsFresh
PROPERTIES
    EndedStaysEnded
    RefusalSparesRenewed
CHECK_DEADLOCK FALSE
