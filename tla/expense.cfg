\* One receipt, two reading jobs, purges and holds; and the day of a branch
\* with two members, one receipt each.
SPECIFICATION MCSpec
CONSTANTS
    Receipts = {e1}
    Jobs = {j1, j2}
    MaxImages = 1
    MaxAttempts = 2
    NoJob = NoJob
    NoReceipt = NoReceipt
    Members = {m1, m2}
    MaxReceipts = 1
    MaxCash = 2
    MaxTransfers = 2
SYMMETRY Symmetric
INVARIANTS
    HeldReceiptKeepsContent
    PurgedIsErased
    ReadyIsComplete
    ClosedAsReconciled
    ShortageAgrees
PROPERTIES
    ReadOnce
    ImplementsLifecycle
CHECK_DEADLOCK FALSE
