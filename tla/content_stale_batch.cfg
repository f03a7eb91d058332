\* Refuted: the batch an approver is told to make again stays open.
SPECIFICATION Spec
CONSTANTS
    m1 = m1
    m2 = m2
    m3 = m3
    i1 = i1
    i2 = i2
    i3 = i3
    Nobody = Nobody
    Members = {m1, m2, m3}
    Educators = {m1}
    Approvers = {m2}
    Newcomers = {m3}
    Grants = {{"content_approver"}}
    InFlight = 1
    MaxChanges = 1
    Items = {i1, i2, i3}
    Imported = {i1, i2}
    MaxVersions = 2
    MaxRows = 3
    MaxBatches = 1
    Required = 2
PROPERTIES ToldBatchIsClosed
CHECK_DEADLOCK FALSE
