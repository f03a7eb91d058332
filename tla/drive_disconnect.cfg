\* Refuted: disconnecting revokes the token and keeps the row.
SPECIFICATION Spec
CONSTANTS
    s1 = s1
    s2 = s2
    t1 = t1
    t2 = t2
    c1 = c1
    c2 = c2
    d1 = d1
    w1 = w1
    None = None
    Slots = {s1, s2}
    TurnKeys = {t1, t2}
    Opening = {t2}
    ConnectKeys = {c1, c2}
    RevokeKeys = {d1}
    WriteKeys = {w1}
    MaxRequests = 4
    MaxExpiries = 1
PROPERTIES DisconnectEnds
CHECK_DEADLOCK FALSE
