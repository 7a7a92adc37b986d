SPECIFICATION Spec
CONSTANTS
    u1 = u1
    u2 = u2
    v1 = v1
    r1 = r1
    r2 = r2
    Pairs = {u1, u2}
    Keys = {k1}
    Payloads <- PutDelete
    StaleCreates <- NoStaleCreates
    None = None
    NotLoaded = NotLoaded
    Corrupt = Corrupt
    MaxFaults = 0
    Contents = {v1}
    Absent = Absent
    Bases <- AnyBase
    Requests = {r1, r2}
    Caller <- TwoCallers
    Overlap = {"listed"}
    HasForge = TRUE
    MaxMoves = 0
    Nobody = Nobody
INVARIANTS OfferIsTheCallersDraft
PROPERTY NewPRDescribesBranch
