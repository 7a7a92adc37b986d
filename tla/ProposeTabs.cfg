SPECIFICATION Spec
CONSTANTS
    u1 = u1
    u2 = u2
    v1 = v1
    r1 = r1
    r2 = r2
    Pairs = {u1}
    Keys = {k1, k2}
    Payloads <- JustPut
    StaleCreates <- NoStaleCreates
    None = None
    NotLoaded = NotLoaded
    Corrupt = Corrupt
    MaxFaults = 0
    Contents = {v1}
    Absent = Absent
    Bases <- NothingYet
    Requests = {r1, r2}
    Caller <- OneCaller
    Overlap <- AnyPoint
    HasForge = TRUE
    MaxMoves = 0
    Nobody = Nobody
INVARIANTS StagedUntilProposed
