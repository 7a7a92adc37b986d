SPECIFICATION Spec
CONSTANTS
    u1 = u1
    u2 = u2
    v1 = v1
    r1 = r1
    r2 = r2
    Pairs = {u1}
    Keys = {k1, k2}
    Payloads <- PutPatch
    StaleCreates <- NoStaleCreates
    None = None
    NotLoaded = NotLoaded
    Corrupt = Corrupt
    MaxFaults = 2
    Contents = {v1}
    Absent = Absent
    Bases <- AnyBase
    Requests = {r1}
    Caller <- OneCaller
    Overlap = {}
    HasForge = TRUE
    MaxMoves = 1
    Nobody = Nobody
INVARIANTS StagedUntilProposed
