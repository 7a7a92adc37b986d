SPECIFICATION FairSpec
CONSTANTS
    Callers = {g1, g2}
    Pairs = {p1, p2}
    Absent = Absent
    None = None
    MaxHead = 2
    MaxFaults = 1
    MaxLapses = 1
INVARIANTS OneAtATime MirrorAnnounced
PROPERTIES GetReturns PushSeen
