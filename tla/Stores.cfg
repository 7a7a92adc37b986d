SPECIFICATION MCSpec
CONSTANTS
    Namespaces = {n1, n2}
    Requests = {r1, r2}
    Unseen = Unseen
    MaxMoves = 3
    MaxCallFaults = 1
    Pairs = {alice, bob}
    Keys = {vm, net}
    Payloads = {edit, oldCreate}
    StaleCreates = {oldCreate}
    None = None
    NotLoaded = NotLoaded
    Corrupt = Corrupt
    MaxFaults = 2
SYMMETRY Alike
INVARIANTS RestartLosesNothing NothingOutlivesRevocation NothingMissing
PROPERTIES DurableDrafts
