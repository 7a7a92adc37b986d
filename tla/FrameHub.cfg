SPECIFICATION FairSpec
CONSTANTS
    i1 = i1
    i2 = i2
    c1 = c1
    c2 = c2
    c3 = c3
    r1 = r1
    r2 = r2
    Repos = {r1, r2}
    Git = Git
    Live = Live
    Hub = Hub
    Subs = {Hub}
    SubKinds <- AllKinds
    Conns = {c1}
    Idents = {i1}
    IdentOf <- OneIdent
    Sees <- Shrinks
    Hidden = Hidden
    None = None
    Workers = 1
    MaxMoves = 2
    MaxConns = 1
    MaxFaults = 1
INVARIANTS CurrentMeansCurrent
PROPERTY Converges
CHECK_DEADLOCK FALSE
