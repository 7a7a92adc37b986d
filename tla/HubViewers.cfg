SPECIFICATION Spec
CONSTANTS
    i1 = i1
    i2 = i2
    c1 = c1
    c2 = c2
    c3 = c3
    r1 = r1
    r2 = r2
    Repos = {r1, r2}
    Git = Git
    Live = Live
    Hub = Hub
    Subs = {Hub}
    SubKinds <- AllKinds
    Conns = {c1, c2, c3}
    Idents = {i1, i2}
    IdentOf <- TabsAndTenant
    Sees <- Grows
    Hidden = Hidden
    None = None
    Workers = 2
    MaxMoves = 1
    MaxConns = 2
    MaxFaults = 0
SYMMETRY AlikeTabs
PROPERTY ShowsHistory
CHECK_DEADLOCK FALSE
