SPECIFICATION Spec
CONSTANTS
    t1 = t1
    t2 = t2
    Tabs = {t1, t2}
    Operations <- AllOperations
    Layouts <- ThreeLayouts
    Clusters <- TwoClusters
    None = None
    MaxRequests = 1
    MaxMoves = 0
    MaxFaults = 0
CHECK_DEADLOCK FALSE

PROPERTIES WritesSpareNeighbours
