SPECIFICATION FairSpec
CONSTANTS
    v1 = v1
    a = a
    plat = plat
    Viewers = {v1}
    Projects = {a}
    Platform = plat
    Sees <- OneSees
    None = None
    MaxMoves = 2
    MaxFaults = 1
    MaxLapses = 1
    MaxExpiries = 1
INVARIANTS LaneOrDue FrameShowsLane
PROPERTIES LaneConverges
