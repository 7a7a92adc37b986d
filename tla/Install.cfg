SPECIFICATION FairSpec
CONSTANTS
    i1 = i1
    i2 = i2
    a1 = a1
    a2 = a2
    Installs = {i1, i2}
    Argos = {a1, a2}
    Specs <- TwoSpecs
    None = None
    MaxEdits = 2
    MaxFaults = 1
CHECK_DEADLOCK FALSE
INVARIANTS Guarded
PROPERTIES SparesRendered Converges
