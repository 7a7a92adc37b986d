SPECIFICATION Spec
CONSTANTS
    None = None
    Files = {f1, f2}
    Contents = {c1, c2}
    c1 = c1
    c2 = c2
    f1 = f1
    f2 = f2
    Roots <- OneFile
    Misreads <- Everything
    Limit = 2
    Scan = 3
    MaxCommits = 4
    MaxPushes = 2
CHECK_DEADLOCK FALSE
PROPERTIES BodySaysWhatMergingDoes
