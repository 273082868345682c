SPECIFICATION LSpec
CONSTANTS
    p1 = p1
    p2 = p2
    p3 = p3
    r1 = r1
    r2 = r2
    r3 = r3
    NoPost = NoPost
    PostId <- Posts2
    Request <- Requests3
    MaxTime = 2
    MaxPage = 2
    Limits <- Asked
SYMMETRY Symmetry
INVARIANTS MissesNone
PROPERTIES StatsGrow
CHECK_DEADLOCK FALSE
