SPECIFICATION Spec
CONSTANTS
    p1 = p1
    p2 = p2
    r1 = r1
    r2 = r2
    r3 = r3
    r4 = r4
    NoPost = NoPost
    PostId <- Posts1
    Request <- Requests3
    MaxTime = 1
INVARIANTS PublishShowsPublished
CHECK_DEADLOCK FALSE
