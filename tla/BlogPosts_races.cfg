SPECIFICATION Spec
CONSTANTS
    p1 = p1
    p2 = p2
    r1 = r1
    r2 = r2
    r3 = r3
    r4 = r4
    NoPost = NoPost
    PostId <- Posts2
    Request <- Requests4
    MaxTime = 2
SYMMETRY Symmetry
INVARIANTS Stamps OneWinner HonestAnswers
PROPERTIES WriteOnce Implements
CHECK_DEADLOCK FALSE
