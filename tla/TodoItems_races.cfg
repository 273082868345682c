SPECIFICATION Spec
CONSTANTS
    t1 = t1
    t2 = t2
    r1 = r1
    r2 = r2
    r3 = r3
    r4 = r4
    r5 = r5
    NoTodo = NoTodo
    TodoId <- Items2
    Request <- Requests5
SYMMETRY Symmetry
INVARIANTS NoLostToggle CreatedAndDeletedOnce ToldTheTruth
PROPERTIES Implements
CHECK_DEADLOCK FALSE
