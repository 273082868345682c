SPECIFICATION FairSpec
CONSTANTS
    Requests = {r1, r2, r3, r4}
    Pool = 2
    Statements = 2
INVARIANTS TypeOK NoLeak WaitsForWork EndsIdle
PROPERTIES KeepsPromise
CHECK_DEADLOCK FALSE
