SPECIFICATION Spec
CONSTANTS
    Routes = {"/", "/blog"}
    Filters <- TwoFilters
    Blank <- NoDrafts
    Mutations = {m1}
    Retries = 1
    MaxVersion = 2
    MaxFaults = 1
INVARIANTS TypeOK Fresh KeptWhileFetching EmptyMeansAnswered
CHECK_DEADLOCK FALSE
