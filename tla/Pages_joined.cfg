SPECIFICATION Spec
CONSTANTS
    Routes = {"/blog"}
    Filters <- TwoFilters
    Blank <- NoDrafts
    Mutations = {m1}
    Retries = 0
    MaxVersion = 2
    MaxFaults = 0
INVARIANTS RefreshTogether
CHECK_DEADLOCK FALSE
