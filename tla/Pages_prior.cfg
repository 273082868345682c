SPECIFICATION Spec
CONSTANTS
    Routes = {"/blog"}
    Filters <- TwoFilters
    Blank <- NoDrafts
    Mutations = {m1}
    Retries = 0
    MaxVersion = 2
    MaxFaults = 1
PROPERTIES PriorListStays
CHECK_DEADLOCK FALSE
