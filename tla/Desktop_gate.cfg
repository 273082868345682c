SPECIFICATION FairSpec
CONSTANTS
    Launches = 2
    Builds <- TwoBuilds
    Ports <- TwoPorts
    Default = 8080
    Override = 0
    Retries = 8
    SlowAfter = 3
    MaxFaults = 1
INVARIANTS TypeOK OneSidecar OwnServer
PROPERTIES ReadyStays NoEndlessSplash RetryFinds
CHECK_DEADLOCK FALSE
