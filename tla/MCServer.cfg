CONSTANTS
    MaxWorkers = 1
    MaxConnections = 2
    MaxAccepts = 4
    Given <- AllGiven
    Environments <- AllEnvs
SPECIFICATION FairSpec
INVARIANTS
    ConfigSettled
    FailedStartClean
    ServesAsConfigured
    ClosedStaysClosed
    NilMeansEnded
    HealthTellsClosed
PROPERTIES
    StopEnds
\* A stopped server comes to rest.
CHECK_DEADLOCK FALSE
