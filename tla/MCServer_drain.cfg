SPECIFICATION Spec
CONSTANTS
    MaxWorkers = 1
    MaxConnections = 2
    MaxAccepts = 3
    Given <- OnlyDefault
    Environments <- OnlyNoEnv
INVARIANT ShutdownDrains
CHECK_DEADLOCK FALSE
