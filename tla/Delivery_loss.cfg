CONSTANTS
    Flushers = {f1, f2}
    DataCap = 2
    MaxBatchSize = 2
    MaxDrops = 2
    MaxTicks = 3
SPECIFICATION Spec
INVARIANTS
    NoTickLost
CHECK_DEADLOCK FALSE
