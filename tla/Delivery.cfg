CONSTANTS
    Flushers = {f1, f2}
    DataCap = 2
    MaxBatchSize = 2
    MaxDrops = 2
    MaxTicks = 3
SPECIFICATION FairSpec
INVARIANTS
    ExactlyOnceInOrder
    FailureReported
PROPERTIES
    DeliveryStops
\* Delivery ends with the connection.
CHECK_DEADLOCK FALSE
