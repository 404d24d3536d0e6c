CONSTANTS
    MinWorkers = 1
    MaxWorkers = 4
SPECIFICATION FairSpec
INVARIANTS
    QueuedCounted
    WorkersCounted
    WorkersBounded
PROPERTIES
    ImplementsTaskPool
    TaskRuns
\* A stopped pool comes to rest.
CHECK_DEADLOCK FALSE
