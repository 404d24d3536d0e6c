\* The handler goroutine runs in the pool, the batch flusher does not; the
\* heartbeat timer closes the connection.  Three stamps and three writes stay
\* below SeqSpace, so the order of the batches counts all the way.
CONSTANTS
    Writers = {handler, flusher}
    Pooled = {handler}
    Closers = {timeout}
    MaxWriteQueueSize = 1
    SeqSpace = 7
    MaxCalls = 3
SPECIFICATION FairSpec
INVARIANTS
    QueueAccounting
    SyncResultTrue
    SyncNotStranded
    BatchSequencesOrdered
PROPERTIES
    ImplementsFrameStream
    CloseCompletes
    LateCallsSafe
\* Writers stop after MaxCalls calls.
CHECK_DEADLOCK FALSE
