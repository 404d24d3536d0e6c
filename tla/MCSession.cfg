\* As in the default configuration, a read may take longer than the heartbeat
\* timeout.
CONSTANTS
    AuthTimeout = 1
    ReadTimeout = 3
    HeartbeatTimeout = 2
    Requests <- AllRequests
    Stamps = {"fresh", "old"}
    MaxFrames = 3
SPECIFICATION FairSpec
INVARIANTS
    
    ErrorIsFinal
    ConfirmedOnce
    SweptIsClosed
    SilentIsClosed
PROPERTIES
    HandlerEnds
