\* Three ports of a host race; eleven windows pass, so that cleanup has work.
CONSTANTS
    Hosts = {h1}
    Ports = {p1, p2, p3}
    MaxAttempts = 2
    Window = 2
    CallTime = 2
    MaxTime = 23
SPECIFICATION Spec
SYMMETRY Symmetry
INVARIANTS
    AttemptsBounded
    SessionsLive
PROPERTIES
    BlocksHold
CHECK_DEADLOCK FALSE
