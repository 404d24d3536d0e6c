SPECIFICATION Spec
CONSTANTS
    AuthTimeout = 2
    ReadTimeout = 6
    HeartbeatTimeout = 4
    Requests <- OnlySecond
    Stamps = {"fresh"}
    MaxFrames = 2
PROPERTY TimeoutOnlyWhenSilent
