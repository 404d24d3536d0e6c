SPECIFICATION FairSpec
CONSTANTS
    NoIP = NoIP
    Hosts <- MCHosts
    AllowCIDRs <- MCAllow
    BlockCIDRs <- MCBlock
    Order <- MCOrder
    Measured <- MCMeasured
    MaxConnectionsPerSec = 2
    Gap = 1
    Second = 2
    RateWindow = 3
    ScanWindow = 3
    MaxPorts = 20
    ConsecutiveThresh = 2
    Hour = 4
    SweepTime = 1
    MaxPending = 2
INVARIANTS RefusedLeaveNoTrace RateMatchesHistory RejectExact
PROPERTIES ScannerStaysOut RetriesSucceed
