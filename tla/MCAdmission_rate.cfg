\* As in TestDDoSProtection_ConnectionRateLimit: 3 connections a second.
SPECIFICATION Spec
CONSTANTS
    NoIP = NoIP
    Hosts <- MCHosts
    AllowCIDRs <- MCAllow
    BlockCIDRs <- MCBlock
    Order <- MCOrder
    Measured <- MCMeasured
    MaxConnectionsPerSec = 3
    Gap = 1
    Second = 3
    RateWindow = 4
    ScanWindow = 4
    MaxPorts = 20
    ConsecutiveThresh = 2
    Hour = 5
    SweepTime = 1
    MaxPending = 1
PROPERTY RateLimitPerSecond
