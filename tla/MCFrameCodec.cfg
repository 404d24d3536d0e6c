SPECIFICATION FairSpec
CONSTANTS
    Byte = 10
    DefaultMaxSize = 2
    Limits = {0, 1}
    Magics <- MCMagics
    Versions = {1, 2}
    Types = {7}
    Payloads <- MCPayloads
    MaxFrames = 2
    MaxDamage = 1
CHECK_DEADLOCK FALSE
INVARIANTS IntactPrefix ErrorHasCause
PROPERTIES DecodersAgree EveryFrameRead
