SPECIFICATION FairSpec
CONSTANTS
    BumpAfter = 2
    BumpPercent = 15
    Horizon = 2
    Cap = 16
    NodeMargin = 10
    Tips = {1, 3}
    None = None
    MaxBase = 18
    MaxFaults = 2
INVARIANTS
    BumpsAccepted
    OutlastsHorizon
PROPERTIES
    StallEnds
CHECK_DEADLOCK FALSE
