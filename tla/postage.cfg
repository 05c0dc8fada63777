SPECIFICATION FairSpec
CONSTANTS
    Calls = {r1, r2, r3}
    BurnCoins = {b1, b2}
    Genuine <- MCGenuine
    Stamps = {s1, s2}
    NoCoin = NoCoin
    MaxFaults = 2
INVARIANTS
    OneStampPerBurn
    OneBurnPerStamp
PROPERTIES
    ClaimSettles
    StampSettles
CHECK_DEADLOCK FALSE
