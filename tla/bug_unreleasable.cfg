SPECIFICATION Spec
CONSTANTS
    c1 = c1
    c2 = c2
    k1 = k1
    k2 = k2
    u1 = u1
    Coins = {c1, c2}
    PubKeys = {k1, k2, u1}
    Compressed = {k1, k2}
    Owner <- MCOwner
    Worth <- MCWorth
    Submissions <- MCPlain
    ServiceAssetId = "left"
    ContractAssetId = "right"
    MinBurnAmount = 1
    FeeAmountXec = 1
    Scale = 2
    XecHasMorePrecision = TRUE
    None = None
INVARIANTS
    StampedIsReleasable
CHECK_DEADLOCK FALSE
