SPECIFICATION MCSpec
CONSTANTS
    c1 = c1
    c2 = c2
    k1 = k1
    k2 = k2
    u1 = u1
    Coins = {c1, c2}
    PubKeys = {k1, k2, u1}
    Compressed = {k1, k2}
    Owner <- MCOwner
    Worth <- MCWorth
    Submissions <- MCSubmissions
    ServiceAssetId = "right"
    ContractAssetId = "right"
    MinBurnAmount = 1
    FeeAmountXec = 1
    Scale = 2
    XecHasMorePrecision = TRUE
    None = None
    ByteSize = 2
    HashBytes = 4
    MinDifficultyTarget = 5
    MaxTxs = 7
    Headers <- MCHeaders
    PlainHeader <- MCPlainHeader
INVARIANTS
    
    ChecksAgree
    BuiltIsAccepted
    AcceptedIsIncluded
PROPERTY
    ImplementsWithdrawal
CHECK_DEADLOCK FALSE
