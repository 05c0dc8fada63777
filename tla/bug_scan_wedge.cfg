SPECIFICATION FairSpec
CONSTANTS
    Deposits = {d1}
    Coins = {c1}
    None = None
    Nonces <- MCNonces
    MinConfirmations = 0
    RefundDelay = 1
    DeterministicFunding = FALSE
    MaxHeight = 6
    ConfirmationDepth = 0
    FinalityDepth = 1
    BumpAfter = 1
    ConvenienceMinting = FALSE
    Unconvertible = {}
    MaxFaults = 0
PROPERTIES
    ScanAdvances
