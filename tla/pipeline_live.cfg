SPECIFICATION FairSpec
CONSTANTS
    Deposits = {d1, d2}
    Coins = {c1, c2}
    None = None
    Nonces <- MCNonces
    MinConfirmations = 0
    RefundDelay = 1
    DeterministicFunding = FALSE
    MaxHeight = 4
    ConfirmationDepth = 0
    FinalityDepth = 0
    BumpAfter = 1
    ConvenienceMinting = FALSE
    Unconvertible = {d2}
    MaxFaults = 1
PROPERTIES
    
    
    FinalIsBroadcast
