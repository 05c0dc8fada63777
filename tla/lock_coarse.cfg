SPECIFICATION Spec
CONSTANTS
    Deposits = {d1, d2}
    Coins = {c1}
    None = None
    Nonces <- MCNonces
    MinConfirmations = 0
    RefundDelay = 2
    DeterministicFunding = FALSE
    MaxHeight = 6
    Received = {3, 5}
    FeeAmount = 2
    Scale = 2
    XecHasMorePrecision = FALSE
    Uint64Max = 2
    Uint96Max = 4
    Burns = {b1}
    Stamps = {s1}
SYMMETRY Symmetric
INVARIANTS
    
    NoticeBeforeRefund
