SPECIFICATION Spec
CONSTANTS
    Deposits = {d1}
    Coins = {c1}
    None = None
    Nonces <- MCNonces
    MinConfirmations = 0
    RefundDelay = 1
    DeterministicFunding = FALSE
    MaxHeight = 6
    Received = {6, 7, 8}
    FeeAmount = 1
    Scale = 2
    XecHasMorePrecision = TRUE
    Uint64Max = 10
    Uint96Max = 6
    Burns = {b1, b2}
    Stamps = {s1, s2}
SYMMETRY Symmetric
INVARIANTS
    Conservation
    OneRelease
    OneAuthorization
PROPERTIES
    Balances
