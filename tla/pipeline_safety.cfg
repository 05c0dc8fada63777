SPECIFICATION Spec
CONSTANTS
    Deposits = {d1, d2}
    Coins = {c1}
    None = None
    Nonces <- MCNonces
    MinConfirmations = 0
    RefundDelay = 1
    DeterministicFunding = FALSE
    MaxHeight = 5
    ConfirmationDepth = 0
    FinalityDepth = 1
    BumpAfter = 1
    ConvenienceMinting = TRUE
    Unconvertible = {}
    MaxFaults = 1
SYMMETRY Symmetric
INVARIANTS
    IInv
    Quarantine
    FinalityGate
    OneConfirmationPerDeposit
    RecordsTruthful
    ConfirmedStaysFundable
    
PROPERTIES
    ImplementsBridge
