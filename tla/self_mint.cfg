SPECIFICATION MCSpec
CONSTANTS
    d1 = d1
    d2 = d2
    Deposits = {d1, d2}
    NetAmounts <- MCNetAmounts
    Recipient <- MCRecipient
    Vault <- MCVault
    Token = "ours"
    Keys = {"auth", "m"}
    AuthKey = "auth"
    Spends <- MCSpends
    Coins <- MCCoins
    Requests = {"a1", "a2", "a3"}
    Request <- MCRequest
    OracleSpends <- MCOracleSpends
    Radix = 2
    TokenDecimals = 1
    XecDecimals = 0
    SafeInteger = 8
    Uint64Max = 13
    MaxXecDecimals = 2
    Metadata <- MCMetadata
    Issuers <- MCIssuers
    Deployments <- MCDeployments
INVARIANTS
    AcceptsOnlyAuthorized
    AuthorizedIsAccepted
    AuthorizationsAgree
    AcceptsOnlyAttested
    AttestedIsAccepted
    ReadersAgree
    DeployedAsIssued
    IssuedIsDeployable
    
PROPERTIES
    EverySpendDecided
CHECK_DEADLOCK FALSE
