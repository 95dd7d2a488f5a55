SPECIFICATION Spec
CONSTANTS
    a1 = a1
    a2 = a2
    Account = {a1, a2}
    Claimant = {a1}
    Member = {a1, a2}
    L1Seats = 2
    Unit = 2
    Width = 6
    RateUnit = 2
    Rates = {0, 1}
    Delays = {1}
    Config <- Configs
    MaxMint = 5
    MintWindow = 1
    Reserve = 1
    Amount = {1, 3}
    Collector = {a1}
    HookFee = {1}
    Drops <- Funds
    MaxLag = 1
    MaxSeq = 6
INVARIANTS
    SupplyExact
    CreditBounded
    HoldingCredited
PROPERTIES
    RewardBounded
