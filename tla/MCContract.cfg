SPECIFICATION ContractSpec
CONSTANTS
    Account = {x, y}
    Nobody = Nobody
    Treasuries = {t1, t2}
    Fees = {1}
    Policies <- BothPolicies
    DefaultPolicy <- High
    Supplies = {0, 3}
    Percents = {0, 30, 51}
    Types = {"FeeChange", "PauseContract", "UnpauseContract", "PolicyUpdate"}
    MinTimelock = 1
    MaxTimelock = 1
    ChangeDelay = 1
    AcceptWindow = 1
    MaxTypeQueue = 2
    MaxProposals = 2
    MaxChanges = 1
    MaxActions = 1
    MaxTime = 3
    Withdrawable = {1, 2}
    Delays = {1}
    DefaultDelay = 1
    MaxWithdrawals = 1
    VaultAmounts = {1}
    Limits = {0, 1}
    EpochLength = 2
    MaxVaults = 1
    Holder = {a, b, c}
    Creator = a
    InitialSupply = 3
    MaxSupply = 6
    Amounts = {1, 2}
    MaxBatch = 2
    MaxLedger = 3
    NoSnapshot = NoSnapshot
    Pools = {4}
    Windows = {1, 2}
    MaxRounds = 2
    Rates = {3}
    Stakes = {1, 2}
    Precision = 4
SYMMETRY ContractSymmetry
INVARIANTS PassedBeforeExecuted TypeQueuesSound CapPerWindow Conserved ClaimsFit RewardsBounded
PROPERTIES DecidedStands EntitlementFixed OwnersConsent
CHECK_DEADLOCK FALSE
