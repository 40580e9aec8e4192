SPECIFICATION MCSpec
CONSTANTS
    Account = {a, b}
    Nobody = Nobody
    Treasuries = {t1, t2}
    Fees = {1}
    Policies <- BothPolicies
    DefaultPolicy <- High
    Supplies = {0, 3}
    Percents = {0, 30, 51}
    Types = {"FeeChange", "PauseContract", "UnpauseContract", "PolicyUpdate"}
    MinTimelock = 1
    MaxTimelock = 1
    ChangeDelay = 1
    AcceptWindow = 1
    MaxTypeQueue = 2
    MaxProposals = 0
    MaxChanges = 1
    MaxActions = 0
    MaxTime = 1
    Withdrawable = {1, 2}
    Delays = {1}
    DefaultDelay = 1
    MaxWithdrawals = 0
    VaultAmounts = {1}
    Limits = {0, 1}
    EpochLength = 2
    MaxVaults = 0
SYMMETRY Symmetry
PROPERTIES FeesNeedGovernance
CHECK_DEADLOCK FALSE
