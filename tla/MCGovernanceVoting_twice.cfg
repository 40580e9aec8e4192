SPECIFICATION MCSpec
CONSTANTS
    Address = {a1, a2, a3}
    Admins = {d1, d2}
    NoOne = NoOne
    Minted <- NoneMinted
    Amounts = {0, 1, 2}
    MaxPower = 4
    MaxTime = 3
    Proposers = {p1}
    MaxProposals = 1
    Periods = {1, 2}
    Quorums = {2}
    Thresholds = {0, 50, 67}
    Windows = {0, 1}
SYMMETRY Symmetry
PROPERTIES DelegatedBalanceVotesOnce
CHECK_DEADLOCK FALSE
