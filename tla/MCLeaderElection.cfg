SPECIFICATION FairElectionSpec
CONSTANTS
    Instance = {i1, i2}
    NoOne = NoOne
    Caller = {}
    MaxPipe = 2
    MaxLapses = 1
    MaxErrors = 1
INVARIANT TokensAreWon
PROPERTIES ImplementsFencedLease LeadershipSettles
CHECK_DEADLOCK FALSE
