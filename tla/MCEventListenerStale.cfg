SPECIFICATION CaseSpec
CONSTANTS
    Instance = {i1, i2}
    NoOne = NoOne
    Caller = {c1, c2}
    MaxPipe = 1
    MaxLapses = 2
    MaxErrors = 1
    MaxEvents = 2
    MaxCatchup = 0
    MaxMishaps = 2
    Departures = {"stopped", "dead"}
INVARIANTS GapFree FencesAreOwn StaleWritesBounded
SYMMETRY StaleSymmetry
CHECK_DEADLOCK FALSE
