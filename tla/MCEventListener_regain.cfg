SPECIFICATION FairMCSpec
CONSTANTS
    Instance = {i1, i2}
    NoOne = NoOne
    Caller = {c1}
    MaxPipe = 1
    MaxLapses = 0
    MaxErrors = 1
    MaxEvents = 2
    MaxCatchup = 2
    MaxMishaps = 1
    Departures = {}
PROPERTY Ingests
CHECK_DEADLOCK FALSE
