SPECIFICATION FairMCSpec
CONSTANTS
    Delivery = {d1, d2, d3}
    Request = {r1, r2}
    Concurrency = 1
    MaxAttempts = 2
    Burst = 1
    FailureThreshold = 2
    SuccessThreshold = 1
    MaxCycles = 1
    MaxCalls = 3
    MaxMishaps = 2
    MaxErrors = 2
    MaxCrashes = 1
INVARIANTS NoSilentLoss RetriedWasTaken RequeuesBounded
PROPERTIES DeadLettersWereNotTaken DeliveriesEnd
CHECK_DEADLOCK FALSE
