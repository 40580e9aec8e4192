SPECIFICATION SagaSpec
CONSTANTS
    Saga = {s1}
    Process = {p1}
    Steps = 3
    MaxFailures = 0
    MaxErrors = 1
    MaxCrashes = 0
INVARIANT CompensatedLeavesNothing
CHECK_DEADLOCK FALSE
