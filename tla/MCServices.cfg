SPECIFICATION MCSpec
CONSTANTS
    Job = {j1, j2, j3}
    Priorities = {0}
    Elevated = 10
    Concurrency = 2
    Streak = 2
    MaxRetries = 2
    Backoff <- Doubling
    NoTimer = NoTimer
    Request = {r1, r2, r3}
    Saga = {s1, s2}
    Process = {p1, p2}
    Steps = 3
    MaxFailures = 2
    MaxErrors = 2
    MaxCrashes = 2
INVARIANTS JobsAccounted WakesUp DrainedIsIdle AllOrNothing
PROPERTIES JobsEnd KeyIsFreed ReverseOrder SettledIsFinal Settles
CHECK_DEADLOCK FALSE
