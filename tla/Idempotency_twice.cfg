SPECIFICATION KeySpec
CONSTANT Request = {r1, r2}
INVARIANT OneAtATime
CHECK_DEADLOCK FALSE
