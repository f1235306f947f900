SPECIFICATION OrderSpec
CONSTANTS
    Payments = {p1}
    Workers = {sweep, w1}
    Sweeper = sweep
    Resumable = FALSE
    MaxAttempts = 2
    GraceAttempts = 1
    MaxCrashes = 1
INVARIANTS OrderTypeOK SoldAtMostOnce 
CHECK_DEADLOCK FALSE
