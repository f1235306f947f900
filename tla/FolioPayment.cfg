SPECIFICATION LiveSpec
CONSTANTS
    Payments = {p1}
    Workers = {sweep, w1}
    Sweeper = sweep
    Resumable = FALSE
    MaxAttempts = 3
    GraceAttempts = 1
    MaxCrashes = 1
INVARIANTS FolioTypeOK CreditedExactlyOnce 
PROPERTIES EveryEventIsDecided
CHECK_DEADLOCK FALSE
