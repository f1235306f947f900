SPECIFICATION LiveSpec
CONSTANTS
    Processes = {r1, r2}
    MaxAttempts = 2
    MaxPeriod = 2
    MaxPayment = 2
    MaxDefer = 2
    MaxCrash = 1
CHECK_DEADLOCK FALSE
INVARIANTS TypeOK OnePaymentAtATime DunningCountsEachFailureOnce
PROPERTIES PurgedTenantIsLeftAlone 
