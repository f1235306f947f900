SPECIFICATION Spec
CONSTANTS
    Refunds = {r1, r2}
    Workers = {sweep, w1}
    Sweeper = sweep
    Manager = w1
    None = none
    Amount = 2
    MinChecks = 1
INVARIANTS TypeOK RefundAppliedOnce ReleasedIsUnpaid SaleVoidedInOrder
PROPERTIES RefundsAreDecidedOnce
CHECK_DEADLOCK FALSE
SYMMETRY Symmetry
