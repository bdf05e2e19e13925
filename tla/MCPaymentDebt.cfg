\* One worker, one row, and one failure between two steps of a handler.
SPECIFICATION Spec
CONSTANTS
    Strategies = {"eager"}
    Workers = {w1}
    Grants = {g1}
    Amount = 2
    Granted <- MCGranted
    Bucket <- MCBucket
    MaxUsed = 1
    MaxFaults = 1
INVARIANT DebtIsSpent
CHECK_DEADLOCK FALSE
