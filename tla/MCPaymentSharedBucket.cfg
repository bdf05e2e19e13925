\* One worker, two captured rules that pay into the same bucket.
SPECIFICATION Spec
CONSTANTS
    Strategies = {"eager"}
    Workers = {w1}
    Grants = {g1, g2}
    Amount = 1
    Granted <- MCGranted
    Bucket <- MCBucket
    MaxUsed = 0
    MaxFaults = 0
INVARIANT FailedHoldsNothing
CHECK_DEADLOCK FALSE
