\* One worker and the expiry job.
SPECIFICATION Spec
CONSTANTS
    Strategies = {"conservative"}
    Workers = {w1}
    Grants = {g1}
    Amount = 2
    Granted <- MCGranted
    Bucket <- MCBucket
    MaxUsed = 0
    MaxFaults = 0
PROPERTY WaitsForSettlement
CHECK_DEADLOCK FALSE
