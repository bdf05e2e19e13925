\* One worker, one full refund, a fulfilment that may lag behind.
SPECIFICATION Spec
CONSTANTS
    Providers = {"stripe", "creem"}
    Workers = {w1}
    Refunds = {r1}
    Original = 1
    Part1 = r1
    Part2 = r2
    Row1 = g1
    Row2 = g2
    Grants = {g1, g2}
    Amounts <- Whole
    Unreadable = {{}}
    Granted <- MCGranted
    MaxUsed = 0
    MaxFaults = 1
INVARIANT NoMissedRevoke
CHECK_DEADLOCK FALSE
