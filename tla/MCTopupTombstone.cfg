\* One worker, one full refund whose Creem event may lack a field.
SPECIFICATION Spec
CONSTANTS
    Providers = {"creem"}
    Workers = {w1}
    Refunds = {r1}
    Original = 1
    Part1 = r1
    Part2 = r2
    Row1 = g1
    Row2 = g2
    Grants = {g1, g2}
    Amounts <- Whole
    Unreadable = {{}, {r1}}
    Granted <- MCGranted
    MaxUsed = 0
    MaxFaults = 0
INVARIANT CompensatedIsCorrect
CHECK_DEADLOCK FALSE
