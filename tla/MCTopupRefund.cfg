\* Both providers, a payment of three units refunded in two parts, two rows.
SPECIFICATION FairSpec
CONSTANTS
    Providers = {"stripe", "creem"}
    Workers = {w1, w2}
    Refunds = {r1, r2}
    Part1 = r1
    Part2 = r2
    Original = 3
    Row1 = g1
    Row2 = g2
    Grants = {g1, g2}
    Amounts <- TwoParts
    Unreadable = {{}, {r2}}
    Granted <- MCGranted
    MaxUsed = 1
    MaxFaults = 2
INVARIANTS
    TypeOK
    PartialTakesItsShare
    GateOpensAtFull
    FullRefundSweepsSource
    RolesKeptOnPartial
    ProcessedIsSettled
CHECK_DEADLOCK FALSE
PROPERTY FullRefundSettles
