CONSTANTS
    a1 = a1
    a2 = a2
    First = {a1, a2}
    Second = {}
    Requests = {a1, a2}
    Payload <- MCPayload
    Invalid = {"bad"}
    LockTTL = 1
    MainTTL = 3
    FpTTL = 4
    Lifetime = 1
    MaxTime = 2
    MaxFaults = 0
    AckMayBeLost = TRUE
SPECIFICATION Spec
SYMMETRY Interchangeable
CHECK_DEADLOCK FALSE
INVARIANTS DeductedOnce
