CONSTANTS
    a1 = a1
    a2 = a2
    b1 = b1
    b2 = b2
    First = {a1, a2}
    Second = {b1, b2}
    Requests = {a1, a2, b1, b2}
    Payload <- MCPayload
    Invalid = {"bad"}
    LockTTL = 1
    MainTTL = 3
    FpTTL = 4
    Lifetime = 1
    MaxTime = 0
    MaxFaults = 0
    AckMayBeLost = FALSE
SPECIFICATION Spec
SYMMETRY Interchangeable
CHECK_DEADLOCK FALSE
INVARIANTS ReplayOnlySameRequest
