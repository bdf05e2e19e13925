CONSTANTS
    a1 = a1
    a2 = a2
    a3 = a3
    x1 = x1
    First = {a1, a2, a3}
    Second = {}
    Requests = {a1, a2, a3, x1}
    Payload <- MCPayload
    Invalid = {"bad"}
    LockTTL = 1
    MainTTL = 3
    FpTTL = 4
    Lifetime = 1
    MaxTime = 2
    MaxFaults = 1
    AckMayBeLost = FALSE
SPECIFICATION Spec
SYMMETRY Interchangeable
CHECK_DEADLOCK FALSE
INVARIANTS TypeOK DeductedOnce OneExecutor
