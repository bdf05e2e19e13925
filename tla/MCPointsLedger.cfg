CONSTANTS
    Buckets = {1, 2}
    Rows = {1, 2}
    Sources = {"s1"}
    CreditTypes = {"topup_credit", "granted_credit"}
    Apps = {"wide"}
    Covered <- MCCovered
    MaxPoints = 2
    GrantSizes = {2}
    MaxTime = 1
    MaxWindowed = 1
    Shares <- MCShares
SPECIFICATION Spec
CHECK_DEADLOCK FALSE
INVARIANTS TypeOK StatusAgreesWithBalance AnalyticsDriftFree UnrecordedOnlyIfUnspent
PROPERTIES NoResurrection
