CONSTANTS
    Buckets = {1, 2}
    Rows = {1, 2}
    Sources = {"pay"}
    CreditTypes = {"topup_credit"}
    Apps = {"wide"}
    Covered <- MCCovered
    GrantSizes = {2}
    MaxPoints = 4
    MaxWindowed = 0
    MaxTime = 1
    Shares <- MCShares
    Consumers = {"c1"}
    Granters = {"g1"}
    Revokers = {"v1"}
    Refunders = {"f1"}
    Expirers = {"job"}
    AppOf <- MCAppOf
    Wants = {1, 3}
    GrantPlan <- MCGrantPlan
    RevokePlan <- MCRevokePlan
    RefundPlan <- MCRefundPlan
    Batch = 1
    WindowTypes <- NoWindows
    Entitlements = {}
    Quota <- MCQuota
    NoTx = NoTx
SPECIFICATION Spec
CHECK_DEADLOCK FALSE
INVARIANTS TypeOK
PROPERTIES LedgerRefined
