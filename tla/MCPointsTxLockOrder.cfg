CONSTANTS
    Buckets = {1, 2}
    Rows = {1, 2}
    Sources = {"pay"}
    CreditTypes = {"topup_credit"}
    Apps = {"wide"}
    Covered <- MCCovered
    GrantSizes = {2}
    MaxPoints = 4
    MaxWindowed = 0
    MaxTime = 1
    Shares <- MCShares
    Consumers = {"c1"}
    Granters = {"g1"}
    Revokers = {}
    Refunders = {"f1"}
    Expirers = {}
    AppOf <- MCAppOf
    Wants = {3}
    GrantPlan <- AscendingPlan
    RevokePlan <- MCRevokePlan
    RefundPlan <- MCRefundPlan
    Batch = 2
    WindowTypes <- NoWindows
    Entitlements = {}
    Quota <- MCQuota
    NoTx = NoTx
SPECIFICATION Spec
CHECK_DEADLOCK FALSE
INVARIANTS NoWaitCycle
