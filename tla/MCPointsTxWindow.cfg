CONSTANTS
    Buckets = {1}
    Rows = {1}
    Sources = {"pay"}
    CreditTypes = {"topup_credit"}
    Apps = {"wide"}
    Covered <- MCCovered
    GrantSizes = {1}
    MaxPoints = 2
    MaxWindowed = 4
    MaxTime = 2
    Shares <- MCShares
    c1 = c1
    c2 = c2
    Consumers = {c1, c2}
    Granters = {"g1"}
    Revokers = {}
    Refunders = {}
    Expirers = {}
    AppOf <- MCAppOf
    Wants = {2}
    GrantPlan <- PermanentRow
    RevokePlan <- MCRevokePlan
    RefundPlan <- MCRefundPlan
    Batch = 1
    WindowTypes <- BothWindows
    Entitlements = {"plan", "free"}
    Quota <- MCQuota
    NoTx = NoTx
SPECIFICATION Spec
SYMMETRY Interchangeable
CHECK_DEADLOCK FALSE
INVARIANTS WindowNeverOverspent DrawWithinEntitlement
PROPERTIES LedgerRefined
