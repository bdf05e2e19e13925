\* Both strategies, two workers beside the user and the expiry job, two captured
\* rules that pay into one bucket.
SPECIFICATION FairSpec
CONSTANTS
    Strategies = {"conservative", "eager"}
    Workers = {w1, w2}
    Grants = {g1, g2}
    Amount = 1
    Granted <- MCGranted
    Bucket <- MCBucket
    MaxUsed = 1
    MaxFaults = 1
INVARIANTS
    TypeOK
    RewardNeedsSuccess
    ConservativeGrantsPaid
    GrantedOnce
    FailedIsTakenBack
    NothingClaimedTwice
PROPERTIES
    TerminalIsFinal
    PaidIsFulfilled
CHECK_DEADLOCK FALSE
