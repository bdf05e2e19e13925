\* One schedule whose rule is edited.
SPECIFICATION FairSpec
CONSTANTS
    Rules = {R1}
    Jobs = {W}
    Readers = {}
    Clerks = {A}
    Batch = 2
    ReadLimit = 1
    MaxTime = 2
    MaxFaults = 0
    Edited = {R1}
    Fragile = {}
    NoRule = NoRule
    NoProc = NoProc
PROPERTIES
    DueIsExecuted
