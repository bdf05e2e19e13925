\* One request registers while another disables the rule.
SPECIFICATION Spec
CONSTANTS
    Rules = {R1}
    Jobs = {W}
    Readers = {}
    Clerks = {A, B}
    Batch = 2
    ReadLimit = 1
    MaxTime = 1
    MaxFaults = 0
    Edited = {R1}
    Fragile = {}
    NoRule = NoRule
    NoProc = NoProc
INVARIANTS
    DueImpliesEnabled
