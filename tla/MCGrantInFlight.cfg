\* A job that has fetched the schedule while a request disables the rule.
SPECIFICATION FairSpec
CONSTANTS
    Rules = {R1}
    Jobs = {W}
    Readers = {}
    Clerks = {A}
    Batch = 2
    ReadLimit = 1
    MaxTime = 1
    MaxFaults = 0
    Edited = {R1}
    Fragile = {}
    NoRule = NoRule
    NoProc = NoProc
PROPERTIES
    FetchedIsExecuted
