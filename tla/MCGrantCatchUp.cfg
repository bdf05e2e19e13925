\* The job alone, one rule that is edited and one whose bucket and wallet
\* are switched off and on.
SPECIFICATION FairSpec
CONSTANTS
    Rules = {R1, R2}
    Jobs = {W}
    Readers = {}
    Clerks = {A}
    Batch = 2
    ReadLimit = 1
    MaxTime = 2
    MaxFaults = 1
    Edited = {R1}
    Fragile = {R2}
    NoRule = NoRule
    NoProc = NoProc
PROPERTIES
    CatchesUp
