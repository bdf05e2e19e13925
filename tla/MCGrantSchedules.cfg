\* Job and read path on two schedules, beside two requests that register,
\* subscribe or edit the first rule.
SPECIFICATION Spec
CONSTANTS
    Rules = {R1, R2}
    Jobs = {W}
    Readers = {Q}
    Clerks = {A, B}
    Batch = 2
    ReadLimit = 1
    MaxTime = 2
    MaxFaults = 1
    Edited = {R1}
    Fragile = {}
    NoRule = NoRule
    NoProc = NoProc
INVARIANTS
    TypeOK
    GrantsInStep
    DisableStopsSchedules
PROPERTIES
    StoppedIsFinal
