CONSTANTS
    r1 = r1
    r2 = r2
    s1 = s1
    s2 = s2
    Request = {r1, r2}
    Source = {s1, s2}
    InitSources = {s1}
    Empty = {s2}
    NoOne = NoOne
    MaxScans = 2
    MaxLapses = 1
    MaxChanges = 1
    MaxFails = 1
SPECIFICATION Spec
INVARIANTS TypeOK ScanBudget BarrierVisible
PROPERTIES SourcesKept Answered
CHECK_DEADLOCK FALSE
