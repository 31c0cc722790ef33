CONSTANTS
    r1 = r1
    r2 = r2
    s1 = s1
    s2 = s2
    Request = {r1, r2}
    Source = {s1, s2}
    InitSources = {s1}
    Empty = {}
    NoOne = NoOne
    MaxScans = 2
    MaxLapses = 1
    MaxChanges = 1
    MaxFails = 0
SPECIFICATION RefreshSpec
INVARIANTS RefreshVisible
CHECK_DEADLOCK FALSE
