CONSTANTS
    o1 = o1
    o2 = o2
    o3 = o3
    Ops = {o1, o2}
    Points = {o1, o2}
    normalizeOperationID <- SameNames
    RetentionCounts = {1}
    ListFaults = FALSE
    MaxConcurrent = 1
    MaxTime = 4
SPECIFICATION Spec
INVARIANT ReadyAlwaysComplete
