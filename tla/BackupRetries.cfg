CONSTANTS
    o1 = o1
    o2 = o2
    Ops = {o1, o2}
    Points = {o1, o2}
    normalizeOperationID <- SameNames
    RetentionCounts = {1, 2}
    ListFaults = FALSE
    MaxConcurrent = 2
    MaxTime = 6
    MaxFaults = 2
SPECIFICATION LivenessSpec
PROPERTIES EveryOperationPublishes HiddenIsRemoved
CHECK_DEADLOCK FALSE
