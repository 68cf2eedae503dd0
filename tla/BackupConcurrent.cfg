CONSTANTS
    o1 = o1
    o2 = o2
    o3 = o3
    Ops = {o1, o2, o3}
    Points = {o1, o2, o3}
    normalizeOperationID <- SameNames
    RetentionCounts = {1}
    ListFaults = TRUE
    MaxConcurrent = 2
    MaxTime = 3
SYMMETRY Symmetry
SPECIFICATION Spec
INVARIANTS TypeOK ReadyIsComplete ReadyWithinRetention RemovalIsComplete IInv RetentionIInv
PROPERTY ImplementsLifecycle
