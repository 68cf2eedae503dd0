CONSTANTS
    Instants = {2, 4}
    Manual = {9}
    None = None
    RetentionCount = 2
    MaxClock = 4
    MaxInterruptions = 0
    MaxMoves = 1
SPECIFICATION Spec
PROPERTY EmptyBucketIsFilled
CHECK_DEADLOCK FALSE
