CONSTANTS
    Instants = {2, 4}
    Manual = {9}
    None = None
    RetentionCount = 2
    MaxClock = 4
    MaxInterruptions = 2
    MaxMoves = 1
SPECIFICATION Spec
INVARIANTS TypeOK OnePointPerInstant
PROPERTIES NewestNeverStepsBack 
CHECK_DEADLOCK FALSE
