\* The loop ends.
CONSTANTS
    Ids = {1, 2, 3, 4}
    MaxCount = 5
SPECIFICATION Spec
INVARIANTS SuffixIsExpired RetentionFits PanicsOnlyOnZero ScheduleKeepsItsPlace
CHECK_DEADLOCK FALSE
