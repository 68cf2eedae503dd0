CONSTANTS
    b1 = b1
    a1 = a1
    a2 = a2
    p1 = p1
    Points = {p1}
    Bootstrap = {b1}
    Application = {a1, a2}
    recoveryPoint <- OnePoint
    MaxInterruptions = 0
    MaxRestoreFailures = 1
SPECIFICATION FairSpec
PROPERTY FailedRestoreCanBeRetried
