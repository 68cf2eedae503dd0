CONSTANTS
    i1 = i1
    p1 = p1
    p2 = p2
    c1 = c1
    c2 = c2
    NoPoint = NoPoint
    NoConfig = NoConfig
    Ids = {i1}
    Points = {p1, p2}
    Configs = {c1, c2}
    Requests <- MixedRequests
    MaxAttempts = 2
    Deadlines = {2, 3}
    MaxClock = 4
SPECIFICATION TimedSpec
INVARIANTS TypeOK OneAttempt RunningHasAttempt AttemptIsOneSelection HandedOverConfiguration
INVARIANTS SettingsMatchRecord TimeTypeOK
PROPERTIES CanceledIsFinal NotCutShort AttemptEnds
