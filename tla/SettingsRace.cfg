CONSTANTS
    s1 = s1
    s2 = s2
    a = a
    b = b
    k1 = k1
    k2 = k2
    k3 = k3
    Savers = {s1, s2}
    Kinds = {"setup"}
    Storages = {a, b}
    Keys = {k1, k2, k3}
    None = None
    MaxConcurrentSaves = 2
    MaxFailures = 0
    MaxSaves = 2
SYMMETRY Symmetry
SPECIFICATION Spec
INVARIANT OfferedKeyIsInUse
CHECK_DEADLOCK FALSE
