CONSTANTS
    t1 = t1
    t2 = t2
    s1 = s1
    s2 = s2
    Threads <- MCThreads
    Nobody = Nobody
    Sems <- MCSems
    Nothing = Nothing
    SemMax = 2
    Values <- MCValues
    MaxCalls = 4
SPECIFICATION Spec
INVARIANTS Exclusive
PROPERTIES NoFreeze Semantics
CHECK_DEADLOCK FALSE
