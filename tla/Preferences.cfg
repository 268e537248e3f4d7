CONSTANTS
    k1 = k1
    k2 = k2
    k3 = k3
    v = v
    None = None
    Keys = {k1, k2, k3}
    Values = {v}
    MaxPrefs = 2
    Window = 2
SPECIFICATION Spec
INVARIANTS CleanMeansSaved
PROPERTIES StoreSpec SavedInTime
