SPECIFICATION StoreSpec
CONSTANTS
    s1 = s1
    s2 = s2
    k1 = k1
    c1 = c1
    c2 = c2
    None = None
    Garbage = Garbage
    MaxStores = 2
    Slots = {s1, s2}
    Keys = {k1}
    Contents = {c1, c2}
SYMMETRY Symmetry
INVARIANTS StoreInv RecoveredIsAuthentic AckedIsDurable UndisturbedRecoveryIsExact
