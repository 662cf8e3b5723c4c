SPECIFICATION Spec
CONSTANTS
    k1 = k1
    k2 = k2
    v1 = v1
    v2 = v2
    i1 = i1
    i2 = i2
    c1 = c1
    c2 = c2
    Nobody = Nobody
    Key = {k1, k2}
    Viewer = {v1, v2}
    KeyOf <- TwoKeys
    Instance = {i1, i2}
    Cleaner = {c1}
    Limit = 1
    Polling = FALSE
    MaxExits = 1
    MaxStops = 0
SYMMETRY PairSymmetry
CHECK_DEADLOCK FALSE
INVARIANTS EngineConsistent
