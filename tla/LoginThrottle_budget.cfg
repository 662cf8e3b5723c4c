SPECIFICATION Spec
CONSTANTS
    s1 = s1
    s2 = s2
    r1 = r1
    r2 = r2
    r3 = r3
    r4 = r4
    r5 = r5
    NoBucket = NoBucket
    Source = {s1, s2}
    Request = {r1, r2, r3, r4}
    MaxFailures = 2
    Window = 2
    MaxSources = 1
    MaxTime = 4
SYMMETRY Symmetry
INVARIANTS Budget
PROPERTIES RefusedForCause
