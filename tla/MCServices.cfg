SPECIFICATION FairServices
CONSTANTS
    Export = {e1}
    Asker = {q1, q2}
    Cleaner = {c1}
    MaxActive = 1
    MaxAttempts = 3
    MaxCrashes = 1
    MaxVersions = 2
    Remedies = {p1, p2}
    Appliers = {e1, w1}
    Refill = FALSE
    MaxFailures = 1
    Plan = {p1}
    Exact = {x1}
    Request = {q1, q2, w1}
    Target <- Named
    Seg = {1, 2}
    MaxEvents = 1
    Nobody = Nobody
    e1 = e1
    q1 = q1
    q2 = q2
    w1 = w1
    w2 = w2
    p1 = p1
    p2 = p2
    x1 = x1
CHECK_DEADLOCK FALSE
INVARIANTS EvidenceTruthful JobsAccounted SegmentsTruthful  RemediationOK
    DeletionTruthful
PROPERTIES EvidenceKept DeletionFinal  
