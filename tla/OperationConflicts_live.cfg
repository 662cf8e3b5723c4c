CONSTANTS
    c1 = c1
    c2 = c2
    w1 = w1
    i1 = i1
    i2 = i2
    q1 = q1
    q2 = q2
    NoProc = NoProc
    NoOp = NoOp
    Client = {c1, c2}
    Worker = {w1}
    ImmediateOp = {i1}
    QueuedOp = {q1}
    RecoveredOp = {q1}
    RecorderOp = {}
    Conflict <- DeleteVersusMigration
    StaleClock = FALSE
    Pauses = FALSE
    Purges = FALSE
    AdmissionStalls = FALSE
    MaxCrashes = 1
SPECIFICATION FairSpec
PROPERTIES  QueuedFinishes
