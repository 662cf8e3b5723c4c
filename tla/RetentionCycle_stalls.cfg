SPECIFICATION Spec
CONSTANTS
    a = a
    b = b
    NoWorker = NoWorker
    Camera <- OneCamera
    Worker = {a, b}
    MaxWatermark = 10
    DueWatermark = 1
    SegmentWatermark = 3
    StaleClock = TRUE
    MaxChanges = 1
    MaxDelays = 1
    MaxStalls = 2
    MaxCrashes = 0
    MaxRecoveries = 0
SYMMETRY WorkerSymmetry
INVARIANTS NoLostWork StatusTruthful
PROPERTIES AcknowledgesClaim
