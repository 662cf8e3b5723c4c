SPECIFICATION FairSpec
CONSTANTS
    a = a
    b = b
    NoWorker = NoWorker
    Camera <- OneCamera
    Worker = {a}
    MaxWatermark = 11
    DueWatermark = 1
    SegmentWatermark = 3
    StaleClock = FALSE
    MaxChanges = 1
    MaxDelays = 1
    MaxStalls = 0
    MaxCrashes = 1
    MaxRecoveries = 2
PROPERTIES OwedAttended
