\* Three messages of one connection; one failed call, one end of the process.
SPECIFICATION FairSpec
CONSTANTS
    c1 = c1
    None = None
    Connections <- OneConnection
    Large = {}
    Messages <- ThreeOfOne
    Skipped <- LaterSkipped
    Size <- Unequal
    MaxSequence = 3
    MaxBytes = 3
    MaxPendingBytes = 3
    MaximumBytes = 3
    SyncFails = TRUE
    MaxFailures = 1
    MaxCrashes = 1
INVARIANTS
    TypeOK
    ForwardedIsStored
    RecordedOnce
    ForwardedInOrder
    CountersAgree
PROPERTIES
    EveryCaptureDelivered
    EveryTurnEnds
    TrailKept
CHECK_DEADLOCK FALSE
