SPECIFICATION FairSpec
CONSTANTS
    NumSources = 2
    Concentrator = 2
    MaxQueue = 2
    MaxFrames = 3
    MaxRestarts = 1
    MaxFaults = 1
INVARIANTS
    TypeOK
    CaptureOrder
    StorageGuarded
PROPERTIES
    DrainsAndStops
CHECK_DEADLOCK FALSE
