SPECIFICATION Spec
CONSTANTS
    MaxBuffer = 1
    ReconnectDelay = 2
    MaxBackoff = 4
    MaxMessages = 0
    MaxRecorded = 1
    MaxDrops = 0
INVARIANT
    StatsComplete
CHECK_DEADLOCK FALSE
