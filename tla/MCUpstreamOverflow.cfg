SPECIFICATION Spec
CONSTANTS
    MaxBuffer = 2
    ReconnectDelay = 2
    MaxBackoff = 4
    MaxMessages = 3
    MaxRecorded = 0
    MaxDrops = 0
INVARIANT
    NewestKept
CHECK_DEADLOCK FALSE
