SPECIFICATION FairSpec
CONSTANTS
    MaxBuffer = 1
    ReconnectDelay = 2
    MaxBackoff = 4
    MaxMessages = 1
    MaxRecorded = 0
    MaxDrops = 1
PROPERTY
    Reconnects
CHECK_DEADLOCK FALSE
