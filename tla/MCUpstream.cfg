SPECIFICATION FairSpec
CONSTANTS
    MaxBuffer = 2
    ReconnectDelay = 2
    MaxBackoff = 4
    MaxMessages = 3
    MaxRecorded = 1
    MaxDrops = 1
INVARIANTS
    TypeOK
    DeliveredInOrder
    TasksBounded
PROPERTIES
    DrainsAndEnds
CHECK_DEADLOCK FALSE
