SPECIFICATION Spec
CONSTANTS
    Senders = {s1, s2}
    RelayTasks = {}
    Airtimes = {1, 2}
    MaxAir = 2
    Budget = 2
    WindowSeconds = 2
    MaxTime = 2
    MaxSends = 4
    MaxBoots = 0
INVARIANT WithinLimit
CHECK_DEADLOCK FALSE
