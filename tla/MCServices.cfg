SPECIFICATION Spec
CONSTANTS
    Operators = {o1}
    MaxTasks = 3
    MaxRequests = 3
    MaxFaults = 2
    Workers = {w1, w2}
    Names = {n1, n2}
    OldName = n1
    QueueSize = 1
    MaxFlashes = 1
    MaxChanges = 1
    MaxPackets = 1
    Repeaters = {r1}
    POLL_ATTEMPTS = 3
    Shapes = {"none", "dict", "list"}
    MaxMisses = 1
    MaxResets = 1
    MaxCrashes = 1
    Branches = {main, dev}
    First = main
    MaxPushes = 1
    MaxRestarts = 1
    MaxWrites = 1
    MaxBackups = 1
    Variants = {v1, v2}
    MaxKills = 1
    Intervals = {1, 3}
    MaxInterval = 3
    Delays = {0, 2}
    MaxSaves = 2
    Senders = {x1, x2}
    MaxHalRestarts = 2
    Centers = {"f1", "f2"}
    MaxClicks = 3
    MaxReboots = 1
    Spots = {1, 2}
    Pins = {0, 3}
    Qualities = {1, 3}
    Modes = {1, 2, 3}
    MaxReports = 2
    MaxLost = 1
    Hold = 2
    Cooldown = 3
    Radios = {"onboard", "usb"}
    MaxAdverts = 2
INVARIANTS
    TypeOK  ReadingsKept  ActsOnTime 
PROPERTIES
    PositionTold DevicesComeBack WorkEnds
CHECK_DEADLOCK FALSE
