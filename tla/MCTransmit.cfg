SPECIFICATION SpecEach
CONSTANTS
    Senders = {s1, s2, r1}
    RelayTasks = {r1}
    Airtimes = {2}
    MaxAir = 2
    Budget = 3
    WindowSeconds = 1
    MaxTime = 3
    MaxSends = 4
    MaxBoots = 1
    NoSignal = NoSignal
    k1 = k1
    k2 = k2
    RelayTime = 4
    RelayPackets = 3
    RelaySends = 3
SYMMETRY SenderSymmetry
INVARIANTS
    TypeOK
    OvershootBounded
    NothingForgotten
    OnAirRate
CHECK_DEADLOCK FALSE
