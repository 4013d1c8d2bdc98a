SPECIFICATION Spec
CONSTANTS
    Keys = {k1, k2, k3, k4}
    Heard <- AnyHeard
    LocalNode = us
    NoNode = none
    Broadcasts = {bcast}
    Dests = {us, bcast}
    Types = {text, routing}
    RelayWorthyTypes = {text}
    MinRssi <- DefaultMinRssi
    MaxRssi <- DefaultMaxRssi
    NoSignal = NoSignal
    MaxPerMinute = 3
    BurstSize = 2
    WindowSeconds = 4
    BurstSeconds = 2
    MaxEntries = 2
    TtlSeconds = 3
    MaxTime = 5
    MaxPackets = 4
SYMMETRY KeySymmetry
INVARIANTS
    RateRespected
    BurstRespected
    NoRelayLoop
    Inv
CHECK_DEADLOCK FALSE
