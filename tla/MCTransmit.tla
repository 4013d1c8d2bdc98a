----------------------------- MODULE MCTransmit -----------------------------
(* TxService and, on variables of its own, the relay manager on top of a   *)
(* second instance of it.  A behaviour is about one of the two, the other  *)
(* stays as it is initially.                                               *)
EXTENDS TxService, TLC

CONSTANTS
    NoSignal,         \* the value of a missing RSSI
    k1, k2,           \* two packets, of which the second has no raw frame
    RelayTime,        \* bound on ticks of the relay's clock
    RelayPackets,     \* bound on packets given to the relay manager
    RelaySends        \* bound on packets that reach the radio

VARIABLES
    part,
    relayNow, enabled, seen, timestamps, relaying, relayCount, rejections,
    recorded, approved,
    relayRecords, relayPc, relayAir, relayBoot, relayEmitted

(* The senders other than the relay are interchangeable.                   *)
SenderSymmetry == Permutations(Senders \ RelayTasks)

RelayPacket(k) ==
    [key |-> k, hop_limit |-> 3, dest |-> "all", ptype |-> "text", rssi |-> -80]

Relay == INSTANCE NativeRelay WITH
    MaxPerMinute <- 1, BurstSize <- 2, WindowSeconds <- 1, BurstSeconds <- 1,
    MaxEntries <- 1, TtlSeconds <- 1, DutyWindow <- 1,
    Keys <- {k1, k2}, Heard <- { RelayPacket(k) : k \in {k1, k2} },
    RawFrames <- { RelayPacket(k1) }, LocalNode <- "us", NoNode <- "none",
    Broadcasts <- {"all"}, Dests <- {"all"}, Types <- {"text"},
    RelayWorthyTypes <- {"text"}, MinRssi <- -110, MaxRssi <- -50,
    MaxPackets <- RelayPackets, MaxTime <- RelayTime,
    Senders <- {"user", "relay"}, RelayTask <- "relay", Airtimes <- {1},
    MaxAir <- 1, Budget <- 3, MaxSends <- RelaySends,
    now <- relayNow, records <- relayRecords, pc <- relayPc, air <- relayAir,
    boot <- relayBoot, emitted <- relayEmitted

relayVars == << relayNow, enabled, seen, timestamps, relaying, relayCount,
                rejections, recorded, approved, relayRecords, relayPc, relayAir,
                relayBoot, relayEmitted >>

InitEach == part \in {"sends", "relay"} /\ Init /\ Relay!NativeInit

NextEach ==
    /\ UNCHANGED part
    /\ \/ part = "sends" /\ Next /\ UNCHANGED relayVars
       \/ part = "relay" /\ Relay!NativeNext /\ UNCHANGED vars

SpecEach == InitEach /\ [][NextEach]_<< part, vars, relayVars >>

(* The relay on the onboard radio: the rate on the air stays bounded       *)
(* although the limiter is asked before the frame waits for the radio.     *)
OnAirRate == Relay!OnAirRate
=============================================================================
