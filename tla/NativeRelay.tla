----------------------------- MODULE NativeRelay -----------------------------
(***************************************************************************)
(* The relay manager on the onboard radio, as _wire_native_relay() in      *)
(* src/api/server.py connects them: the transmit function of RelayManager  *)
(* is TxService.send_raw_relay(), so an approved packet still has to pass  *)
(* the duty-cycle budget and the radio, in competition with the service's  *)
(* other senders, and the pipeline waits for it before the next packet.    *)
(***************************************************************************)
EXTENDS RelayManager

CONSTANTS
    Senders, RelayTask, Airtimes, MaxAir, Budget, DutyWindow, MaxSends,
    RawFrames      \* the packets of Heard that are Meshtastic with raw bytes

VARIABLES records, pc, air, boot, emitted

Tx == INSTANCE TxService WITH RelayTasks <- {RelayTask}, MaxBoots <- 0,
                              WindowSeconds <- DutyWindow

relayVars == << enabled, seen, timestamps, relaying, relayCount, rejections,
                recorded, approved >>
txVars == << records, pc, air, boot, emitted >>
nativeVars == << now, relayVars, txVars >>

(* The wiring is made only when the relay is enabled at start-up.          *)
NativeInit == Init /\ Tx!Init /\ enabled

-----------------------------------------------------------------------------
(* The pipeline gives a packet to the relay manager; an approved one goes  *)
(* straight into send_raw_relay(), unless it has no raw Meshtastic frame.  *)
Process(p) ==
    /\ Evaluated < MaxPackets
    /\ ProcessPacket(p)
    /\ IF approved' # approved /\ p \in RawFrames
       THEN \E ms \in Airtimes : Tx!SendRawRelay(RelayTask, ms, p.hop_limit)
       ELSE UNCHANGED txVars

(* _native_relay() returned, so the pipeline goes on.                      *)
NativeReturns ==
    /\ pc[RelayTask] = "idle"
    /\ RelayReturns
    /\ UNCHANGED txVars

(* The other senders, and the steps of a send that is under way.           *)
OtherSend(s) ==
    /\ \E ms \in Airtimes : Tx!SendText(s, ms)
    /\ UNCHANGED relayVars

SendStep(s) == Tx!SendStep(s) /\ UNCHANGED relayVars

(* What else can happen while a relay is under way; the service never      *)
(* calls the enabled setter, a changed setting takes a restart.            *)
Manage ==
    \/ GetStats /\ UNCHANGED txVars
    \/ Tx!ReadUsage /\ UNCHANGED relayVars

NativeTick == Tick /\ UNCHANGED txVars

NativeNext ==
    \/ \E p \in Heard : Process(p)
    \/ NativeReturns
    \/ \E s \in Senders : OtherSend(s)
    \/ \E s \in Senders : SendStep(s)
    \/ Manage
    \/ NativeTick

NativeSpec == NativeInit /\ [][NativeNext]_nativeVars

-----------------------------------------------------------------------------
(***************************************************************************)
(* The limiter is consulted when a packet is approved, not when it goes on *)
(* the air, and a send may be delayed in between.  Because the pipeline    *)
(* waits for each relay, the rate on the air is still bounded: no window   *)
(* holds more than MaxPerMinute + 1 relayed frames.                        *)
(***************************************************************************)
RelayedIn(t, u) ==
    {n \in DOMAIN emitted : emitted[n].relay /\ emitted[n].at \in t .. u}

OnAirRate ==
    \A t \in 0 .. now : Cardinality(RelayedIn(t, t + WindowSeconds)) <= MaxPerMinute + 1
=============================================================================
