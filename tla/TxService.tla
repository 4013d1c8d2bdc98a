------------------------------ MODULE TxService ------------------------------
(***************************************************************************)
(* Outbound transmission on the onboard radio: src/transmit/tx_service.py  *)
(* and the duty-cycle tracker it consults, src/transmit/duty_cycle.py.     *)
(*                                                                         *)
(* Every send - text, NodeInfo, position, telemetry, the automatic replies *)
(* and the native relay - is a coroutine with the same skeleton: compute   *)
(* the airtime in a worker thread, check the budget, hand the packet to    *)
(* the concentrator in a worker thread, and record the airtime when it was *)
(* accepted.  Each await lets the other senders run, so the check and the  *)
(* record of one send are separate steps here.  Airtime is counted in      *)
(* units; Budget is max_duty_percent of the window in those units.         *)
(***************************************************************************)
EXTENDS Integers, Sequences, FiniteSets, Functions

CONSTANTS
    Senders,        \* coroutines that may be inside a send at the same time
    RelayTasks,     \* those of them that send for the relay manager
    Airtimes,       \* airtimes a packet may have
    MaxAir,         \* the longest of them
    Budget,         \* airtime allowed per window
    WindowSeconds,  \* _window_seconds
    MaxTime,        \* bound: ticks of the monotonic clock
    MaxSends,       \* bound: packets that reach the radio
    MaxBoots        \* bound: restarts of the service

ASSUME TxAssumption ==
    /\ IsFiniteSet(Senders) /\ Senders # {} /\ RelayTasks \subseteq Senders
    /\ MaxAir \in Nat /\ Airtimes \subseteq 1 .. MaxAir
    /\ Budget \in Nat /\ WindowSeconds \in Nat \ {0}
    /\ MaxTime \in Nat /\ MaxSends \in Nat /\ MaxBoots \in Nat

VARIABLES
    now,       \* time.monotonic()
    records,   \* DutyCycleTracker._records: [at, ms], oldest first
    pc,        \* where each sender's coroutine is suspended
    air,       \* airtime_ms of its packet, 0 outside a send
    boot,      \* restarts of the service so far
    emitted    \* history: what the radio emitted

vars == << now, records, pc, air, boot, emitted >>

Init ==
    /\ now = 0 /\ boot = 0
    /\ records = << >>
    /\ pc = [s \in Senders |-> "idle"]
    /\ air = [s \in Senders |-> 0]
    /\ emitted = << >>

-----------------------------------------------------------------------------
(* Total airtime of the records of a sequence, of all of them and of those *)
(* that satisfy a test.                                                    *)
AirtimeOf(recs) == [n \in DOMAIN recs |-> recs[n].ms]
Total(recs) == SumFunction(AirtimeOf(recs))
TotalWhere(recs, Test(_)) ==
    SumFunctionOnSet(AirtimeOf(recs), {n \in DOMAIN recs : Test(recs[n])})

(* Variants of the definitions below that carry a plausible slip each.     *)
FitsBeforeSend(recs, ms) == Total(recs) <= Budget
PruneOneTickEarly(recs, t) == SelectSeq(recs, LAMBDA r : r.at > t - WindowSeconds)
RefundOnFailure(s) ==
    /\ pc[s] = "cleared"
    /\ records' = Append(records, [at |-> now, ms |-> 0 - air[s]])
    /\ pc' = [pc EXCEPT ![s] = "idle"]
    /\ air' = [air EXCEPT ![s] = 0]
    /\ UNCHANGED << now, boot, emitted >>

(* _prune_expired(): pop the oldest record while it is older than the      *)
(* window.                                                                 *)
PruneExpired(recs, t) ==
    LET Old(r) == r.at < t - WindowSeconds
        n == CHOOSE n \in 0 .. Len(recs) :
                /\ \A i \in 1 .. n : Old(recs[i])
                /\ n < Len(recs) => ~ Old(recs[n + 1])
    IN  SubSeq(recs, n + 1, Len(recs))

(* The comparison of check_budget(), on the pruned records.                *)
Fits(recs, ms) == Total(recs) + ms <= Budget

-----------------------------------------------------------------------------
(* A send starts: the packet is built and its airtime asked for, in        *)
(* _send_built_packet() or in the sender's own copy of it.                 *)
Begin(s, ms) ==
    /\ pc[s] = "idle"
    /\ pc' = [pc EXCEPT ![s] = "airtime"]
    /\ air' = [air EXCEPT ![s] = ms]
    /\ UNCHANGED << now, records, boot, emitted >>

(***************************************************************************)
(* The operations that reach the radio.  A refusal before that point       *)
(* (transmit disabled, no builder, a packet that does not build, a text    *)
(* that a USB stick sends instead) changes nothing modelled here.          *)
(***************************************************************************)
OwnSend(s, ms) == s \notin RelayTasks /\ Begin(s, ms)

SendText(s, ms) == OwnSend(s, ms)
SendNodeinfo(s, ms) == OwnSend(s, ms)
SendTelemetry(s, ms) == OwnSend(s, ms)
SendPosition(s, ms) == OwnSend(s, ms)

(* A reply to a request that came in under PKI (channel hash 0) is sent    *)
(* only when the requester's public key is known.                          *)
MaxHopLimit == 7
Requests == [channelHash : {0, 1}, keyKnown : BOOLEAN]
Reply(s, ms, request) ==
    /\ request.channelHash = 0 => request.keyKnown
    /\ OwnSend(s, ms)

SendRoutingAck(s, ms, request) == Reply(s, ms, request)
SendTracerouteReply(s, ms, request) == Reply(s, ms, request)
SendTelemetryReply(s, ms, request) == Reply(s, ms, request)

(* The native relay: the frame is sent again with one hop less.            *)
SendRawRelay(s, ms, hopLimit) ==
    /\ s \in RelayTasks
    /\ hopLimit > 0
    /\ Begin(s, ms)

(* The airtime is known: check_budget() passes and the coroutine awaits    *)
(* the radio (a text first reads the radio's status; nothing else depends  *)
(* on it).                                                                 *)
BudgetGranted(s) ==
    /\ pc[s] = "airtime"
    /\ Fits(PruneExpired(records, now), air[s])
    /\ records' = PruneExpired(records, now)
    /\ pc' = [pc EXCEPT ![s] = "cleared"]
    /\ UNCHANGED << now, air, boot, emitted >>

(* ... or it fails and the send ends with "Duty cycle limit reached".      *)
BudgetRefused(s) ==
    /\ pc[s] = "airtime"
    /\ ~ Fits(PruneExpired(records, now), air[s])
    /\ records' = PruneExpired(records, now)
    /\ pc' = [pc EXCEPT ![s] = "idle"]
    /\ air' = [air EXCEPT ![s] = 0]
    /\ UNCHANGED << now, boot, emitted >>

(* lgw_send() in the worker thread: the packet goes on the air ...         *)
Emit(s) ==
    /\ pc[s] = "cleared"
    /\ Len(emitted) < MaxSends
    /\ pc' = [pc EXCEPT ![s] = "sent"]
    /\ emitted' = Append(emitted, [at |-> now, ms |-> air[s], relay |-> s \in RelayTasks, boot |-> boot])
    /\ UNCHANGED << now, records, air, boot >>

(* ... or the HAL rejects it and the send ends without a record.           *)
EmitFails(s) ==
    /\ pc[s] = "cleared"
    /\ pc' = [pc EXCEPT ![s] = "idle"]
    /\ air' = [air EXCEPT ![s] = 0]
    /\ UNCHANGED << now, records, boot, emitted >>

(* The coroutine resumes after lgw_send() returned 0 (a text only after it *)
(* polled the radio's status): record_tx(), whose log line prunes again.   *)
RecordTx(s) ==
    /\ pc[s] = "sent"
    /\ records' = PruneExpired(Append(records, [at |-> now, ms |-> air[s]]), now)
    /\ pc' = [pc EXCEPT ![s] = "idle"]
    /\ air' = [air EXCEPT ![s] = 0]
    /\ UNCHANGED << now, boot, emitted >>

(* current_usage_percent() and remaining_budget_ms(), for the dashboard    *)
(* and the metrics, prune as well.                                         *)
ReadUsage ==
    /\ records' = PruneExpired(records, now)
    /\ UNCHANGED << now, pc, air, boot, emitted >>

(* The process stops and starts again: the tracker lives in memory only.   *)
Restart ==
    /\ boot < MaxBoots
    /\ boot' = boot + 1
    /\ records' = << >>
    /\ pc' = [s \in Senders |-> "idle"]
    /\ air' = [s \in Senders |-> 0]
    /\ UNCHANGED << now, emitted >>

Tick ==
    /\ now < MaxTime
    /\ now' = now + 1
    /\ UNCHANGED << records, pc, air, boot, emitted >>

SendStep(s) ==
    \/ BudgetGranted(s) \/ BudgetRefused(s)
    \/ Emit(s) \/ EmitFails(s) \/ RecordTx(s)

Next ==
    \/ \E s \in Senders, ms \in Airtimes :
          \/ SendText(s, ms) \/ SendNodeinfo(s, ms)
          \/ SendTelemetry(s, ms) \/ SendPosition(s, ms)
          \/ \E request \in Requests : \/ SendRoutingAck(s, ms, request)
                                       \/ SendTracerouteReply(s, ms, request)
                                       \/ SendTelemetryReply(s, ms, request)
          \/ \E hopLimit \in 0 .. MaxHopLimit : SendRawRelay(s, ms, hopLimit)
    \/ \E s \in Senders : SendStep(s)
    \/ ReadUsage
    \/ Restart
    \/ Tick

Spec == Init /\ [][Next]_vars

-----------------------------------------------------------------------------
TypeOK ==
    /\ now \in Nat /\ boot \in Nat
    /\ records \in Seq([at : Nat, ms : Nat])
    /\ pc \in [Senders -> {"idle", "airtime", "cleared", "sent"}]
    /\ air \in [Senders -> Nat]
    /\ emitted \in Seq([at : Nat, ms : Nat, relay : BOOLEAN, boot : Nat])

(* Airtime emitted in the window that ends now, in this run of the service *)
(* and over all of them.                                                   *)
InWindow(e) == e.at >= now - WindowSeconds
EmittedThisBoot == TotalWhere(emitted, LAMBDA e : InWindow(e) /\ e.boot = boot)
EmittedEver == TotalWhere(emitted, InWindow)

(***************************************************************************)
(* The check is not atomic with the send it guards: the airtime on the air *)
(* may pass the limit, but by no more than one packet for each of the      *)
(* other senders that were past their check at the same time.  With one    *)
(* sender the limit is exact.                                              *)
(***************************************************************************)
OvershootBounded ==
    EmittedThisBoot <= Budget + (Cardinality(Senders) - 1) * MaxAir

(***************************************************************************)
(* Every emission in the window is in the tracker's records or belongs to  *)
(* a sender that is about to record it: the tracker never forgets airtime  *)
(* that still counts.                                                      *)
(***************************************************************************)
NothingForgotten ==
    EmittedThisBoot <= Total(records)
                       + SumFunctionOnSet(air, {s \in Senders : pc[s] = "sent"})

(* duty_cycle.py: "rejects transmissions that would exceed the regulatory  *)
(* limit", over the rolling window, whoever sends.                         *)
WithinLimit == EmittedEver <= Budget
=============================================================================
