---------------------------- MODULE Broadcasters ----------------------------
(***************************************************************************)
(* The periodic NodeInfo, telemetry and position broadcasts:               *)
(* src/transmit/broadcast_interval.py, which holds the loop, and the three *)
(* broadcasters around it.  One broadcaster is modelled, of any kind.      *)
(* Between two awaits its loop runs without interruption, so a step here   *)
(* goes from one await to the next.  Times are ages and remaining waits in *)
(* units, capped where no comparison can tell them apart any more.         *)
(***************************************************************************)
EXTENDS Integers

CONSTANTS
    Intervals,    \* non-zero intervals the operator can set
    MaxInterval,  \* the longest of them
    Delays,       \* startup_delay_seconds
    MaxSaves      \* bound: intervals the operator saves

VARIABLES
    kind,      \* which of the three broadcasters
    interval,  \* _interval, 0 while paused
    sent,      \* age of _last_sent_at, Never before the first success
    loop,      \* where the loop's task is
    timer,     \* what is left of the wait_for it is in
    forced,    \* a broadcast_now asked for by the operator or the button
    txOn,      \* transmit.enabled, which the configuration page changes live
    coords,    \* the position resolver has coordinates
    saves,     \* intervals saved so far
    \* history: age of the last automatic attempt; whether an interval was
    \* saved since; whether an attempt came too early
    gap, nudged, early

vars == << kind, interval, sent, loop, timer, forced, txOn, coords, saves,
           gap, nudged, early >>

Never == -1
Waiting == {"delay", "sleep", "paused"}

Older(age) == IF age \in {Never, MaxInterval} THEN age ELSE age + 1

Init ==
    /\ kind \in {"nodeinfo", "telemetry", "position"}
    /\ interval \in Intervals \cup {0}
    /\ timer \in Delays
    /\ loop = IF timer > 0 THEN "delay" ELSE "woken"
    /\ sent = Never /\ forced = FALSE /\ txOn = TRUE
    /\ coords \in BOOLEAN
    /\ saves = 0
    /\ gap = Never /\ nudged = FALSE /\ early = FALSE

-----------------------------------------------------------------------------
(* The loop.                                                               *)

IsDueNow(last, every) == last = Never \/ last >= every

WholeInterval(last, every) ==
    IF last # Never /\ last >= every THEN 0 ELSE every

(* With nothing sent yet the whole interval, else what is left of it.      *)
SleepUntilNext(last, every) ==
    IF last = Never THEN every
    ELSE IF last >= every THEN 0 ELSE every - last

(* The send returns before its first await: transmission is switched off,  *)
(* or there is no position to send.                                        *)
FailsAtOnce == ~txOn \/ (kind = "position" /\ ~coords)

Rest(at, wait) == loop' = at /\ timer' = wait

NoAttempt == UNCHANGED << gap, nudged, early >>

(* An automatic attempt begins.  One that follows a failed attempt while a *)
(* broadcast is overdue has not waited for anything (`again`).             *)
Attempt(again) ==
    /\ early' = (early \/ (gap \in 0 .. interval - 1 /\ ~nudged /\ ~again))
    /\ gap' = 0 /\ nudged' = FALSE

(* From the head of the loop to its next await.  An attempt that fails at  *)
(* once and is overdue afterwards is repeated without an await in between: *)
(* the event loop is never given back.                                     *)
Head(last, again) ==
    \/ /\ interval = 0
       /\ Rest("paused", 0) /\ NoAttempt
    \/ /\ interval > 0 /\ ~IsDueNow(last, interval)
       /\ Rest("sleep", SleepUntilNext(last, interval)) /\ NoAttempt
    \/ /\ interval > 0 /\ IsDueNow(last, interval) /\ ~FailsAtOnce
       /\ Rest("sending", 0) /\ Attempt(again)
    \/ /\ interval > 0 /\ IsDueNow(last, interval) /\ FailsAtOnce
       /\ IF SleepUntilNext(last, interval) > 0
          THEN Rest("sleep", SleepUntilNext(last, interval))
          ELSE Rest("spinning", 0)
       /\ Attempt(again)

(* The wait_for of the startup delay or of the sleep ends, or the event    *)
(* has been set.                                                           *)
Wakes ==
    /\ \/ loop = "woken"
       \/ loop \in {"delay", "sleep"} /\ timer = 0
    /\ Head(sent, FALSE)
    /\ UNCHANGED << kind, interval, sent, forced, txOn, coords, saves >>

(* on_due returns; mark_sent was called if the radio took the packet.      *)
AttemptEnds(ok) ==
    /\ loop = "sending"
    /\ sent' = IF ok THEN 0 ELSE sent
    /\ IF interval > 0 /\ SleepUntilNext(sent', interval) > 0
       THEN Rest("sleep", SleepUntilNext(sent', interval)) /\ NoAttempt
       ELSE Head(sent', sent' # Never)
    /\ UNCHANGED << kind, interval, forced, txOn, coords, saves >>

(* An exception of the metrics provider, the resolver or the send leaves   *)
(* run_loop; NodeInfo catches its own and counts it as a failed send.      *)
AttemptRaises ==
    /\ loop = "sending" /\ kind # "nodeinfo"
    /\ Rest("ended", 0)
    /\ UNCHANGED << kind, interval, sent, forced, txOn, coords, saves >>
    /\ NoAttempt

-----------------------------------------------------------------------------
(* The requests.  None is served while the loop spins.                     *)

(* The configuration route saves an interval and hands it to a running     *)
(* broadcaster, which wakes the loop from whatever it waits for.           *)
SetInterval(minutes) ==
    /\ loop \notin {"spinning", "ended"} /\ saves < MaxSaves
    /\ interval' = minutes /\ saves' = saves + 1 /\ nudged' = TRUE
    /\ loop' = IF loop \in Waiting THEN "woken" ELSE loop
    /\ timer' = IF loop \in Waiting THEN 0 ELSE timer
    /\ UNCHANGED << kind, sent, forced, txOn, coords, gap, early >>

(* broadcast_now, beside the loop: the dashboard's action and the button.  *)
ForceBegins ==
    /\ kind = "nodeinfo" /\ loop # "spinning" /\ ~forced /\ ~FailsAtOnce
    /\ forced' = TRUE
    /\ UNCHANGED << kind, interval, sent, loop, timer, txOn, coords, saves,
                    gap, nudged, early >>

ForceEnds(ok) ==
    /\ forced /\ loop # "spinning"
    /\ forced' = FALSE
    /\ sent' = IF ok THEN 0 ELSE sent
    /\ UNCHANGED << kind, interval, loop, timer, txOn, coords, saves,
                    gap, nudged, early >>

(* PUT /api/config/transmit changes the object the send looks at.          *)
SwitchTransmit ==
    /\ loop # "spinning"
    /\ txOn' = ~txOn
    /\ UNCHANGED << kind, interval, sent, loop, timer, forced, coords, saves,
                    gap, nudged, early >>

(* The live fix is lost or found, or the pin is set or cleared.            *)
CoordsChange ==
    /\ kind = "position" /\ loop # "spinning"
    /\ coords' = ~coords
    /\ UNCHANGED << kind, interval, sent, loop, timer, forced, txOn, saves,
                    gap, nudged, early >>

(* A task that can run does so before time has passed.                     *)
Tick ==
    /\ loop \notin {"woken", "spinning"}
    /\ loop \in {"delay", "sleep"} => timer > 0
    /\ timer' = IF timer > 0 THEN timer - 1 ELSE 0
    /\ sent' = Older(sent) /\ gap' = Older(gap)
    /\ UNCHANGED << kind, interval, loop, forced, txOn, coords, saves,
                    nudged, early >>

LoopStep == Wakes \/ AttemptRaises \/ \E ok \in BOOLEAN : AttemptEnds(ok)

Next ==
    \/ LoopStep
    \/ \E minutes \in Intervals \cup {0} : SetInterval(minutes)
    \/ ForceBegins
    \/ \E ok \in BOOLEAN : ForceEnds(ok)
    \/ SwitchTransmit
    \/ CoordsChange
    \/ Tick

Spec == Init /\ [][Next]_vars /\ WF_vars(LoopStep) /\ WF_vars(Tick)

-----------------------------------------------------------------------------
(* Types of the broadcaster's fields and of its loop's positions.          *)
TypeOK ==
    /\ kind \in {"nodeinfo", "telemetry", "position"}
    /\ interval \in Intervals \cup {0}
    /\ sent \in Never .. MaxInterval /\ gap \in Never .. MaxInterval
    /\ loop \in Waiting \cup {"woken", "sending", "spinning", "ended"}
    /\ timer \in 0 .. MaxInterval /\ saves \in 0 .. MaxSaves
    /\ {forced, txOn, coords, nudged, early} \subseteq BOOLEAN

(* An automatic broadcast is attempted no sooner than the interval after   *)
(* the attempt before it, unless an interval was saved in between or the   *)
(* attempt before it failed while a broadcast was overdue: then the loop   *)
(* comes back at once, as often as it fails (run_loop, `sleep_seconds <=   *)
(* 0`).                                                                    *)
Paced == ~early

(* The loop never sleeps past the time next_due_at shows the operator, not *)
(* after a saved interval nor after a forced broadcast.                    *)
NotOverslept ==
    (loop = "sleep" /\ sent # Never /\ sent < interval)
        => timer <= interval - sent

(* A broadcaster that is not paused goes on sending: a pause, a change     *)
(* of interval and a failed send are not its end.  What is its end: an     *)
(* exception in the telemetry and the position broadcaster, and a send     *)
(* that fails without an await after an earlier one succeeded, which stops *)
(* the whole service.                                                      *)
GoesOn ==
    []<>(interval = 0 \/ FailsAtOnce \/ forced
            \/ loop \in {"sending", "ended", "spinning"})
=============================================================================
