------------------------------ MODULE BandSweep ------------------------------
(***************************************************************************)
(* The loop that sweeps the band for the spectrum card, and the requests   *)
(* that wake it: src/api/telemetry/spectral_scan_service.py, the same loop *)
(* in rfenv_companion_scan_service.py, capture_ram_spectrum_service.py     *)
(* with its baseline, and src/api/routes/spectrum_routes.py.  Only one of  *)
(* the three services exists on a board.                                   *)
(***************************************************************************)
EXTENDS Integers

CONSTANTS
    Centers,       \* RF centres the channel plan can give
    MaxClicks,     \* bound: requests of the operator
    MaxReboots     \* bound: restarts of the service

VARIABLES
    sweeper,    \* "scan": the spectral or the companion service; "capture"
    auto,       \* sweep_interval_seconds > 0
    at,         \* where the loop is
    event,      \* _sweep_requested
    calibrate,  \* _calibration_requested
    center,     \* the RF centres in use
    baseline,   \* _baseline: the centres it was taken at, or None
    file,       \* the same in capture_ram_baseline.json
    clicks, reboots,
    \* history: what becomes of the last sweep and the last calibration that
    \* were asked for; whether the latter came while one was running; whether
    \* the operator cleared the baseline and nothing has asked for one since
    sweepAsked, calibrationAsked, late, cleared

vars == << sweeper, auto, at, event, calibrate, center, baseline, file, clicks,
           reboots, sweepAsked, calibrationAsked, late, cleared >>

None == "none"
Fate == {"nothing", "asked", "serving"}

Init ==
    /\ sweeper \in {"scan", "capture"} /\ auto \in BOOLEAN
    /\ at = "wait" /\ event = FALSE /\ calibrate = FALSE
    /\ center \in Centers /\ baseline = None /\ file = None
    /\ clicks = 0 /\ reboots = 0
    /\ sweepAsked = "nothing" /\ calibrationAsked = "nothing"
    /\ late = FALSE /\ cleared = FALSE

Begun(fate) == IF fate = "asked" THEN "serving" ELSE fate
Ended(fate) == IF fate = "serving" THEN "nothing" ELSE fate

(* A baseline counts for the centres it was taken at only.                 *)
ActiveBaseline == baseline # None /\ baseline = center

-----------------------------------------------------------------------------
(* The loop.                                                               *)

(* _run_sweep clears the event before it begins.                           *)
SweepBegins ==
    /\ at' = "sweep" /\ event' = FALSE
    /\ sweepAsked' = Begun(sweepAsked)

(* The wait ends: by the event or, with an interval, by its timeout.  The  *)
(* scanning loop has a shorter interval of its own.                        *)
Wakes ==
    /\ at = "wait"
    /\ \/ /\ sweeper = "scan"
          /\ at' = "scan"
          /\ UNCHANGED << event, calibrate, sweepAsked, calibrationAsked >>
       \/ /\ sweeper = "capture" /\ (event \/ auto) /\ calibrate
          /\ at' = "calibrate" /\ event' = FALSE /\ calibrate' = FALSE
          /\ calibrationAsked' = Begun(calibrationAsked)
          /\ UNCHANGED sweepAsked
       \/ /\ sweeper = "capture" /\ (event \/ auto) /\ ~calibrate
          /\ SweepBegins
          /\ UNCHANGED << calibrate, calibrationAsked >>
    /\ UNCHANGED << sweeper, auto, center, baseline, file, clicks, reboots,
                    late, cleared >>

(* After the noise scan: a sweep that was asked for or, with an interval,  *)
(* is due.                                                                 *)
ScanDone(due) ==
    /\ at = "scan"
    /\ IF event \/ (auto /\ due)
       THEN SweepBegins
       ELSE at' = "wait" /\ UNCHANGED << event, sweepAsked >>
    /\ UNCHANGED << sweeper, auto, calibrate, center, baseline, file, clicks,
                    reboots, calibrationAsked, late, cleared >>

(* A calibration with usable captures becomes the baseline, in the file if *)
(* that can be written; the sweep the card shows follows.                  *)
CalibrationDone(usable, saved) ==
    /\ at = "calibrate"
    /\ baseline' = IF usable THEN center ELSE baseline
    /\ file' = IF usable /\ saved THEN center ELSE file
    /\ calibrationAsked' = Ended(calibrationAsked)
    /\ SweepBegins
    /\ UNCHANGED << sweeper, auto, calibrate, center, clicks, reboots, late,
                    cleared >>

SweepDone ==
    /\ at = "sweep"
    /\ at' = "wait" /\ sweepAsked' = Ended(sweepAsked)
    /\ UNCHANGED << sweeper, auto, event, calibrate, center, baseline, file,
                    clicks, reboots, calibrationAsked, late, cleared >>

(* An exception in a capture ends the capture-RAM loop; the scanning loop  *)
(* counts its own as failed scans.                                         *)
LoopCrashes ==
    /\ sweeper = "capture" /\ at \in {"calibrate", "sweep"}
    /\ at' = "over"
    /\ UNCHANGED << sweeper, auto, event, calibrate, center, baseline, file,
                    clicks, reboots, sweepAsked, calibrationAsked, late,
                    cleared >>

-----------------------------------------------------------------------------
(* The routes, which answer 503 once the loop is over.                     *)

RequestSweep ==
    /\ at # "over" /\ clicks < MaxClicks
    /\ event' = TRUE /\ clicks' = clicks + 1 /\ sweepAsked' = "asked"
    /\ UNCHANGED << sweeper, auto, at, calibrate, center, baseline, file,
                    reboots, calibrationAsked, late, cleared >>

RequestCalibration ==
    /\ sweeper = "capture" /\ at # "over" /\ clicks < MaxClicks
    /\ event' = TRUE /\ calibrate' = TRUE /\ clicks' = clicks + 1
    /\ calibrationAsked' = "asked" /\ cleared' = FALSE
    /\ late' = (at = "calibrate")
    /\ UNCHANGED << sweeper, auto, at, center, baseline, file, reboots,
                    sweepAsked >>

(* Forget the baseline; the file may not let itself be deleted.            *)
ClearCalibration(deleted) ==
    /\ sweeper = "capture" /\ clicks < MaxClicks
    /\ baseline' = None /\ clicks' = clicks + 1
    /\ file' = IF deleted THEN None ELSE file
    /\ cleared' = (deleted /\ ~calibrate /\ at # "calibrate")
    /\ UNCHANGED << sweeper, auto, at, event, calibrate, center, reboots,
                    sweepAsked, calibrationAsked, late >>

(* The service is restarted, with the same channel plan or another.        *)
Reboot(c) ==
    /\ reboots < MaxReboots
    /\ center' = c /\ baseline' = file /\ reboots' = reboots + 1
    /\ at' = "wait" /\ event' = FALSE /\ calibrate' = FALSE
    /\ sweepAsked' = "nothing" /\ calibrationAsked' = "nothing"
    /\ late' = FALSE
    /\ UNCHANGED << sweeper, auto, file, clicks, cleared >>

LoopStep ==
    \/ Wakes \/ SweepDone \/ LoopCrashes
    \/ \E due \in BOOLEAN : ScanDone(due)
    \/ \E usable, saved \in BOOLEAN : CalibrationDone(usable, saved)

Next ==
    \/ LoopStep
    \/ RequestSweep \/ RequestCalibration
    \/ \E deleted \in BOOLEAN : ClearCalibration(deleted)
    \/ \E c \in Centers : Reboot(c)

Spec == Init /\ [][Next]_vars /\ WF_vars(LoopStep)

-----------------------------------------------------------------------------
(* Types of the services' fields and of the loop's positions.              *)
TypeOK ==
    /\ sweeper \in {"scan", "capture"}
    /\ at \in {"wait", "scan", "calibrate", "sweep", "over"}
    /\ {auto, event, calibrate, late, cleared} \subseteq BOOLEAN
    /\ center \in Centers /\ {baseline, file} \subseteq Centers \cup {None}
    /\ clicks \in 0 .. MaxClicks /\ reboots \in 0 .. MaxReboots
    /\ sweepAsked \in Fate /\ calibrationAsked \in Fate

(* Once the operator cleared the calibration, no baseline comes back       *)
(* before another one is asked for, not even by a restart, unless one was  *)
(* being taken or the file could not be deleted.                           *)
ClearedStays == cleared => ~ActiveBaseline

(* A sweep that was accepted is run, also one asked for during a sweep or  *)
(* a calibration, unless the loop crashes.                                 *)
SweepServed == []<>(sweepAsked = "nothing" \/ at = "over")

(* A calibration that was accepted is run.  Exception: asked for while one *)
(* is running and without automatic sweeps, the sweep that follows takes   *)
(* the event with it, and the card says "calibrating" until the next       *)
(* request.                                                                *)
CalibrationServed ==
    []<>(calibrationAsked = "nothing" \/ at = "over" \/ (late /\ ~auto))
=============================================================================
