--------------------------- MODULE Services_proofs ---------------------------
(***************************************************************************)
(* Proofs about components of MCServices: the work on the concentrator,    *)
(* the band sweeps, the broadcasters, the button, the repeater poller, the *)
(* position, update, restore, firmware and the USB devices.  The           *)
(* components share no variable; each has an inductive invariant of its    *)
(* own, which holds in the behaviours that are about it.                   *)
(***************************************************************************)
EXTENDS MCServices, FiniteSetTheorems, TLAPS

-----------------------------------------------------------------------------
(***************************************************************************)
(* One component at a time: while a behaviour is about a component, its    *)
(* steps are that component's.                                             *)
(***************************************************************************)
LEMMA EachInit ==
  Init => /\ Hal!Init /\ Sweep!Init /\ Broadcast!Init /\ Button!Init
          /\ Poller!Init /\ Position!Init /\ Update!Init /\ Backup!Init /\ Flash!Init
          /\ Companion!Init /\ Serial!Init
BY DEF Init

LEMMA HalAlone ==
  ASSUME [Next]_vars
  PROVE  part' = part /\ (part = "hal" => [Hal!Next]_halVars)
<1>1. CASE Next
  BY <1>1, Zenon DEF Next
<1>2. CASE UNCHANGED vars
  BY <1>2 DEF vars
<1>3. QED
  BY <1>1, <1>2

LEMMA SweepAlone ==
  ASSUME [Next]_vars
  PROVE  part' = part /\ (part = "sweep" => [Sweep!Next]_sweepVars)
<1>1. CASE Next
  BY <1>1, Zenon DEF Next
<1>2. CASE UNCHANGED vars
  BY <1>2 DEF vars
<1>3. QED
  BY <1>1, <1>2

LEMMA BroadcastAlone ==
  ASSUME [Next]_vars
  PROVE  part' = part /\ (part = "broadcast" => [Broadcast!Next]_broadcastVars)
<1>1. CASE Next
  BY <1>1, Zenon DEF Next
<1>2. CASE UNCHANGED vars
  BY <1>2 DEF vars
<1>3. QED
  BY <1>1, <1>2

LEMMA ButtonAlone ==
  ASSUME [Next]_vars
  PROVE  part' = part /\ (part = "button" => [Button!Next]_buttonVars)
<1>1. CASE Next
  BY <1>1, Zenon DEF Next
<1>2. CASE UNCHANGED vars
  BY <1>2 DEF vars
<1>3. QED
  BY <1>1, <1>2

LEMMA PollerAlone ==
  ASSUME [Next]_vars
  PROVE  part' = part /\ (part = "poller" => [Poller!Next]_pollerVars)
<1>1. CASE Next
  BY <1>1, Zenon DEF Next
<1>2. CASE UNCHANGED vars
  BY <1>2 DEF vars
<1>3. QED
  BY <1>1, <1>2

LEMMA PositionAlone ==
  ASSUME [Next]_vars
  PROVE  part' = part /\ (part = "location" => [Position!Next]_locationVars)
<1>1. CASE Next
  BY <1>1, Zenon DEF Next
<1>2. CASE UNCHANGED vars
  BY <1>2 DEF vars
<1>3. QED
  BY <1>1, <1>2

LEMMA UpdateAlone ==
  ASSUME [Next]_vars
  PROVE  part' = part /\ (part = "update" => [Update!Next]_updateVars)
<1>1. CASE Next
  BY <1>1, Zenon DEF Next
<1>2. CASE UNCHANGED vars
  BY <1>2 DEF vars
<1>3. QED
  BY <1>1, <1>2

LEMMA BackupAlone ==
  ASSUME [Next]_vars
  PROVE  part' = part /\ (part = "backup" => [Backup!Next]_backupVars)
<1>1. CASE Next
  BY <1>1, Zenon DEF Next
<1>2. CASE UNCHANGED vars
  BY <1>2 DEF vars
<1>3. QED
  BY <1>1, <1>2

LEMMA FlashAlone ==
  ASSUME [Next]_vars
  PROVE  part' = part /\ (part = "flash" => [Flash!Next]_flashVars)
<1>1. CASE Next
  BY <1>1, Zenon DEF Next
<1>2. CASE UNCHANGED vars
  BY <1>2 DEF vars
<1>3. QED
  BY <1>1, <1>2

LEMMA CompanionAlone ==
  ASSUME [Next]_vars
  PROVE  part' = part /\ (part = "companion" => [Companion!Next]_companionVars)
<1>1. CASE Next
  BY <1>1, Zenon DEF Next
<1>2. CASE UNCHANGED vars
  BY <1>2 DEF vars
<1>3. QED
  BY <1>1, <1>2

LEMMA SerialAlone ==
  ASSUME [Next]_vars
  PROVE  part' = part /\ (part = "serial" => [Serial!Next]_serialVars)
<1>1. CASE Next
  BY <1>1, Zenon DEF Next
<1>2. CASE UNCHANGED vars
  BY <1>2 DEF vars
<1>3. QED
  BY <1>1, <1>2

LEMMA PositionStands ==
  ASSUME [Next]_vars, part # "location"
  PROVE  UNCHANGED locationVars
<1>1. CASE Next
  BY <1>1, Zenon DEF Next
<1>2. CASE UNCHANGED vars
  BY <1>2 DEF vars
<1>3. QED
  BY <1>1, <1>2

-----------------------------------------------------------------------------
(***************************************************************************)
(* The concentrator.  What a call meets follows from two facts about the   *)
(* lock and the flag: the page is turned by a capture that has the lock    *)
(* and found the chip started, and _started is up only between lgw_start   *)
(* and lgw_stop.                                                           *)
(***************************************************************************)

(* A capture under way has the lock and keeps the chip started, since      *)
(* lgw_stop needs the lock; only it turns the page.                        *)
LockKeepsPage ==
    /\ page # 0 => scan = "paged"
    /\ scan \in {"capturing", "paged"} => halLock /\ started

(* The flag and the chip through a restart: _started is down from lgw_stop *)
(* until lgw_start succeeded, and up where the sync word is written or a   *)
(* page waits for the lock.                                                *)
FlagMeansChip ==
    /\ started => chip
    /\ restartAt \in {"reset", "start", "flag"} => ~ started
    /\ restartAt = "flag" => chip
    /\ restartAt = "sync" => started
    /\ paging => started
    /\ restartAt # "idle" => ~ sourceUp

HalInv ==
    /\ LockKeepsPage /\ FlagMeansChip
    /\ Hal!PageRespected /\ Hal!UsedWhileStarted /\ Hal!CaptureQuiet /\ Hal!RunningIsTuned

LEMMA HalInitInv == Hal!Init => HalInv
BY DEF Hal!Init, HalInv, LockKeepsPage, FlagMeansChip, Hal!PageRespected,
       Hal!UsedWhileStarted, Hal!CaptureQuiet, Hal!RunningIsTuned

(* The event loop's steps: polls, the restart and the page.                *)
LEMMA HalLoopStep ==
  ASSUME HalInv,
         \/ Hal!Poll \/ Hal!RestartBegins \/ Hal!WrapperStop \/ Hal!PageBegins
         \/ Hal!MainStep
  PROVE  HalInv'
<1> USE DEF HalInv, LockKeepsPage, FlagMeansChip, Hal!PageRespected, Hal!UsedWhileStarted,
            Hal!CaptureQuiet, Hal!RunningIsTuned, Hal!LoopFree, Hal!Touch, Hal!NoTouch
<1>1. CASE Hal!Poll
  BY <1>1 DEF Hal!Poll
<1>2. CASE Hal!RestartBegins
  BY <1>2 DEF Hal!RestartBegins
<1>3. CASE Hal!WrapperStop
  BY <1>3 DEF Hal!WrapperStop
<1>4. CASE Hal!PageBegins
  BY <1>4 DEF Hal!PageBegins
<1>5. CASE Hal!RaiseStarted
  BY <1>5 DEF Hal!RaiseStarted
<1>6. CASE Hal!SetSyncword
  BY <1>6 DEF Hal!SetSyncword
<1>7. CASE Hal!PageSent
  BY <1>7 DEF Hal!PageSent
<1>8. ASSUME NEW ok \in BOOLEAN, Hal!Configure(ok)
      PROVE  HalInv'
  BY <1>8 DEF Hal!Configure
<1>9. ASSUME NEW ok \in BOOLEAN, Hal!WrapperStart(ok)
      PROVE  HalInv'
  BY <1>9 DEF Hal!WrapperStart
<1>10. QED
  BY <1>1, <1>2, <1>3, <1>4, <1>5, <1>6, <1>7, <1>8, <1>9 DEF Hal!MainStep

(* The worker threads' steps: transmissions, captures and scans.           *)
LEMMA HalWorkerStep ==
  ASSUME HalInv,
         \/ \E t \in Senders : Hal!TxStatus(t) \/ Hal!SendChecked(t) \/ Hal!Send(t)
         \/ Hal!TxDone \/ Hal!Submit \/ Hal!SkipMeasurement \/ Hal!CaptureBegins
         \/ Hal!CaptureStep \/ Hal!ScanBegins
         \/ \E last \in BOOLEAN : Hal!ScanCalls(last)
  PROVE  HalInv'
<1> USE DEF HalInv, LockKeepsPage, FlagMeansChip, Hal!PageRespected, Hal!UsedWhileStarted,
            Hal!CaptureQuiet, Hal!RunningIsTuned, Hal!LoopFree, Hal!Touch, Hal!NoTouch
<1>1. ASSUME NEW t \in Senders, Hal!TxStatus(t) \/ Hal!SendChecked(t) \/ Hal!Send(t)
      PROVE  HalInv'
  <2>1. CASE Hal!TxStatus(t)
    BY <2>1 DEF Hal!TxStatus
  <2>2. CASE Hal!SendChecked(t)
    BY <2>2 DEF Hal!SendChecked
  <2>3. CASE Hal!Send(t)
    BY <2>3 DEF Hal!Send
  <2>4. QED
    BY <1>1, <2>1, <2>2, <2>3
<1>2. CASE Hal!TxDone
  BY <1>2 DEF Hal!TxDone
<1>3. CASE Hal!Submit
  BY <1>3 DEF Hal!Submit
<1>4. CASE Hal!SkipMeasurement
  BY <1>4 DEF Hal!SkipMeasurement
<1>5. CASE Hal!CaptureBegins
  BY <1>5 DEF Hal!CaptureBegins
<1>6. CASE Hal!CaptureRead
  BY <1>6 DEF Hal!CaptureRead
<1>7. ASSUME NEW complete \in BOOLEAN, Hal!CaptureCompletes(complete)
      PROVE  HalInv'
  BY <1>7 DEF Hal!CaptureCompletes
<1>8. CASE Hal!ScanBegins
  BY <1>8 DEF Hal!ScanBegins
<1>9. ASSUME NEW last \in BOOLEAN, Hal!ScanCalls(last)
      PROVE  HalInv'
  BY <1>9 DEF Hal!ScanCalls
<1>10. QED
  BY <1>1, <1>2, <1>3, <1>4, <1>5, <1>6, <1>7, <1>8, <1>9 DEF Hal!CaptureStep

LEMMA HalNextInv ==
  ASSUME HalInv, [Hal!Next]_halVars
  PROVE  HalInv'
<1>1. CASE Hal!Next
  BY <1>1, HalLoopStep, HalWorkerStep DEF Hal!Next
<1>2. CASE UNCHANGED halVars
  BY <1>2 DEF halVars, HalInv, LockKeepsPage, FlagMeansChip, Hal!PageRespected,
              Hal!UsedWhileStarted, Hal!CaptureQuiet, Hal!RunningIsTuned
<1>3. QED
  BY <1>1, <1>2

-----------------------------------------------------------------------------
(***************************************************************************)
(* The band sweeps.  A cleared baseline is gone from memory and from the   *)
(* file, and no calibration is asked for or running: what could bring it   *)
(* back needs a new request, which ends the claim.                         *)
(***************************************************************************)
SweepInv ==
    cleared => /\ baseline = Sweep!None /\ baselineFile = Sweep!None
               /\ ~ calibrate /\ sweepAt # "calibrate"

LEMMA SweepInitInv == Sweep!Init => SweepInv
BY DEF Sweep!Init, SweepInv

LEMMA SweepNextInv ==
  ASSUME SweepInv, [Sweep!Next]_sweepVars
  PROVE  SweepInv'
<1> USE DEF SweepInv, Sweep!None
<1>1. CASE Sweep!Wakes
  BY <1>1 DEF Sweep!Wakes, Sweep!SweepBegins
<1>2. ASSUME NEW due \in BOOLEAN, Sweep!ScanDone(due)
      PROVE  SweepInv'
  BY <1>2 DEF Sweep!ScanDone, Sweep!SweepBegins
<1>3. ASSUME NEW usable \in BOOLEAN, NEW saved \in BOOLEAN,
             Sweep!CalibrationDone(usable, saved)
      PROVE  SweepInv'
  BY <1>3 DEF Sweep!CalibrationDone, Sweep!SweepBegins
<1>4. CASE Sweep!SweepDone
  BY <1>4 DEF Sweep!SweepDone
<1>5. CASE Sweep!LoopCrashes
  BY <1>5 DEF Sweep!LoopCrashes
<1>6. CASE Sweep!RequestSweep
  BY <1>6 DEF Sweep!RequestSweep
<1>7. CASE Sweep!RequestCalibration
  BY <1>7 DEF Sweep!RequestCalibration
<1>8. ASSUME NEW deleted \in BOOLEAN, Sweep!ClearCalibration(deleted)
      PROVE  SweepInv'
  BY <1>8 DEF Sweep!ClearCalibration
<1>9. ASSUME NEW c \in Centers, Sweep!Reboot(c)
      PROVE  SweepInv'
  BY <1>9 DEF Sweep!Reboot
<1>10. CASE UNCHANGED sweepVars
  BY <1>10 DEF sweepVars
<1>11. QED
  BY <1>1, <1>2, <1>3, <1>4, <1>5, <1>6, <1>7, <1>8, <1>9, <1>10
     DEF Sweep!Next, Sweep!LoopStep

-----------------------------------------------------------------------------
(* The concentrator's registers are reached on the right page and with the *)
(* chip started, but for the calls ChipGuarded names; a capture records no *)
(* signal of our own; a source that runs is tuned; a cleared calibration   *)
(* stays cleared.  For any number of transmitting threads, restarts, RF    *)
(* centres and requests.                                                   *)
THEOREM ChipIsGuarded == Spec => []ChipGuarded
<1> DEFINE Kept == (part = "hal" => HalInv) /\ (part = "sweep" => SweepInv)
<1>1. Init => Kept
  BY EachInit, HalInitInv, SweepInitInv
<1>2. Kept /\ [Next]_vars => Kept'
  <2> SUFFICES ASSUME Kept, [Next]_vars
               PROVE  Kept'
    OBVIOUS
  <2>1. part = "hal" => HalInv'
    BY HalAlone, HalNextInv
  <2>2. part = "sweep" => SweepInv'
    BY SweepAlone, SweepNextInv
  <2>3. part' = part
    BY HalAlone
  <2>4. QED
    BY <2>1, <2>2, <2>3
<1>3. Kept => ChipGuarded
  BY DEF HalInv, SweepInv, ChipGuarded, Sweep!ClearedStays, Sweep!ActiveBaseline
<1>4. QED
  BY <1>1, <1>2, <1>3, PTL DEF Spec

-----------------------------------------------------------------------------
(***************************************************************************)
(* The broadcasters.  Pacing is a matter of ages: whatever the loop waits  *)
(* for, the last attempt is at least as old as what makes the next one     *)
(* due, unless an interval was saved since, or nothing was attempted yet.  *)
(***************************************************************************)

Ages == -1 .. MaxInterval

BroadcastTypes ==
    /\ every \in 0 .. MaxInterval /\ sentAge \in Ages /\ gap \in Ages /\ wait \in Nat
    /\ nudged \in BOOLEAN

(* The claim `gap` makes, by where the loop is.  An attempt under way      *)
(* leaves the last success overdue or found none, or a forced broadcast    *)
(* has succeeded since; a sleep without a success lasts out the interval,  *)
(* and one with a success ends no sooner than that success is due.         *)
AttemptAged ==
    /\ ticker = "delay" => gap = -1
    /\ ~ nudged /\ gap # -1 =>
          /\ ticker # "woken"
          /\ ticker = "sending" => sentAge = -1 \/ sentAge >= every \/ sentAge <= gap
          /\ ticker = "sleep" => IF sentAge = -1 THEN gap + wait >= every ELSE sentAge <= gap

BroadcastInv ==
    /\ BroadcastTypes /\ AttemptAged
    /\ ticker = "sleep" => wait <= every
    /\ Broadcast!Paced /\ Broadcast!NotOverslept

LEMMA BroadcastInitInv ==
  ASSUME BroadcastAssumption, Broadcast!Init
  PROVE  BroadcastInv
<1>1. /\ every \in Intervals \cup {0} /\ wait \in Delays /\ ticker # "sleep" /\ sentAge = -1
      /\ gap = -1 /\ nudged = FALSE /\ hasty = FALSE
  BY DEF Broadcast!Init, Broadcast!Never
<1>2. BroadcastTypes
  <2>1. nudged \in BOOLEAN
    BY <1>1, Zenon
  <2>2. every \in 0 .. MaxInterval /\ sentAge \in Ages /\ gap \in Ages /\ wait \in Nat
    BY <1>1 DEF BroadcastAssumption, Ages
  <2>3. QED
    BY <2>1, <2>2 DEF BroadcastTypes
<1>3. QED
  BY <1>1, <1>2 DEF BroadcastInv, AttemptAged, Broadcast!Paced, Broadcast!NotOverslept

(* From the head of the loop: an attempt begun there is early only if      *)
(* `gap` says so, which the caller excludes.                               *)
LEMMA HeadStep ==
  ASSUME BroadcastAssumption, NEW last \in Ages, NEW again \in BOOLEAN,
         every \in 0 .. MaxInterval, gap \in Ages, nudged \in BOOLEAN, Broadcast!Paced,
         Broadcast!Head(last, again), UNCHANGED every, sentAge' = last,
         ~ nudged /\ gap # -1 =>
            IF Broadcast!IsDueNow(last, every) THEN again \/ gap >= every ELSE last <= gap
  PROVE  BroadcastInv'
<1> DEFINE rest == Broadcast!SleepUntilNext(last, every)
           due == Broadcast!IsDueNow(last, every)
<1>1. every \in 0 .. MaxInterval /\ MaxInterval \in Nat /\ last \in -1 .. MaxInterval
  BY DEF BroadcastAssumption, Ages
<1>2. /\ due <=> last = -1 \/ last >= every
      /\ rest \in Nat /\ rest <= every
      /\ rest = IF last = -1 THEN every ELSE IF last >= every THEN 0 ELSE every - last
  BY <1>1 DEF Broadcast!IsDueNow, Broadcast!SleepUntilNext, Broadcast!Never
<1>3. ASSUME every > 0, due, Broadcast!Attempt(again)
      PROVE  gap' = 0 /\ nudged' = FALSE /\ hasty' = FALSE
  <2>1. ~ (gap \in 0 .. every - 1 /\ ~ nudged /\ ~ again)
    BY <1>1, <1>3 DEF Ages
  <2>2. ~ hasty
    BY DEF Broadcast!Paced
  <2>3. QED
    BY <1>3, <2>1, <2>2 DEF Broadcast!Attempt
<1>4. \/ /\ every = 0 \/ ~ due
         /\ ticker' = (IF every = 0 THEN "paused" ELSE "sleep")
         /\ wait' = (IF every = 0 THEN 0 ELSE rest) /\ UNCHANGED << gap, nudged, hasty >>
      \/ /\ every > 0 /\ due /\ gap' = 0 /\ nudged' = FALSE /\ hasty' = FALSE
         /\ \/ ticker' \in {"sending", "spinning"} /\ wait' = 0
            \/ ticker' = "sleep" /\ wait' = rest /\ rest > 0
  <2>1. CASE every = 0
    BY <1>1, <2>1 DEF Broadcast!Head, Broadcast!Rest, Broadcast!NoAttempt
  <2>2. CASE every > 0 /\ ~ due
    BY <1>1, <2>2 DEF Broadcast!Head, Broadcast!Rest, Broadcast!NoAttempt
  <2>3. CASE every > 0 /\ due
    <3>1. Broadcast!Attempt(again)
      BY <1>1, <2>3 DEF Broadcast!Head
    <3>2. \/ ticker' \in {"sending", "spinning"} /\ wait' = 0
          \/ ticker' = "sleep" /\ wait' = rest /\ rest > 0
      BY <1>1, <2>3 DEF Broadcast!Head, Broadcast!Rest
    <3>3. QED
      BY <1>3, <2>3, <3>1, <3>2
  <2>4. every = 0 \/ every > 0
    BY <1>1
  <2>5. QED
    BY <2>1, <2>2, <2>3, <2>4, Zenon
<1> HIDE DEF rest, due
<1>5. BroadcastTypes'
  <2>1. nudged' \in BOOLEAN
    BY <1>4, Zenon
  <2>2. every' \in 0 .. MaxInterval /\ sentAge' \in Ages /\ gap' \in Ages /\ wait' \in Nat
    BY <1>1, <1>2, <1>4 DEF Ages
  <2>3. QED
    BY <2>1, <2>2 DEF BroadcastTypes
<1>6. AttemptAged' /\ (ticker' = "sleep" => wait' <= every')
  <2>1. CASE every = 0 \/ ~ due
    BY <1>1, <1>2, <1>4, <2>1 DEF AttemptAged, Ages, due
  <2>2. CASE every > 0 /\ due
    BY <1>1, <1>2, <1>4, <2>2 DEF AttemptAged, Ages
  <2>3. QED
    BY <1>1, <2>1, <2>2
<1>7. Broadcast!Paced'
  BY <1>4 DEF Broadcast!Paced
<1>8. Broadcast!NotOverslept'
  BY <1>1, <1>2, <1>4 DEF Broadcast!NotOverslept, Broadcast!Never
<1>9. QED
  BY <1>5, <1>6, <1>7, <1>8 DEF BroadcastInv

LEMMA WakesStep ==
  ASSUME BroadcastAssumption, BroadcastInv, Broadcast!Wakes
  PROVE  BroadcastInv'
<1>1. Broadcast!Head(sentAge, FALSE) /\ UNCHANGED << every, sentAge >>
  BY DEF Broadcast!Wakes
<1>2. ~ nudged /\ gap # -1 =>
         IF Broadcast!IsDueNow(sentAge, every) THEN gap >= every ELSE sentAge <= gap
  BY DEF BroadcastInv, BroadcastTypes, AttemptAged, Ages, Broadcast!Wakes, Broadcast!IsDueNow,
         Broadcast!Never
<1>3. QED
  BY <1>1, <1>2, HeadStep DEF BroadcastInv, BroadcastTypes

(* After a success nothing is left to sleep only when the next is due.      *)
LEMMA DueOrSleep ==
  ASSUME BroadcastAssumption, NEW last \in Ages, last # -1, NEW e \in 0 .. MaxInterval,
         ~ (e > 0 /\ Broadcast!SleepUntilNext(last, e) > 0)
  PROVE  Broadcast!IsDueNow(last, e)
<1>1. last \in Int /\ last >= 0 /\ e \in Int /\ e >= 0
  BY DEF BroadcastAssumption, Ages
<1>2. last < e => Broadcast!SleepUntilNext(last, e) = e - last
  BY <1>1 DEF Broadcast!SleepUntilNext, Broadcast!Never
<1>3. last >= e
  BY <1>1, <1>2
<1>4. QED
  BY <1>3 DEF Broadcast!IsDueNow

LEMMA AttemptEndsStep ==
  ASSUME BroadcastAssumption, BroadcastInv, NEW ok \in BOOLEAN, Broadcast!AttemptEnds(ok)
  PROVE  BroadcastInv'
<1>1. /\ ticker = "sending" /\ UNCHANGED every
      /\ sentAge' \in Ages
      /\ ~ nudged /\ gap # -1 => sentAge' = -1 \/ sentAge' >= every \/ sentAge' <= gap
  BY DEF Broadcast!AttemptEnds, BroadcastAssumption, BroadcastInv, BroadcastTypes, AttemptAged,
         Ages
<1>2. CASE every > 0 /\ Broadcast!SleepUntilNext(sentAge', every) > 0
  BY <1>1, <1>2
     DEF Broadcast!AttemptEnds, Broadcast!Rest, Broadcast!NoAttempt, Broadcast!SleepUntilNext,
         Broadcast!Never, BroadcastAssumption, BroadcastInv, BroadcastTypes, AttemptAged, Ages,
         Broadcast!Paced, Broadcast!NotOverslept
<1>3. CASE ~ (every > 0 /\ Broadcast!SleepUntilNext(sentAge', every) > 0)
  <2>1. Broadcast!Head(sentAge', sentAge' # -1)
    BY <1>1, <1>3 DEF Broadcast!AttemptEnds, Broadcast!Never
  <2>2. CASE sentAge' # -1
    <3>1. Broadcast!Head(sentAge', TRUE)
      BY <2>1, <2>2
    <3>2. Broadcast!IsDueNow(sentAge', every)
      BY <1>1, <1>3, <2>2, DueOrSleep DEF BroadcastInv, BroadcastTypes
    <3>3. QED
      BY <1>1, <3>1, <3>2, HeadStep DEF BroadcastInv, BroadcastTypes
  <2>3. CASE sentAge' = -1
    <3>1. every = 0
      BY <1>3, <2>3 DEF Broadcast!SleepUntilNext, Broadcast!Never, BroadcastInv, BroadcastTypes
    <3>2. UNCHANGED << gap, nudged, hasty >> /\ ticker' = "paused" /\ wait' = 0
      BY <2>1, <3>1 DEF Broadcast!Head, Broadcast!NoAttempt, Broadcast!Rest
    <3>3. QED
      BY <1>1, <3>1, <3>2
         DEF BroadcastInv, BroadcastTypes, AttemptAged, Broadcast!Paced, Broadcast!NotOverslept
  <2>4. QED
    BY <2>2, <2>3
<1>4. QED
  BY <1>2, <1>3

LEMMA TickStep ==
  ASSUME BroadcastAssumption, BroadcastInv, Broadcast!Tick
  PROVE  BroadcastInv'
BY DEF BroadcastAssumption, BroadcastInv, BroadcastTypes, AttemptAged, Ages, Broadcast!Tick,
       Broadcast!Older, Broadcast!Never, Broadcast!Paced, Broadcast!NotOverslept

LEMMA BroadcastNextInv ==
  ASSUME BroadcastAssumption, BroadcastInv, [Broadcast!Next]_broadcastVars
  PROVE  BroadcastInv'
<1> USE DEF BroadcastAssumption, BroadcastInv, BroadcastTypes, AttemptAged, Ages,
            Broadcast!Never, Broadcast!Paced, Broadcast!NotOverslept
<1>1. CASE Broadcast!AttemptRaises
  BY <1>1 DEF Broadcast!AttemptRaises, Broadcast!Rest, Broadcast!NoAttempt
<1>2. ASSUME NEW minutes \in Intervals \cup {0}, Broadcast!SetInterval(minutes)
      PROVE  BroadcastInv'
  BY <1>2 DEF Broadcast!SetInterval, Broadcast!Waiting
<1>3. CASE Broadcast!ForceBegins
  BY <1>3 DEF Broadcast!ForceBegins
<1>4. ASSUME NEW ok \in BOOLEAN, Broadcast!ForceEnds(ok)
      PROVE  BroadcastInv'
  BY <1>4 DEF Broadcast!ForceEnds
<1>5. CASE Broadcast!SwitchTransmit
  BY <1>5 DEF Broadcast!SwitchTransmit
<1>6. CASE Broadcast!CoordsChange
  BY <1>6 DEF Broadcast!CoordsChange
<1>7. CASE UNCHANGED broadcastVars
  BY <1>7 DEF broadcastVars
<1> HIDE DEF BroadcastAssumption, BroadcastInv
<1>8. QED
  BY <1>1, <1>2, <1>3, <1>4, <1>5, <1>6, <1>7, WakesStep, AttemptEndsStep, TickStep
     DEF Broadcast!Next, Broadcast!LoopStep

-----------------------------------------------------------------------------
(***************************************************************************)
(* The button.                                                             *)
(***************************************************************************)
ButtonTypes ==
    /\ buttonHeld \in Nat /\ pressedSince \in -1 .. Hold /\ restartsFired \in 0 .. 1
    /\ advertCooldown \in Nat /\ advertQuiet \in Nat

(* A press that has asked for its restart is either remembered as long, or *)
(* met by a controller that is not armed while the button is down.         *)
PressSpent ==
    buttonDown /\ restartsFired = 1 => ~ buttonArmed \/ (longFired /\ pressedSince # -1)

(* A press the controller times has lasted at least as long as it thinks,  *)
(* unless a release was missed.                                            *)
TimedPress ==
    pressedSince # -1 /\ ~ releaseUnseen => buttonDown /\ pressedSince <= buttonHeld

AdvertWhole(a) ==
    /\ a = [done |-> a.done, todo |-> a.todo, tried |-> a.tried]
    /\ a.done => a.tried = Radios
    /\ a.todo # {} => a.todo \cup a.tried = Radios

ButtonInv ==
    /\ ButtonTypes /\ PressSpent /\ TimedPress
    /\ advertQuiet + advertCooldown >= Cooldown
    /\ DOMAIN adverts = Button!Tasks /\ \A i \in Button!Tasks : AdvertWhole(adverts[i])
    /\ Button!RestartNeedsHold /\ Button!AdvertsSpaced

LEMMA ButtonInitInv ==
  ASSUME ButtonAssumption, Button!Init
  PROVE  ButtonInv
BY DEF ButtonAssumption, Button!Init, Button!None, Button!NoAdvert, ButtonInv, ButtonTypes,
       PressSpent, TimedPress, AdvertWhole, Button!RestartNeedsHold, Button!AdvertsSpaced

(* What a step that leaves the sequences alone has to keep.                *)
Timing ==
    /\ ButtonTypes /\ PressSpent /\ TimedPress
    /\ advertQuiet + advertCooldown >= Cooldown
    /\ Button!RestartNeedsHold /\ Button!AdvertsSpaced

Adverts ==
    DOMAIN adverts = Button!Tasks /\ \A i \in Button!Tasks : AdvertWhole(adverts[i])

LEMMA TimingStep ==
  ASSUME ButtonAssumption, Timing, Button!Next
  PROVE  Timing'
<1> USE DEF ButtonAssumption, Timing, ButtonTypes, PressSpent, TimedPress,
            Button!RestartNeedsHold, Button!AdvertsSpaced, Button!None
<1>1. CASE Button!Press
  BY <1>1 DEF Button!Press
<1>2. CASE Button!Release
  BY <1>2 DEF Button!Release
<1>3. CASE Button!Passes
  BY <1>3 DEF Button!Passes, Button!Least
<1>4. CASE Button!TickDisarmed
  BY <1>4 DEF Button!TickDisarmed
<1>5. CASE Button!TickPressed
  BY <1>5 DEF Button!TickPressed
<1>6. CASE Button!TickHeld
  <2>1. restartsFired = 0 /\ restartsFired' = 1
    BY <1>6 DEF Button!TickHeld
  <2>2. ~ releaseUnseen => ~ (buttonHeld < Hold)
    BY <1>6 DEF Button!TickHeld
  <2>3. ~ restartEarly'
    BY <1>6, <2>2 DEF Button!TickHeld
  <2>4. QED
    BY <1>6, <2>1, <2>3 DEF Button!TickHeld
<1>7. CASE Button!TickReleased
  <2>1. /\ ~ buttonDown /\ pressedSince' = -1
        /\ UNCHANGED << buttonDown, buttonHeld, restartsFired, restartEarly >>
    BY <1>7 DEF Button!TickReleased, Button!Forget
  <2>2. \/ advertCooldown' = Cooldown /\ advertQuiet' = 0 /\ ~ advertTooSoon'
        \/ UNCHANGED << advertCooldown, advertQuiet, advertTooSoon >>
    <3>1. advertCooldown = 0 => ~ (advertQuiet < Cooldown)
      OBVIOUS
    <3>2. QED
      BY <1>7, <3>1 DEF Button!TickReleased, Button!NextCooldown
  <2>3. QED
    BY <2>1, <2>2
<1>8. ASSUME NEW i \in Button!Tasks, NEW r \in Radios, Button!Advert(i, r)
      PROVE  Timing'
  BY <1>8 DEF Button!Advert
<1>9. CASE Button!Restart
  BY <1>9 DEF Button!Restart, Button!Starts
<1>10. CASE Button!SpawnFails
  BY <1>10 DEF Button!SpawnFails
<1>11. QED
  BY <1>1, <1>2, <1>3, <1>4, <1>5, <1>6, <1>7, <1>8, <1>9, <1>10 DEF Button!Next

LEMMA SequencesStep ==
  ASSUME Adverts, Button!Next
  PROVE  Adverts'
<1>1. CASE Button!TickReleased
  <2>1. CASE UNCHANGED adverts
    BY <2>1 DEF Adverts, AdvertWhole, Button!Tasks
  <2>2. CASE adverts' # adverts
    <3>1. PICK i \in Button!Tasks :
             adverts' = [adverts EXCEPT ![i] = [done |-> FALSE, todo |-> Radios, tried |-> {}]]
      BY <1>1, <2>2, Zenon DEF Button!TickReleased
    <3>3. AdvertWhole([done |-> FALSE, todo |-> Radios, tried |-> {}])
      BY DEF AdvertWhole
    <3>4. QED
      BY <3>1, <3>3 DEF Adverts, Button!Tasks
  <2>3. QED
    BY <2>1, <2>2
<1>2. ASSUME NEW i \in Button!Tasks, NEW r \in Radios, Button!Advert(i, r)
      PROVE  Adverts'
  <2> DEFINE rest == adverts[i].todo \ {r}
             next == [done |-> rest = {}, todo |-> rest, tried |-> adverts[i].tried \cup {r}]
  <2>1. r \in adverts[i].todo /\ adverts' = [adverts EXCEPT ![i] = next]
    BY <1>2 DEF Button!Advert, Button!AfterError
  <2>2. AdvertWhole(next)
    <3>1. adverts[i].todo \cup adverts[i].tried = Radios
      BY <2>1 DEF Adverts, AdvertWhole
    <3>2. rest \cup (adverts[i].tried \cup {r}) = Radios
      BY <2>1, <3>1
    <3>3. QED
      BY <3>2 DEF AdvertWhole
  <2> HIDE DEF next
  <2>3. QED
    BY <2>1, <2>2 DEF Adverts, Button!Tasks
<1>3. CASE Button!Restart
  BY <1>3 DEF Button!Restart, Button!NoAdvert, Adverts, AdvertWhole, Button!Tasks
<1>4. CASE UNCHANGED adverts
  BY <1>4 DEF Adverts, AdvertWhole, Button!Tasks
<1>5. QED
  BY <1>1, <1>2, <1>3, <1>4
     DEF Button!Next, Button!Press, Button!Release, Button!Passes, Button!TickDisarmed,
         Button!TickPressed, Button!TickHeld, Button!SpawnFails

LEMMA ButtonNextInv ==
  ASSUME ButtonAssumption, ButtonInv, [Button!Next]_buttonVars
  PROVE  ButtonInv'
<1>1. ButtonInv <=> Timing /\ Adverts
  BY DEF ButtonInv, Timing, Adverts
<1>2. ButtonInv' <=> Timing' /\ Adverts'
  BY DEF ButtonInv, Timing, Adverts
<1>3. CASE Button!Next
  BY <1>1, <1>2, <1>3, TimingStep, SequencesStep
<1>4. CASE UNCHANGED buttonVars
  BY <1>4 DEF buttonVars, ButtonInv, ButtonTypes, PressSpent, TimedPress, AdvertWhole,
              Button!RestartNeedsHold, Button!AdvertsSpaced, Button!Tasks
<1>5. QED
  BY <1>3, <1>4

-----------------------------------------------------------------------------
(* No automatic broadcast is attempted early and none is slept past; a     *)
(* press asks for one restart, and only when held; adverts are the         *)
(* cooldown apart and a sequence that ended has tried every radio.  For    *)
(* any intervals, delays, hold time, cooldown and set of radios.           *)
THEOREM OnTime == Spec => []ActsOnTime
<1> USE BroadcastAssumption, ButtonAssumption
<1> DEFINE Kept == (part = "broadcast" => BroadcastInv) /\ (part = "button" => ButtonInv)
<1>1. Init => Kept
  BY EachInit, BroadcastInitInv, ButtonInitInv
<1>2. Kept /\ [Next]_vars => Kept'
  <2> SUFFICES ASSUME Kept, [Next]_vars
               PROVE  Kept'
    OBVIOUS
  <2>1. part = "broadcast" => BroadcastInv'
    BY BroadcastAlone, BroadcastNextInv
  <2>2. part = "button" => ButtonInv'
    BY ButtonAlone, ButtonNextInv
  <2>3. part' = part
    BY ButtonAlone
  <2>4. QED
    BY <2>1, <2>2, <2>3
<1>3. Kept => ActsOnTime
  <2>1. ButtonInv => Button!OneRestartPerPress
    BY DEF ButtonInv, ButtonTypes, Button!OneRestartPerPress
  <2>2. ButtonInv => Button!AdvertTriesAll
    BY DEF ButtonInv, AdvertWhole, Button!AdvertTriesAll
  <2>3. QED
    BY <2>1, <2>2 DEF BroadcastInv, ButtonInv, ActsOnTime
<1>4. QED
  BY <1>1, <1>2, <1>3, PTL DEF Spec

-----------------------------------------------------------------------------
(***************************************************************************)
(* The repeater poller.  What a state file has held of a repeater is in    *)
(* the file until a load finds it torn, and in memory while the poller     *)
(* runs.                                                                   *)
(***************************************************************************)
PollerInv ==
    /\ known \subseteq Repeaters /\ DOMAIN latest = Repeaters
    /\ DOMAIN stateFile = Repeaters
    /\ \A r \in known : stateFile[r].status
    /\ Poller!KnownKept /\ Poller!NotRestamped

LEMMA PollerInitInv == Poller!Init => PollerInv
BY DEF Poller!Init, Poller!NoLatest, PollerInv, Poller!KnownKept, Poller!NotRestamped

LEMMA PollerNextInv ==
  ASSUME PollerInv, [Poller!Next]_pollerVars
  PROVE  PollerInv'
<1> USE DEF PollerInv, Poller!KnownKept, Poller!NotRestamped
<1>1. CASE Poller!Start
  BY <1>1 DEF Poller!Start, Poller!NoLatest
<1>2. CASE Poller!Merge
  <2>1. /\ poller = "merge" /\ UNCHANGED << known, stateFile, restamped >>
        /\ latest' = [latest EXCEPT ![current] = Poller!Merged(latest[current], result)]
    BY <1>2 DEF Poller!Merge
  <2>2. \A r \in Repeaters : latest[r].status => latest'[r].status
    <3>1. SUFFICES ASSUME NEW r \in Repeaters, latest[r].status, r = current
                   PROVE  latest'[r].status
      BY <2>1
    <3>2. latest'[r] = Poller!Merged(latest[r], result)
      BY <2>1, <3>1
    <3>3. latest'[r].status = (result.ok \/ latest[r].status)
      BY <3>2 DEF Poller!Merged
    <3>4. QED
      BY <3>1, <3>3, Zenon
  <2>3. QED
    BY <2>1, <2>2
<1>3. CASE Poller!Save
  <2>1. /\ stateFile' = latest /\ latest' = latest
        /\ known' = {r \in Repeaters : latest[r].status}
    BY <1>3 DEF Poller!Save
  <2>2. ~ restamped'
    BY <1>3 DEF Poller!Save, Poller!Stored
  <2>3. QED
    BY <2>1, <2>2
<1>4. CASE Poller!Crash
  BY <1>4 DEF Poller!Crash, Poller!NoLatest, Poller!files
<1>5. CASE /\ UNCHANGED << latest, stateFile, known, restamped >>
           /\ poller' # "off" => poller # "off"
  BY <1>5
<1>6. CASE UNCHANGED pollerVars
  BY <1>5, <1>6 DEF pollerVars
<1> HIDE DEF PollerInv
<1>7. QED
  <2>1. CASE Poller!NextRound \/ Poller!PollNext \/ Poller!Poll
    BY <1>5, <2>1 DEF Poller!NextRound, Poller!PollNext, Poller!Poll, Poller!files
  <2>2. CASE Poller!AfterPoll \/ Poller!Inject \/ Poller!Retry \/ Poller!Stop
    BY <1>5, <2>2, Zenon DEF Poller!AfterPoll, Poller!Inject, Poller!Retry, Poller!Stop, Poller!files
  <2>3. CASE Poller!CompanionLost \/ Poller!CompanionReset \/ Poller!Advert
    BY <1>5, <2>3 DEF Poller!CompanionLost, Poller!CompanionReset, Poller!Advert, Poller!files
  <2>4. QED
    BY <1>1, <1>2, <1>3, <1>4, <1>6, <2>1, <2>2, <2>3 DEF Poller!Next, Poller!Loop

-----------------------------------------------------------------------------
(***************************************************************************)
(* The position.  The fix in hand is the last one reported with            *)
(* coordinates, and resolve() finds it again: what would take it away      *)
(* waits for the event loop, and the thread's sentences leave coordinates  *)
(* in place.                                                               *)
(***************************************************************************)
PositionInv ==
    /\ fix.pos # 0 => fix.pos = trusted
    /\ resolving => source # "static" /\ receiving /\ fix.pos # 0
    /\ mesh \in [from : {"static", "live"}, precision : Position!Precisions]
    /\ Position!FixStays

LEMMA PositionInitInv == Position!Init => PositionInv
BY DEF Position!Init, Position!NoFix, PositionInv, Position!FixStays, Position!Precisions

(* What SendLive reads.                                                    *)
LEMMA LiveFix ==
  ASSUME PositionInv, resolving
  PROVE  /\ Position!StatusFix = fix /\ fix.pos = trusted /\ trusted # 0
         /\ fix # Position!NoFix
BY DEF PositionInv, Position!StatusFix, Position!StatusOfUart, Position!StatusOfGpsd,
       Position!NoFix

LEMMA PositionNextInv ==
  ASSUME PositionInv, [Position!Next]_locationVars
  PROVE  PositionInv'
<1> USE DEF PositionInv, Position!FixStays, Position!LoopFree
<1>1. CASE Position!ReaderStep
  BY <1>1 DEF Position!ReaderStep, Position!Connect, Position!LoopNotices, Position!WaitOver
<1>2. CASE Position!SendLive
  BY <1>2, LiveFix DEF Position!SendLive
<1>3. CASE Position!ThreadEnds \/ Position!SendPin
  BY <1>3 DEF Position!ThreadEnds, Position!SendPin
<1>4. CASE Position!FindLive
  BY <1>4 DEF Position!FindLive, Position!LiveFixAvailable, Position!HasPosition,
              Position!StatusFix, Position!StatusOfUart, Position!StatusOfGpsd, Position!NoFix
<1>5. ASSUME NEW clean \in BOOLEAN, Position!GpsdDrops(clean)
      PROVE  PositionInv'
  BY <1>5 DEF Position!GpsdDrops
<1>6. ASSUME NEW m \in Modes, NEW p \in Spots \cup {0}, Position!Tpv(m, p)
      PROVE  PositionInv'
  BY <1>6 DEF Position!Tpv, Position!Fix
<1>7. ASSUME NEW p \in Spots \cup {0}, Position!Gga(p)
      PROVE  PositionInv'
  BY <1>7 DEF Position!Gga, Position!Fix
<1>8. ASSUME NEW m \in Modes, Position!Gsa(m)
      PROVE  PositionInv'
  BY <1>8 DEF Position!Gsa, Position!Fix
<1>9. ASSUME NEW src \in {"static", "gpsd"}, NEW p \in Pins, NEW from \in {"static", "live"},
             NEW precision \in Position!Precisions, Position!PutGps(src, p, from, precision)
      PROVE  PositionInv'
  BY <1>9 DEF Position!PutGps, Position!Precisions
<1>10. CASE UNCHANGED locationVars
  BY <1>10 DEF locationVars
<1> HIDE DEF PositionInv
<1>11. QED
  BY <1>1, <1>2, <1>3, <1>4, <1>5, <1>6, <1>7, <1>8, <1>9, <1>10 DEF Position!Next

(* What leaves on the air: of the receiver's positions only the last       *)
(* reported one, and exactly only when the settings say so.                *)
LEMMA SendsTheFix ==
  ASSUME PositionInv, [Position!Next]_locationVars,
         positionSent' # positionSent, positionSent'.of = "live"
  PROVE  /\ positionSent'.pos = trusted /\ trusted # 0
         /\ positionSent'.exact => mesh.precision = "exact"
<1>1. CASE Position!SendLive
  <2> DEFINE valid == Position!ValidPrecision(mesh.precision)
  <2>1. /\ valid # "none"
        /\ positionSent' = [of |-> "live", pos |-> fix.pos, exact |-> valid # "approximate"]
    BY <1>1, LiveFix DEF Position!SendLive, Position!Broadcast
  <2>2. mesh.precision \in {"exact", "approximate", "none", "typo"}
    BY DEF PositionInv, Position!Precisions
  <2>3. valid # "none" /\ valid # "approximate" => mesh.precision = "exact"
    BY <2>2 DEF Position!ValidPrecision
  <2> HIDE DEF valid
  <2>4. QED
    BY <1>1, <2>1, <2>3, LiveFix DEF Position!SendLive
<1>2. CASE Position!SendPin
  BY <1>2 DEF Position!SendPin, Position!Broadcast
<1>3. CASE UNCHANGED positionSent
  BY <1>3
<1>4. QED
  BY <1>1, <1>2, <1>3
     DEF locationVars, Position!Next, Position!ReaderStep, Position!Connect,
         Position!LoopNotices, Position!WaitOver, Position!ThreadEnds, Position!FindLive,
         Position!GpsdDrops, Position!Tpv, Position!Gga, Position!Gsa, Position!PutGps

PositionKept == part = "location" => PositionInv

LEMMA PositionHolds == Spec => []PositionKept
<1>1. Init => PositionKept
  BY EachInit, PositionInitInv DEF PositionKept
<1>2. PositionKept /\ [Next]_vars => PositionKept'
  BY PositionAlone, PositionNextInv DEF PositionKept
<1>3. QED
  BY <1>1, <1>2, PTL DEF Spec

-----------------------------------------------------------------------------
(* What was known of a repeater is not blanked by a poll or a crash that   *)
(* spares the file, a neighbour report is stored by its own poll only, and *)
(* the fix that resolve() has seen is there when it reads it.  For any set *)
(* of repeaters and any number of crashes, resets and reports.             *)
THEOREM ReadingsStay == Spec => []ReadingsKept
<1> DEFINE Kept == part = "poller" => PollerInv
<1>1. Init => Kept
  BY EachInit, PollerInitInv
<1>2. Kept /\ [Next]_vars => Kept'
  BY PollerAlone, PollerNextInv
<1>3. Kept /\ PositionKept => ReadingsKept
  BY DEF PollerInv, PositionKept, PositionInv, ReadingsKept
<1>4. QED
  BY <1>1, <1>2, <1>3, PositionHolds, PTL DEF Spec

(* A live position that goes on the air is the latest the receiver         *)
(* reported with a fix, and it is exact only when asked for: in every      *)
(* step, for any positions, pins and settings.                             *)
THEOREM PositionIsTold == Spec => PositionTold
<1>1. PositionKept /\ [Next]_vars =>
         /\ [positionSent' # positionSent /\ positionSent'.of = "live"
               => positionSent'.pos = trusted /\ trusted # 0]_(Position!vars)
         /\ [positionSent' # positionSent /\ positionSent'.of = "live" /\ positionSent'.exact
               => mesh.precision = "exact"]_(Position!vars)
  <2> SUFFICES ASSUME PositionKept, [Next]_vars,
                      positionSent' # positionSent, positionSent'.of = "live"
               PROVE  /\ positionSent'.pos = trusted /\ trusted # 0
                      /\ positionSent'.exact => mesh.precision = "exact"
    OBVIOUS
  <2>1. part = "location"
    BY PositionStands DEF locationVars
  <2>2. QED
    BY <2>1, PositionAlone, SendsTheFix DEF PositionKept
<1>2. QED
  BY <1>1, PositionHolds, PTL
     DEF Spec, PositionTold, Position!LiveIsLatest, Position!ExactOnlyWhenAsked

-----------------------------------------------------------------------------
(***************************************************************************)
(* Update and rollback.  A commit that a pointer or a chain remembers was  *)
(* run, or noted as unproven when it was remembered.  As long as nothing   *)
(* has cut across, a request that is under way alone is on its way from    *)
(* the tree it moved to a service that runs that tree.                     *)
(***************************************************************************)
UnderWay(r) == Update!Moving(r) \/ finish[r] # "none"

ChainShape(r) ==
    /\ chain[r] = [stage |-> chain[r].stage, want |-> chain[r].want, pre |-> chain[r].pre]
    /\ chain[r].stage \in {"saved", "fetched"} => chain[r].want[1] \in Branches

UpdateTypes ==
    /\ head \in Branches /\ DOMAIN local = Branches
    /\ DOMAIN chain = Workers /\ DOMAIN finish = Workers
    /\ \A r \in Workers : ChainShape(r)

Remembered ==
    /\ serving \in served
    /\ \A r \in Workers : chain[r].stage # "idle" => chain[r].pre \in served \cup unproven
    /\ Update!PointerServed

(* The script belongs to a chain that was scheduled, and a scheduled chain *)
(* has its script.                                                         *)
ScriptOfChain ==
    \A r \in Workers :
        /\ finish[r] # "none" => chain[r].stage \in {"scheduled", "ended"}
        /\ chain[r].stage = "scheduled" => finish[r] # "none"

Alone(r) == UnderWay(r) /\ \A q \in Workers \ {r} : ~ UnderWay(q)

OnItsWay ==
    ~ excused =>
        /\ (\A r \in Workers : ~ UnderWay(r)) =>
              serving = goal /\ Update!Tree = goal /\ prepared = goal
        /\ \A r \in Workers : Alone(r) /\ chain[r].stage # "checked out" =>
              Update!Tree = goal /\ (finish[r] = "restart" => prepared = goal)

UpdateInv == UpdateTypes /\ Remembered /\ ScriptOfChain /\ OnItsWay


LEMMA UpdateInitInv ==
  ASSUME UpdateAssumption, Update!Init
  PROVE  UpdateInv
<1> USE DEF Update!Init, Update!Tree, Update!Idle
<1>1. UpdateTypes
  BY DEF UpdateAssumption, UpdateTypes, ChainShape
<1>2. Remembered
  BY DEF Remembered, Update!PointerServed
<1>3. ScriptOfChain
  BY DEF ScriptOfChain
<1>4. OnItsWay
  <2>1. \A r \in Workers : ~ UnderWay(r)
    BY Zenon DEF UnderWay, Update!Moving
  <2>2. QED
    BY <2>1 DEF OnItsWay, Alone
<1>5. QED
  BY <1>1, <1>2, <1>3, <1>4 DEF UpdateInv

(* One chain goes to another stage, or begins.                             *)
Moved(r, stage, want, pre) ==
    /\ DOMAIN chain' = Workers /\ \A q \in Workers \ {r} : chain'[q] = chain[q]
    /\ chain'[r] = [stage |-> chain'[r].stage, want |-> chain'[r].want, pre |-> chain'[r].pre]
    /\ chain'[r].stage = stage /\ chain'[r].want = want /\ chain'[r].pre = pre

LEMMA ChainMoves ==
  ASSUME UpdateTypes, NEW r \in Workers, NEW stage,
         chain' = [chain EXCEPT ![r].stage = stage]
  PROVE  Moved(r, stage, chain[r].want, chain[r].pre)
<1>1. chain'[r] = [stage |-> stage, want |-> chain[r].want, pre |-> chain[r].pre]
  BY DEF UpdateTypes, ChainShape
<1>2. DOMAIN chain' = Workers /\ \A q \in Workers \ {r} : chain'[q] = chain[q]
  BY DEF UpdateTypes
<1>3. QED
  BY <1>1, <1>2 DEF Moved

LEMMA ChainBegins ==
  ASSUME UpdateTypes, NEW r \in Workers, NEW stage, NEW want, NEW pre,
         chain' = [chain EXCEPT ![r] = [stage |-> stage, want |-> want, pre |-> pre]]
  PROVE  Moved(r, stage, want, pre)
<1>1. chain'[r] = [stage |-> stage, want |-> want, pre |-> pre]
  BY DEF UpdateTypes
<1>2. DOMAIN chain' = Workers /\ \A q \in Workers \ {r} : chain'[q] = chain[q]
  BY DEF UpdateTypes
<1>3. QED
  BY <1>1, <1>2 DEF Moved

(* A step that moves no tree, serves nothing and changes nobody's being    *)
(* under way.                                                              *)
LEMMA QuietStep ==
  ASSUME OnItsWay, UNCHANGED << local, head, serving, goal, prepared, excused, finish >>,
         \A q \in Workers :
            /\ UnderWay(q)' <=> UnderWay(q)
            /\ chain'[q].stage = "checked out" <=> chain[q].stage = "checked out"
  PROVE  OnItsWay'
<1>1. Update!Tree' = Update!Tree
  BY Zenon DEF Update!Tree
<1>2. \A q \in Workers : Alone(q)' => Alone(q)
  BY Zenon DEF Alone
<1>3. QED
  BY <1>1, <1>2, Zenon DEF OnItsWay

(* A step after which r is under way: the claim is about r alone.          *)
LEMMA WorkStep ==
  ASSUME NEW r \in Workers, UnderWay(r)',
         ~ excused' /\ Alone(r)' /\ chain'[r].stage # "checked out" =>
            Update!Tree' = goal' /\ (finish'[r] = "restart" => prepared' = goal')
  PROVE  OnItsWay'
<1>1. \A q \in Workers : Alone(q)' => q = r
  BY Zenon DEF Alone
<1>2. QED
  BY <1>1, Zenon DEF OnItsWay

LEMMA CaptureStep ==
  ASSUME UpdateInv, NEW r \in Workers, Update!CaptureHead(r)
  PROVE  UpdateInv'
<1>1. /\ chain[r].stage = "idle" /\ point' \in {point, Update!Tree}
      /\ unproven' = unproven \cup ({Update!Tree} \ {serving})
      /\ UNCHANGED << local, head, finish, prepared, serving, served, goal, excused >>
  BY DEF Update!CaptureHead
<1>2. PICK b \in Branches : Moved(r, "saved", << b, -1 >>, Update!Tree)
  <2>1. PICK b \in Branches :
           chain' = [chain EXCEPT ![r] = [stage |-> "saved", want |-> << b, -1 >>,
                                          pre |-> Update!Tree]]
    BY DEF Update!CaptureHead
  <2>2. QED
    BY <2>1, ChainBegins DEF UpdateInv
<1>3. UpdateTypes'
  BY <1>1, <1>2 DEF Moved, UpdateInv, UpdateTypes, ChainShape
<1>4. Remembered'
  BY <1>1, <1>2 DEF Moved, UpdateInv, Remembered, Update!PointerServed
<1>5. ScriptOfChain'
  BY <1>1, <1>2 DEF Moved, UpdateInv, ScriptOfChain
<1>6. OnItsWay'
  BY <1>1, <1>2, QuietStep, Zenon DEF Moved, UpdateInv, UnderWay, Update!Moving
<1>7. QED
  BY <1>3, <1>4, <1>5, <1>6 DEF UpdateInv

LEMMA FetchStep ==
  ASSUME UpdateInv, NEW r \in Workers, Update!Fetch(r)
  PROVE  UpdateInv'
<1>1. /\ chain[r].stage = "saved"
      /\ UNCHANGED << local, head, point, finish, prepared, serving, served, unproven, goal,
                      excused >>
  BY DEF Update!Fetch
<1>2. PICK stage \in {"fetched", "ended"} : Moved(r, stage, chain[r].want, chain[r].pre)
  BY ChainMoves DEF Update!Fetch, UpdateInv
<1>3. UpdateTypes'
  BY <1>1, <1>2 DEF Moved, UpdateInv, UpdateTypes, ChainShape
<1>4. Remembered'
  BY <1>1, <1>2 DEF Moved, UpdateInv, Remembered, Update!PointerServed
<1>5. ScriptOfChain'
  BY <1>1, <1>2 DEF Moved, UpdateInv, ScriptOfChain
<1>6. OnItsWay'
  BY <1>1, <1>2, QuietStep, Zenon DEF Moved, UpdateInv, UnderWay, Update!Moving
<1>7. QED
  BY <1>3, <1>4, <1>5, <1>6 DEF UpdateInv

LEMMA CheckoutStep ==
  ASSUME UpdateInv, NEW r \in Workers, Update!Checkout(r)
  PROVE  UpdateInv'
<1>1. /\ chain[r].stage = "fetched"
      /\ UNCHANGED << local, point, finish, prepared, serving, served, unproven, goal, excused >>
  BY Zenon DEF Update!Checkout
<1>2. \/ Moved(r, "checked out", chain[r].want, chain[r].pre) /\ head' = chain[r].want[1]
      \/ Moved(r, "ended", chain[r].want, chain[r].pre) /\ UNCHANGED head
  BY ChainMoves, Zenon DEF Update!Checkout, UpdateInv
<1>3. PICK stage \in {"checked out", "ended"} : Moved(r, stage, chain[r].want, chain[r].pre)
  BY <1>2, Zenon
<1>4. head' \in Branches
  BY <1>1, <1>2, Zenon DEF UpdateInv, UpdateTypes, ChainShape
<1>5. UpdateTypes'
  BY <1>1, <1>3, <1>4, Zenon DEF Moved, UpdateInv, UpdateTypes, ChainShape
<1>6. Remembered'
  BY <1>1, <1>3, Zenon DEF Moved, UpdateInv, Remembered, Update!PointerServed
<1>7. ScriptOfChain'
  BY <1>1, <1>3, Zenon DEF Moved, UpdateInv, ScriptOfChain
<1>8. OnItsWay'
  <2>1. CASE Moved(r, "ended", chain[r].want, chain[r].pre) /\ UNCHANGED head
    BY <1>1, <2>1, QuietStep, Zenon DEF Moved, UpdateInv, UnderWay, Update!Moving
  <2>2. CASE Moved(r, "checked out", chain[r].want, chain[r].pre)
    <3>1. UnderWay(r)' /\ chain'[r].stage = "checked out"
      BY <2>2, Zenon DEF Moved, UnderWay, Update!Moving
    <3>2. QED
      BY <3>1, WorkStep, Zenon
  <2>3. QED
    BY <1>2, <2>1, <2>2, Zenon
<1>9. QED
  BY <1>5, <1>6, <1>7, <1>8, Zenon DEF UpdateInv

LEMMA ResetStep ==
  ASSUME UpdateInv, NEW r \in Workers, Update!ResetHard(r)
  PROVE  UpdateInv'
<1>1. /\ chain[r].stage = "checked out"
      /\ UNCHANGED << head, point, finish, prepared, serving, served, unproven >>
  BY Zenon DEF Update!ResetHard
<1>2. \/ /\ Moved(r, "moved", chain[r].want, chain[r].pre) /\ goal' = local'[head]
         /\ DOMAIN local' = Branches
      \/ /\ Moved(r, "failed", chain[r].want, chain[r].pre) /\ excused' = TRUE
         /\ UNCHANGED local
  BY ChainMoves, Zenon DEF Update!ResetHard, UpdateInv, UpdateTypes
<1>3. PICK stage \in {"moved", "failed"} : Moved(r, stage, chain[r].want, chain[r].pre)
  BY <1>2
<1>4. DOMAIN local' = Branches
  BY <1>2 DEF UpdateInv, UpdateTypes
<1>5. UpdateTypes'
  BY <1>1, <1>3, <1>4, Zenon DEF Moved, UpdateInv, UpdateTypes, ChainShape
<1>6. Remembered'
  BY <1>1, <1>3, Zenon DEF Moved, UpdateInv, Remembered, Update!PointerServed
<1>7. ScriptOfChain'
  BY <1>1, <1>3, Zenon DEF Moved, UpdateInv, ScriptOfChain
<1>8. OnItsWay'
  <2>1. CASE excused' = TRUE
    BY <2>1, Zenon DEF OnItsWay
  <2>2. CASE Moved(r, "moved", chain[r].want, chain[r].pre) /\ goal' = local'[head]
    <3>1. Update!Tree' = goal'
      BY <1>1, <2>2, Zenon DEF Update!Tree
    <3>2. finish'[r] = "none" /\ UnderWay(r)'
      BY <1>1, <2>2, Zenon DEF Moved, UpdateInv, ScriptOfChain, UnderWay, Update!Moving
    <3>3. QED
      BY <3>1, <3>2, WorkStep, Zenon
  <2>3. QED
    BY <1>2, <2>1, <2>2
<1>9. QED
  BY <1>5, <1>6, <1>7, <1>8 DEF UpdateInv

LEMMA RollbackStep ==
  ASSUME UpdateInv, NEW r \in Workers, Update!Rollback(r)
  PROVE  UpdateInv'
<1>1. /\ chain[r].stage = "idle" /\ point # Update!None /\ goal' = point
      /\ UNCHANGED << head, point, finish, prepared, serving, served, unproven, excused >>
  BY DEF Update!Rollback
<1>2. Moved(r, "moved", point, point)
  BY ChainBegins DEF Update!Rollback, UpdateInv
<1>3. DOMAIN local' = Branches /\ local'[head] = point
  BY DEF Update!Rollback, UpdateInv, UpdateTypes
<1>4. UpdateTypes'
  BY <1>1, <1>2, <1>3 DEF Moved, UpdateInv, UpdateTypes, ChainShape
<1>5. Remembered'
  BY <1>1, <1>2 DEF Moved, UpdateInv, Remembered, Update!PointerServed
<1>6. ScriptOfChain'
  BY <1>1, <1>2 DEF Moved, UpdateInv, ScriptOfChain
<1>7. OnItsWay'
  <2>1. Update!Tree' = goal'
    BY <1>1, <1>3 DEF Update!Tree
  <2>2. finish'[r] = "none" /\ UnderWay(r)'
    BY <1>1, <1>2 DEF Moved, UpdateInv, ScriptOfChain, UnderWay, Update!Moving
  <2>3. QED
    BY <2>1, <2>2, WorkStep, Zenon
<1>8. QED
  BY <1>4, <1>5, <1>6, <1>7 DEF UpdateInv

LEMMA ScheduleStep ==
  ASSUME UpdateInv, NEW r \in Workers, Update!Schedule(r)
  PROVE  UpdateInv'
<1>1. /\ chain[r].stage = "moved"
      /\ UNCHANGED << local, head, point, prepared, serving, served, unproven, goal >>
  BY DEF Update!Schedule
<1>2. Moved(r, "scheduled", chain[r].want, chain[r].pre)
  BY ChainMoves DEF Update!Schedule, UpdateInv
<1>3. /\ DOMAIN finish' = Workers /\ \A q \in Workers \ {r} : finish'[q] = finish[q]
      /\ finish'[r] = "prepare"
  BY DEF Update!Schedule, UpdateInv, UpdateTypes
<1>4. UpdateTypes'
  BY <1>1, <1>2, <1>3 DEF Moved, UpdateInv, UpdateTypes, ChainShape
<1>5. Remembered'
  BY <1>1, <1>2 DEF Moved, UpdateInv, Remembered, Update!PointerServed
<1>6. ScriptOfChain'
  BY <1>1, <1>2, <1>3 DEF Moved, UpdateInv, ScriptOfChain
<1>7. OnItsWay'
  <2>1. UnderWay(r)'
    BY <1>3 DEF UnderWay
  <2>2. ~ excused' => Update!Tree' = goal'
    <3>1. SUFFICES ASSUME ~ excused'
                   PROVE  Update!Tree = goal
      BY <1>1 DEF Update!Tree
    <3>2. ~ excused /\ \A q \in Workers \ {r} : ~ UnderWay(q)
      BY <3>1, Zenon DEF Update!Schedule, UnderWay
    <3>3. UnderWay(r)
      BY <1>1 DEF UnderWay, Update!Moving
    <3>4. QED
      BY <1>1, <3>2, <3>3, Zenon DEF UpdateInv, OnItsWay, Alone
  <2>3. QED
    BY <1>3, <2>1, <2>2, WorkStep, Zenon
<1>8. QED
  BY <1>4, <1>5, <1>6, <1>7 DEF UpdateInv

LEMMA ReportStep ==
  ASSUME UpdateInv, NEW r \in Workers, Update!Report(r)
  PROVE  UpdateInv'
<1>1. /\ chain[r].stage = "scheduled" /\ point' \in {point, Update!None, chain[r].pre}
      /\ UNCHANGED << local, head, finish, prepared, serving, served, unproven, goal, excused >>
  BY DEF Update!Report
<1>2. Moved(r, "ended", chain[r].want, chain[r].pre)
  BY ChainMoves DEF Update!Report, UpdateInv
<1>3. UpdateTypes'
  BY <1>1, <1>2 DEF Moved, UpdateInv, UpdateTypes, ChainShape
<1>4. Remembered'
  BY <1>1, <1>2 DEF Moved, UpdateInv, Remembered, Update!PointerServed
<1>5. ScriptOfChain'
  BY <1>1, <1>2 DEF Moved, UpdateInv, ScriptOfChain
<1>6. OnItsWay'
  <2>1. finish[r] # "none"
    BY <1>1 DEF UpdateInv, ScriptOfChain
  <2>2. QED
    BY <1>1, <1>2, <2>1, QuietStep, Zenon DEF Moved, UpdateInv, UnderWay, Update!Moving
<1>7. QED
  BY <1>3, <1>4, <1>5, <1>6 DEF UpdateInv

LEMMA PrepareStep ==
  ASSUME UpdateInv, NEW r \in Workers, Update!Prepare(r)
  PROVE  UpdateInv'
<1>1. /\ finish[r] = "prepare" /\ prepared' = Update!Tree
      /\ finish' = [finish EXCEPT ![r] = "restart"]
      /\ UNCHANGED << local, head, point, chain, serving, served, unproven, goal, excused >>
  BY DEF Update!Prepare
<1>2. /\ DOMAIN finish' = Workers /\ \A q \in Workers \ {r} : finish'[q] = finish[q]
      /\ finish'[r] = "restart"
  BY <1>1 DEF UpdateInv, UpdateTypes
<1>3. UpdateTypes'
  BY <1>1, <1>2 DEF UpdateInv, UpdateTypes, ChainShape
<1>4. Remembered'
  BY <1>1, <1>2 DEF UpdateInv, Remembered, Update!PointerServed
<1>5. ScriptOfChain'
  BY <1>1, <1>2 DEF UpdateInv, ScriptOfChain
<1>6. OnItsWay'
  <2>1. UnderWay(r)' /\ UnderWay(r) /\ chain[r].stage # "checked out"
    BY <1>1, <1>2, Zenon DEF UnderWay, UpdateInv, ScriptOfChain
  <2>2. Alone(r)' => Alone(r)
    BY <1>1, <1>2, <2>1, Zenon DEF Alone, UnderWay, Update!Moving
  <2>3. Update!Tree' = Update!Tree
    BY <1>1 DEF Update!Tree
  <2>4. ~ excused' /\ Alone(r)' => Update!Tree' = goal' /\ prepared' = goal'
    BY <1>1, <2>1, <2>2, <2>3, Zenon DEF UpdateInv, OnItsWay
  <2>5. QED
    BY <2>1, <2>4, WorkStep, Zenon
<1>7. QED
  BY <1>3, <1>4, <1>5, <1>6 DEF UpdateInv

(* A restart ends every chain and script; what it needs for the claim is   *)
(* that nobody but the one who asked for it was under way.                 *)
LEMMA RestartedStep ==
  ASSUME UpdateInv, Update!Restarted,
         ~ excused' => Update!Tree = goal /\ prepared' = goal
  PROVE  UpdateInv'
<1>1. /\ serving' = Update!Tree /\ served' = served \cup {Update!Tree}
      /\ chain' = [r \in Workers |-> IF Update!Active(r)
                                     THEN [chain[r] EXCEPT !.stage = "ended"] ELSE chain[r]]
      /\ finish' = [r \in Workers |-> "none"]
      /\ UNCHANGED << local, head, point, unproven, goal >>
  BY DEF Update!Restarted
<1>2. DOMAIN chain' = Workers /\ DOMAIN finish' = Workers
  BY <1>1
<1>3. \A r \in Workers :
         /\ finish'[r] = "none"
         /\ chain'[r] = [stage |-> IF Update!Active(r) THEN "ended" ELSE chain[r].stage,
                         want |-> chain[r].want, pre |-> chain[r].pre]
  BY <1>1 DEF UpdateInv, UpdateTypes, ChainShape
<1>4. \A r \in Workers :
         /\ ~ UnderWay(r)' /\ chain'[r].stage \notin {"saved", "fetched", "scheduled"}
         /\ chain'[r].stage # "idle" => chain[r].stage # "idle"
         /\ chain'[r].pre = chain[r].pre
  <2>1. TAKE r \in Workers
  <2>2. finish'[r] = "none"
    BY <1>3
  <2>3. CASE Update!Active(r)
    <3>1. chain'[r] = [stage |-> "ended", want |-> chain[r].want, pre |-> chain[r].pre]
      BY <1>3, <2>3
    <3>2. QED
      BY <2>2, <2>3, <3>1 DEF UnderWay, Update!Moving, Update!Active
  <2>4. CASE ~ Update!Active(r)
    <3>1. chain'[r] = [stage |-> chain[r].stage, want |-> chain[r].want, pre |-> chain[r].pre]
      BY <1>3, <2>4
    <3>2. chain'[r].stage = chain[r].stage /\ chain'[r].pre = chain[r].pre
      BY <3>1
    <3>3. chain[r].stage \in {"idle", "ended", "failed"}
      BY <2>4 DEF Update!Active
    <3>4. QED
      BY <2>2, <3>2, <3>3, Zenon DEF UnderWay, Update!Moving
  <2>5. QED
    BY <2>3, <2>4
<1>5. UpdateTypes'
  BY <1>1, <1>2, <1>3, <1>4 DEF UpdateInv, UpdateTypes, ChainShape
<1>6. Remembered'
  BY <1>1, <1>3, <1>4 DEF UpdateInv, Remembered, Update!PointerServed
<1>7. ScriptOfChain'
  BY <1>3, <1>4 DEF ScriptOfChain
<1>8. OnItsWay'
  BY <1>1, <1>4, Zenon DEF OnItsWay, Alone, Update!Tree
<1>9. QED
  BY <1>5, <1>6, <1>7, <1>8 DEF UpdateInv

LEMMA FinishStep ==
  ASSUME UpdateInv, NEW r \in Workers, Update!FinishRestart(r)
  PROVE  UpdateInv'
<1>1. /\ finish[r] = "restart" /\ Update!Restarted /\ UNCHANGED prepared
      /\ excused' = (excused \/ \E q \in Workers \ {r} : UnderWay(q))
  BY DEF Update!FinishRestart, UnderWay
<1>2. ASSUME ~ excused'
      PROVE  Update!Tree = goal /\ prepared = goal
  <2>1. ~ excused /\ \A q \in Workers \ {r} : ~ UnderWay(q)
    BY <1>1, <1>2, Zenon
  <2>2. UnderWay(r) /\ chain[r].stage # "checked out"
    BY <1>1, Zenon DEF UnderWay, UpdateInv, ScriptOfChain
  <2>3. QED
    BY <1>1, <2>1, <2>2, Zenon DEF UpdateInv, OnItsWay, Alone
<1>3. QED
  BY <1>1, <1>2, RestartedStep

LEMMA ServiceRestartStep ==
  ASSUME UpdateInv, Update!RestartService
  PROVE  UpdateInv'
<1>1. /\ Update!Restarted /\ UNCHANGED prepared
      /\ excused' = (excused \/ \E r \in Workers : UnderWay(r))
  BY DEF Update!RestartService, UnderWay
<1>2. ASSUME ~ excused'
      PROVE  Update!Tree = goal /\ prepared = goal
  <2>1. ~ excused /\ \A q \in Workers : ~ UnderWay(q)
    BY <1>1, <1>2, Zenon
  <2>2. QED
    BY <2>1, Zenon DEF UpdateInv, OnItsWay
<1>3. QED
  BY <1>1, <1>2, RestartedStep

LEMMA UpdateNextInv ==
  ASSUME UpdateInv, [Update!Next]_updateVars
  PROVE  UpdateInv'
<1>1. CASE UNCHANGED << local, head, point, chain, finish, prepared, serving, served, unproven,
                        goal, excused >>
  BY <1>1, Zenon DEF UpdateInv, UpdateTypes, ChainShape, Remembered, Update!PointerServed,
              ScriptOfChain, OnItsWay, Alone, UnderWay, Update!Moving, Update!Tree
<1>2. ASSUME NEW r \in Workers, Update!OnError(r)
      PROVE  UpdateInv'
  BY <1>2, RestartedStep DEF Update!OnError
<1>3. CASE Update!CheckForUpdates \/ \E b \in Branches : Update!Push(b)
  BY <1>1, <1>3 DEF Update!CheckForUpdates, Update!Push
<1>4. CASE UNCHANGED updateVars
  BY <1>1, <1>4 DEF updateVars
<1>5. QED
  BY <1>2, <1>3, <1>4, CaptureStep, FetchStep, CheckoutStep, ResetStep, RollbackStep,
     ScheduleStep, ReportStep, PrepareStep, FinishStep, ServiceRestartStep DEF Update!Next

LEMMA UpdateInvIsSafe == UpdateInv => Update!PointerServed /\ Update!ReadyToServe
BY Zenon DEF UpdateInv, Remembered, OnItsWay, UnderWay, Update!ReadyToServe

-----------------------------------------------------------------------------
(***************************************************************************)
(* Restore.  Unless scripts cross or the service could not be stopped, one *)
(* script at a time works on files nobody else writes, and each of its     *)
(* stages finds them as the stage before it left them.                     *)
(***************************************************************************)
Contents == [Backup!Files -> Int]

BackupTypes ==
    /\ live \in Contents /\ archives \subseteq Contents /\ build.copy \in Contents
    /\ input \in [Workers -> Contents] /\ stash \in [Workers -> Contents]
    /\ DOMAIN script = Workers /\ toCopy \in [Workers -> SUBSET Backup!Data]
    /\ writes \in Nat

OneScript ==
    /\ \A r, q \in Workers : Backup!Running(r) /\ Backup!Running(q) => r = q
    /\ \A r \in Workers : script[r] \in {"stash", "config", "clear", "copy"} => ~ service

StageByStage(r) ==
    /\ script[r] = "config" => stash[r] = live
    /\ script[r] = "clear" => /\ \A f \in Backup!Data : stash[r][f] = live[f]
                              /\ live["config"] = input[r]["config"]
    /\ script[r] = "copy" =>
          /\ live["config"] = input[r]["config"] /\ ~ journal
          /\ \A f \in Backup!Data : live[f] = IF f \in toCopy[r] THEN -1 ELSE input[r][f]

BackupInv ==
    /\ BackupTypes
    /\ ~ crossed => OneScript /\ ~ lostFile /\ \A r \in Workers : StageByStage(r)

LEMMA BackupInitInv ==
  ASSUME Backup!Init
  PROVE  BackupInv
<1>1. BackupTypes
  BY DEF Backup!Init, BackupTypes, Contents, Backup!Nothing, Backup!Gone
<1>2. \A r \in Workers : script[r] = "none"
  BY DEF Backup!Init
<1>3. OneScript /\ ~ lostFile /\ \A r \in Workers : StageByStage(r)
  BY <1>2 DEF Backup!Init, OneScript, StageByStage, Backup!Running
<1>4. QED
  BY <1>1, <1>3 DEF BackupInv

(* What an action writes stays contents of files.                          *)
LEMMA BackupTypesStep ==
  ASSUME BackupTypes, Backup!Next
  PROVE  BackupTypes'
<1> USE DEF BackupTypes
<1>1. CASE Backup!ServiceWrites
  <2>1. /\ writes' \in Nat
        /\ UNCHANGED << archives, build, input, stash, script, toCopy >>
    BY <1>1 DEF Backup!ServiceWrites
  <2>2. PICK f \in Backup!Files : live' = [live EXCEPT ![f] = writes']
    BY <1>1 DEF Backup!ServiceWrites
  <2>3. live' \in Contents
    BY <2>1, <2>2 DEF Contents
  <2>4. QED
    BY <2>1, <2>3
<1>2. CASE Backup!AddLocalConfig
  <2>1. /\ build'.copy = [Backup!Nothing EXCEPT !["config"] = live["config"]]
        /\ UNCHANGED << live, archives, input, stash, script, toCopy, writes >>
    BY <1>2 DEF Backup!AddLocalConfig
  <2>2. Backup!Nothing \in Contents /\ live["config"] \in Int
    BY DEF Contents, Backup!Files, Backup!Nothing, Backup!Gone
  <2>3. build'.copy \in Contents
    BY <2>1, <2>2 DEF Contents
  <2>4. QED
    BY <2>1, <2>3
<1>3. CASE Backup!AddDataTree
  <2>1. /\ build'.copy = Backup!Nothing
        /\ archives' = archives \cup {[f \in Backup!Files |->
                          IF f \in Backup!Data THEN live[f] ELSE build.copy[f]]}
        /\ UNCHANGED << live, input, stash, script, toCopy, writes >>
    BY <1>3 DEF Backup!AddDataTree
  <2>2. build'.copy \in Contents /\ archives' \subseteq Contents
    BY <2>1 DEF Contents, Backup!Nothing, Backup!Gone
  <2>3. QED
    BY <2>1, <2>2
<1>4. ASSUME NEW r \in Workers, Backup!LaunchRestore(r)
      PROVE  BackupTypes'
  BY <1>4 DEF Backup!LaunchRestore
<1>5. ASSUME NEW r \in Workers, Backup!StopService(r)
      PROVE  BackupTypes'
  <2>1. build' = build \/ build'.copy = Backup!Nothing
    BY <1>5 DEF Backup!StopService
  <2>2. build'.copy \in Contents
    BY <2>1 DEF Contents, Backup!Nothing, Backup!Gone
  <2>3. QED
    BY <1>5, <2>2 DEF Backup!StopService
<1>6. ASSUME NEW r \in Workers, Backup!Stash(r)
      PROVE  BackupTypes'
  BY <1>6 DEF Backup!Stash
<1>7. ASSUME NEW r \in Workers, Backup!ApplyConfig(r)
      PROVE  BackupTypes'
  <2>1. live' = [live EXCEPT !["config"] = input[r]["config"]] /\ input[r] \in Contents
    BY <1>7 DEF Backup!ApplyConfig
  <2>2. live' \in Contents
    BY <2>1 DEF Contents, Backup!Files
  <2>3. QED
    BY <1>7, <2>2 DEF Backup!ApplyConfig
<1>8. ASSUME NEW r \in Workers, Backup!ClearLiveDataTree(r)
      PROVE  BackupTypes'
  <2>1. live' = [f \in Backup!Files |-> IF f \in Backup!Data THEN -1 ELSE live[f]]
    BY <1>8 DEF Backup!ClearLiveDataTree, Backup!Gone
  <2>2. live' \in Contents
    BY <2>1 DEF Contents
  <2>3. toCopy' \in [Workers -> SUBSET Backup!Data]
    BY <1>8 DEF Backup!ClearLiveDataTree
  <2>4. QED
    BY <1>8, <2>2, <2>3 DEF Backup!ClearLiveDataTree
<1>9. ASSUME NEW r \in Workers, Backup!CopyFile(r)
      PROVE  BackupTypes'
  <2>1. PICK f \in toCopy[r] :
           /\ live' = [live EXCEPT ![f] = input[r][f]]
           /\ toCopy' = [toCopy EXCEPT ![r] = @ \ {f}]
    BY <1>9 DEF Backup!CopyFile
  <2>2. f \in Backup!Files /\ input[r] \in Contents
    BY DEF Backup!Files
  <2>3. live' \in Contents
    BY <2>1, <2>2 DEF Contents
  <2>4. toCopy' \in [Workers -> SUBSET Backup!Data]
    BY <2>1
  <2>5. QED
    BY <1>9, <2>3, <2>4 DEF Backup!CopyFile
<1>10. ASSUME NEW r \in Workers, Backup!StartService(r) \/ Backup!OnError(r)
       PROVE  BackupTypes'
  BY <1>10 DEF Backup!StartService, Backup!OnError
<1>11. QED
  BY <1>1, <1>2, <1>3, <1>4, <1>5, <1>6, <1>7, <1>8, <1>9, <1>10
     DEF Backup!Next, Backup!ScriptStep

(* What holds as long as nothing crosses.                                  *)
Uncrossed == OneScript /\ ~ lostFile /\ \A r \in Workers : StageByStage(r)

(* The script of r goes on, alone: what is to be shown is about r.         *)
LEMMA ScriptMoves ==
  ASSUME BackupTypes, OneScript, NEW r \in Workers, Backup!Running(r), NEW s,
         script' = [script EXCEPT ![r] = s],
         s \in {"stash", "config", "clear", "copy"} => ~ service',
         StageByStage(r)'
  PROVE  OneScript' /\ \A q \in Workers : StageByStage(q)'
<1>1. script'[r] = s /\ \A q \in Workers \ {r} : script'[q] = script[q]
  BY DEF BackupTypes
<1>2. \A q \in Workers \ {r} : script[q] \in {"none", "done"}
  BY DEF OneScript, Backup!Running
<1>3. OneScript'
  BY <1>1, <1>2 DEF OneScript, Backup!Running
<1>4. \A q \in Workers \ {r} : StageByStage(q)'
  BY <1>1, <1>2 DEF StageByStage
<1>5. QED
  BY <1>3, <1>4

LEMMA UncrossedStep ==
  ASSUME BackupTypes, Uncrossed, Backup!Next, ~ crossed'
  PROVE  Uncrossed'
<1> USE DEF Uncrossed
<1>1. CASE Backup!ServiceWrites
  <2>1. /\ service /\ UNCHANGED << script, service, lostFile >>
    BY <1>1 DEF Backup!ServiceWrites
  <2>2. \A r \in Workers : script[r] \notin {"stash", "config", "clear", "copy"}
    BY <2>1 DEF OneScript
  <2>3. OneScript' /\ ~ lostFile'
    BY <2>1 DEF OneScript, Backup!Running
  <2>4. \A r \in Workers : StageByStage(r)'
    BY <2>1, <2>2 DEF StageByStage
  <2>5. QED
    BY <2>3, <2>4
<1>2. CASE Backup!AddLocalConfig \/ Backup!AddDataTree
  <2>1. UNCHANGED << live, journal, service, script, input, stash, toCopy, lostFile >>
    BY <1>2 DEF Backup!AddLocalConfig, Backup!AddDataTree
  <2>2. QED
    BY <2>1 DEF OneScript, StageByStage, Backup!Running
<1>3. ASSUME NEW r \in Workers, Backup!LaunchRestore(r)
      PROVE  Uncrossed'
  <2>1. /\ \A q \in Workers : ~ Backup!Running(q)
        /\ script' = [script EXCEPT ![r] = "stop"]
        /\ UNCHANGED << service, lostFile >>
    BY <1>3, Zenon DEF Backup!LaunchRestore
  <2>2. script'[r] = "stop" /\ \A q \in Workers \ {r} : script'[q] \in {"none", "done"}
    BY <2>1 DEF BackupTypes, Backup!Running
  <2>3. QED
    BY <2>1, <2>2 DEF OneScript, StageByStage, Backup!Running
<1>4. ASSUME NEW r \in Workers, Backup!StopService(r)
      PROVE  Uncrossed'
  <2>1. /\ Backup!Running(r) /\ script' = [script EXCEPT ![r] = "stash"]
        /\ service' = FALSE /\ UNCHANGED lostFile
    BY <1>4 DEF Backup!StopService, Backup!Running
  <2>2. StageByStage(r)'
    BY <2>1 DEF BackupTypes, StageByStage
  <2>3. QED
    BY <2>1, <2>2, ScriptMoves
<1>5. ASSUME NEW r \in Workers, Backup!Stash(r)
      PROVE  Uncrossed'
  <2>1. /\ script[r] = "stash" /\ script' = [script EXCEPT ![r] = "config"]
        /\ stash' = [stash EXCEPT ![r] = live]
        /\ UNCHANGED << live, service, lostFile >>
    BY <1>5 DEF Backup!Stash
  <2>2. Backup!Running(r) /\ ~ service
    BY <2>1 DEF Backup!Running, OneScript
  <2>3. script'[r] = "config" /\ stash'[r] = live
    BY <2>1 DEF BackupTypes
  <2>4. StageByStage(r)'
    BY <2>1, <2>3 DEF StageByStage
  <2>5. QED
    BY <2>1, <2>2, <2>4, ScriptMoves
<1>6. ASSUME NEW r \in Workers, Backup!ApplyConfig(r)
      PROVE  Uncrossed'
  <2>1. /\ script[r] = "config" /\ script' = [script EXCEPT ![r] = "clear"]
        /\ live' = [live EXCEPT !["config"] = input[r]["config"]]
        /\ lostFile' = (lostFile \/ Backup!Unstashed("config"))
        /\ UNCHANGED << input, stash, service >>
    BY <1>6 DEF Backup!ApplyConfig
  <2>2. Backup!Running(r) /\ ~ service /\ stash[r] = live
    BY <2>1 DEF Backup!Running, OneScript, StageByStage
  <2>3. ~ Backup!Unstashed("config")
    BY <2>2 DEF Backup!Unstashed
  <2>4. /\ script'[r] = "clear" /\ live'["config"] = input[r]["config"]
        /\ \A f \in Backup!Data : live'[f] = live[f]
    BY <2>1 DEF BackupTypes, Contents, Backup!Files, Backup!Data
  <2>5. StageByStage(r)'
    BY <2>1, <2>2, <2>4 DEF StageByStage
  <2>6. ~ lostFile'
    BY <2>1, <2>3, Zenon
  <2>7. QED
    BY <2>1, <2>2, <2>5, <2>6, ScriptMoves
<1>7. ASSUME NEW r \in Workers, Backup!ClearLiveDataTree(r)
      PROVE  Uncrossed'
  <2>1. /\ script[r] = "clear" /\ script' = [script EXCEPT ![r] = "copy"]
        /\ live' = [f \in Backup!Files |-> IF f \in Backup!Data THEN -1 ELSE live[f]]
        /\ journal' = FALSE
        /\ lostFile' = (lostFile \/ \E f \in Backup!Data : Backup!Unstashed(f))
        /\ toCopy' = [toCopy EXCEPT ![r] = {f \in Backup!Data : input[r][f] # -1}]
        /\ UNCHANGED << input, stash, service >>
    BY <1>7 DEF Backup!ClearLiveDataTree, Backup!Gone
  <2>2. /\ Backup!Running(r) /\ ~ service /\ live["config"] = input[r]["config"]
        /\ \A f \in Backup!Data : stash[r][f] = live[f]
    BY <2>1 DEF Backup!Running, OneScript, StageByStage
  <2>3. \A f \in Backup!Data : ~ Backup!Unstashed(f)
    BY <2>2 DEF Backup!Unstashed
  <2>4. /\ script'[r] = "copy" /\ live'["config"] = input[r]["config"]
        /\ toCopy'[r] = {f \in Backup!Data : input[r][f] # -1}
        /\ \A f \in Backup!Data : live'[f] = -1
    BY <2>1, <2>2 DEF BackupTypes, Contents, Backup!Files, Backup!Data
  <2>5. \A f \in Backup!Data : live'[f] = IF f \in toCopy'[r] THEN -1 ELSE input[r][f]
    BY <2>4
  <2>6. StageByStage(r)'
    BY <2>1, <2>4, <2>5 DEF StageByStage
  <2>7. ~ lostFile'
    BY <2>1, <2>3, Zenon
  <2>8. QED
    BY <2>1, <2>2, <2>6, <2>7, ScriptMoves
<1>8. ASSUME NEW r \in Workers, Backup!CopyFile(r)
      PROVE  Uncrossed'
  <2>1. /\ script[r] = "copy" /\ UNCHANGED << script, input, stash, service >>
    BY <1>8 DEF Backup!CopyFile
  <2>2. PICK g \in toCopy[r] :
           /\ live' = [live EXCEPT ![g] = input[r][g]]
           /\ lostFile' = (lostFile \/ Backup!Unstashed(g))
           /\ journal' = (journal /\ g # "database")
           /\ toCopy' = [toCopy EXCEPT ![r] = @ \ {g}]
    BY <1>8 DEF Backup!CopyFile
  <2>3. g \in Backup!Data
    BY <2>2 DEF BackupTypes
  <2>4. /\ Backup!Running(r) /\ ~ service /\ ~ journal /\ live["config"] = input[r]["config"]
        /\ \A f \in Backup!Data : live[f] = IF f \in toCopy[r] THEN -1 ELSE input[r][f]
    BY <2>1 DEF Backup!Running, OneScript, StageByStage
  <2>5. ~ Backup!Unstashed(g)
    BY <2>2, <2>3, <2>4 DEF Backup!Unstashed, Backup!Gone
  <2>6. /\ toCopy'[r] = toCopy[r] \ {g} /\ live'[g] = input[r][g]
        /\ live'["config"] = live["config"]
        /\ \A f \in Backup!Data \ {g} : live'[f] = live[f]
    BY <2>2, <2>3 DEF BackupTypes, Contents, Backup!Files, Backup!Data
  <2>7. \A f \in Backup!Data : live'[f] = IF f \in toCopy'[r] THEN -1 ELSE input[r][f]
    BY <2>4, <2>6
  <2>8. ~ journal' /\ ~ lostFile'
    BY <2>2, <2>4, <2>5, Zenon
  <2>9. StageByStage(r)'
    BY <2>1, <2>4, <2>6, <2>7, <2>8 DEF StageByStage
  <2>10. OneScript'
    BY <2>1 DEF OneScript, Backup!Running
  <2>11. \A q \in Workers \ {r} : script'[q] \in {"none", "done"}
    BY <2>1, <2>4 DEF OneScript, Backup!Running
  <2>12. \A q \in Workers \ {r} : StageByStage(q)'
    BY <2>11 DEF StageByStage
  <2>13. QED
    BY <2>8, <2>9, <2>10, <2>12
<1>9. ASSUME NEW r \in Workers, Backup!StartService(r) \/ Backup!OnError(r)
      PROVE  Uncrossed'
  <2>1. /\ Backup!Running(r) /\ script' = [script EXCEPT ![r] = "done"]
        /\ UNCHANGED lostFile
    BY <1>9 DEF Backup!StartService, Backup!OnError, Backup!Running
  <2>2. StageByStage(r)'
    BY <2>1 DEF BackupTypes, StageByStage
  <2>3. QED
    BY <2>1, <2>2, ScriptMoves
<1>10. QED
  BY <1>1, <1>2, <1>3, <1>4, <1>5, <1>6, <1>7, <1>8, <1>9
     DEF Backup!Next, Backup!ScriptStep

LEMMA BackupNextInv ==
  ASSUME BackupInv, [Backup!Next]_backupVars
  PROVE  BackupInv'
<1>1. CASE UNCHANGED backupVars
  BY <1>1 DEF backupVars, BackupInv, BackupTypes, OneScript, StageByStage, Backup!Running
<1>2. CASE Backup!Next
  <2>1. BackupTypes'
    BY <1>2, BackupTypesStep DEF BackupInv
  <2>2. ~ crossed' => ~ crossed
    BY <1>2 DEF Backup!Next, Backup!ScriptStep, Backup!ServiceWrites, Backup!AddLocalConfig,
       Backup!AddDataTree, Backup!LaunchRestore, Backup!StopService, Backup!Stash,
       Backup!ApplyConfig, Backup!ClearLiveDataTree, Backup!CopyFile, Backup!StartService,
       Backup!OnError
  <2>3. ~ crossed' => Uncrossed'
    BY <1>2, <2>2, UncrossedStep DEF BackupInv, Uncrossed
  <2>4. QED
    BY <2>1, <2>3 DEF BackupInv, Uncrossed
<1>3. QED
  BY <1>1, <1>2

LEMMA BackupInvIsSafe == BackupInv => Backup!NothingLost /\ Backup!RestoredIsArchive
<1> SUFFICES ASSUME BackupInv
             PROVE  Backup!NothingLost /\ Backup!RestoredIsArchive
  OBVIOUS
<1>1. Backup!NothingLost
  BY DEF BackupInv, Backup!NothingLost
<1>2. ASSUME NEW r \in Workers, script[r] = "copy", toCopy[r] = {}, ~ crossed
      PROVE  live = input[r] /\ ~ journal
  <2>1. /\ live["config"] = input[r]["config"] /\ ~ journal
        /\ \A f \in Backup!Data : live[f] = input[r][f]
    BY <1>2 DEF BackupInv, StageByStage
  <2>2. live \in Contents /\ input[r] \in Contents
    BY <1>2 DEF BackupInv, BackupTypes
  <2>3. QED
    BY <2>1, <2>2 DEF Contents, Backup!Files
<1>3. QED
  BY <1>1, <1>2 DEF Backup!RestoredIsArchive

-----------------------------------------------------------------------------
(***************************************************************************)
(* Firmware.  Each exception that a property names excuses one part of the *)
(* invariant.  Without an overlap one client at a time is engaged, and the *)
(* keeper of the port is stopped from the release to the end of the tool.  *)
(* As long as nothing tore a fetch, one thread at a time fills the cache,  *)
(* file after file, and a request that has passed its fetch finds all of   *)
(* it.  As long as nobody crossed a compilation, sketch and artifact are   *)
(* those of the one client who asked.                                      *)
(***************************************************************************)
JobFields == {"stage", "erase", "fs", "image", "told"}

FlashTypes ==
    /\ DOMAIN job = Workers /\ DOMAIN fetcher = Workers /\ DOMAIN compiler = Workers
    /\ DOMAIN asked = Workers /\ DOMAIN files = {"meta", "app", "fs", "merged"}
    /\ tools \subseteq Workers
    /\ \A c \in Workers :
         /\ DOMAIN job[c] = JobFields
         /\ c \in tools => job[c].stage \in {"wipe", "write", "left"}
         /\ job[c].stage = "wipe" => card = "rnode"
         /\ job[c].stage = "idle" => job[c].told = "none"

Engaged(c) == Flash!Busy(c) \/ c \in tools
AtPort(c) == c \in tools \/ job[c].stage \in {"wipe", "write"}

OneClient ==
    /\ card \in {"pager", "reticulum"} => holder = "nobody"
    /\ "overlap" \notin flags => \A c, d \in Workers : Engaged(c) /\ Engaged(d) => c = d
    /\ "overlap" \notin flags /\ "systemctl" \notin flags /\ Flash!Matches =>
          \A c \in Workers : AtPort(c) => ~ open

Fetching(c) == fetcher[c] \in {"meta", "app", "fs"}
AllFiles(s) == files["meta"] = s /\ files["app"] = s /\ files["fs"] = s
PastFetch(c) == job[c].stage \in {"release", "write"}

CacheStages ==
    /\ \A c, d \in Workers : Fetching(c) /\ Fetching(d) => c = d
    /\ (\A c \in Workers : ~ Fetching(c)) => AllFiles("none") \/ AllFiles("whole")
    /\ \A c \in Workers :
         /\ fetcher[c] = "meta" => files["app"] = "none" /\ files["fs"] = "none"
         /\ fetcher[c] = "app" => files["meta"] = "whole" /\ files["fs"] = "none"
         /\ fetcher[c] = "fs" => files["meta"] = "whole" /\ files["app"] = "whole"
         /\ card = "meshtastic" /\ PastFetch(c) =>
               job[c].fs = TRUE /\ AllFiles("whole") /\ \A d \in Workers : ~ Fetching(d)

(* The tool has been given an image, or has written it.                    *)
Given(c) == job[c].told = "success" \/ (c \in tools /\ job[c].stage = "write")

OfficialWhole ==
    /\ files["merged"] \in {"none", "whole"}
    /\ \A c \in Workers :
         /\ fetcher[c] = "temp" => card = "meshcore"
         /\ Fetching(c) => card = "meshtastic"
         /\ card = "meshcore" /\ PastFetch(c) => files["merged"] = "whole"
         /\ card = "meshcore" /\ Given(c) => job[c].image = "whole"
         /\ card = "meshtastic" /\ Given(c) => job[c].image = "whole" \/ "torn" \in flags
    /\ "torn" \notin flags => CacheStages

OneCompiles ==
    /\ \A c, d \in Workers : asked[c] # "none" /\ asked[d] # "none" => c = d
    /\ \A c \in Workers :
         /\ asked[c] = "none" => compiler[c] = "none"
         /\ asked[c] # "none" =>
              /\ sketch = asked[c]
              /\ compiler[c] = "none" => artifact = asked[c]
              /\ compiler[c] \notin {"none", "reading"} => compiler[c] = asked[c]

BuiltAsAsked ==
    /\ \A c \in Workers : job[c].stage # "idle" => compiler[c] = "none"
    /\ "crossed" \notin flags =>
         /\ OneCompiles
         /\ \A c \in Workers : card \in Flash!Built /\ asked[c] # "none" /\ Given(c)
               => job[c].image = asked[c]

FlashInv == FlashTypes /\ OneClient /\ OfficialWhole /\ BuiltAsAsked

LEMMA FlashInitInv ==
  ASSUME Flash!Init
  PROVE  FlashInv
<1>1. \A c \in Workers : job[c] = Flash!Idle /\ fetcher[c] = "none" /\ compiler[c] = "none"
                          /\ asked[c] = "none"
  BY DEF Flash!Init
<1>2. tools = {} /\ \A f \in {"meta", "app", "fs", "merged"} : files[f] = "none"
  BY DEF Flash!Init
<1>3. FlashTypes
  BY <1>1, <1>2 DEF Flash!Init, FlashTypes, JobFields, Flash!Idle
<1>4. OneClient
  <2>1. \A c \in Workers : ~ Engaged(c) /\ ~ AtPort(c)
    BY <1>1, <1>2 DEF Engaged, AtPort, Flash!Busy, Flash!Idle
  <2>2. card \in {"pager", "reticulum"} => holder = "nobody"
    BY DEF Flash!Init, Flash!Keeper
  <2>3. QED
    BY <2>1, <2>2 DEF OneClient
<1>5. OfficialWhole
  BY <1>1, <1>2 DEF OfficialWhole, CacheStages, PastFetch, Given, Fetching, AllFiles, Flash!Idle
<1>6. BuiltAsAsked
  BY <1>1 DEF BuiltAsAsked, OneCompiles
<1>7. QED
  BY <1>3, <1>4, <1>5, <1>6 DEF FlashInv

(* The request of c, and no other, goes to another stage.                  *)
JobIs(c, stage, fs, image, told) ==
    /\ DOMAIN job' = Workers /\ DOMAIN job'[c] = JobFields
    /\ \A d \in Workers \ {c} : job'[d] = job[d]
    /\ job'[c].stage = stage /\ job'[c].fs = fs
    /\ job'[c].image = image /\ job'[c].told = told

LEMMA JobGoes ==
  ASSUME FlashTypes, NEW c \in Workers, NEW stage, job' = [job EXCEPT ![c].stage = stage]
  PROVE  JobIs(c, stage, job[c].fs, job[c].image, job[c].told)
BY DEF FlashTypes, JobFields, JobIs

(* One that ends forgets what it was about.                                *)
LEMMA JobEnds ==
  ASSUME FlashTypes, NEW c \in Workers, NEW ended, job' = [job EXCEPT ![c] = ended],
         NEW stage, NEW image, NEW told,
         \/ ended = [Flash!Idle EXCEPT !.stage = stage] /\ told = "none" /\ image = "none"
         \/ ended = [Flash!Idle EXCEPT !.stage = stage, !.told = told] /\ image = "none"
         \/ ended = [Flash!Idle EXCEPT !.stage = stage, !.told = told, !.image = image]
  PROVE  JobIs(c, stage, FALSE, image, told)
<1>1. /\ DOMAIN ended = JobFields /\ ended.stage = stage /\ ended.fs = FALSE
      /\ ended.image = image /\ ended.told = told
  BY DEF Flash!Idle, JobFields
<1>2. /\ DOMAIN job' = Workers /\ job'[c] = ended
      /\ \A d \in Workers \ {c} : job'[d] = job[d]
  BY DEF FlashTypes
<1>3. QED
  BY <1>1, <1>2 DEF JobIs

-----------------------------------------------------------------------------
(* What a step of c has to show for each part of the invariant.            *)
LEMMA TypesKept ==
  ASSUME FlashTypes, NEW c \in Workers, NEW stage, NEW fs, NEW image, NEW told,
         JobIs(c, stage, fs, image, told), UNCHANGED card,
         DOMAIN fetcher' = Workers, DOMAIN compiler' = Workers, DOMAIN asked' = Workers,
         DOMAIN files' = DOMAIN files,
         tools' \subseteq Workers, \A d \in Workers \ {c} : d \in tools' <=> d \in tools,
         c \in tools' => stage \in {"wipe", "write", "left"},
         stage = "wipe" => card = "rnode", stage = "idle" => told = "none"
  PROVE  FlashTypes'
BY DEF FlashTypes, JobIs

LEMMA OneClientKept ==
  ASSUME OneClient, NEW c \in Workers, UNCHANGED << holder, samePath, card >>,
         flags \subseteq flags',
         \A d \in Workers \ {c} : job'[d] = job[d] /\ (d \in tools' <=> d \in tools),
         Engaged(c)' => \/ Engaged(c) \/ "overlap" \in flags'
                        \/ \A d \in Workers \ {c} : ~ Engaged(d),
         open' => open \/ (Engaged(c) /\ ~ AtPort(c)'),
         AtPort(c)' => AtPort(c) \/ ~ open' \/ ~ Flash!Matches \/ "systemctl" \in flags'
  PROVE  OneClient'
<1>1. \A d \in Workers \ {c} : (Engaged(d)' <=> Engaged(d)) /\ (AtPort(d)' <=> AtPort(d))
  BY DEF Engaged, AtPort, Flash!Busy
<1>2. \A d \in Workers : AtPort(d) => Engaged(d)
  BY DEF AtPort, Engaged, Flash!Busy
<1>3. Flash!Matches' <=> Flash!Matches
  BY DEF Flash!Matches
<1>4. ASSUME "overlap" \notin flags'
      PROVE  \A d, e \in Workers : Engaged(d)' /\ Engaged(e)' => d = e
  BY <1>1, <1>4 DEF OneClient
<1>5. ASSUME "overlap" \notin flags', "systemctl" \notin flags', Flash!Matches,
             NEW d \in Workers, AtPort(d)', open'
      PROVE  FALSE
  <2>1. \A e \in Workers : AtPort(e) => ~ open
    BY <1>5 DEF OneClient
  <2>2. CASE d = c
    BY <1>5, <2>1, <2>2
  <2>3. CASE d # c
    <3>1. AtPort(d) /\ Engaged(d)
      BY <1>1, <1>2, <1>5, <2>3
    <3>2. Engaged(c)
      BY <1>5, <2>1, <3>1
    <3>3. QED
      BY <1>5, <2>3, <3>1, <3>2 DEF OneClient
  <2>4. QED
    BY <2>2, <2>3
<1>6. card' \in {"pager", "reticulum"} => holder' = "nobody"
  BY DEF OneClient
<1>7. QED
  BY <1>3, <1>4, <1>5, <1>6 DEF OneClient

(* The image that the tool has is the right one.                           *)
ImageRight(c) ==
    /\ card = "meshcore" => job[c].image = "whole"
    /\ card = "meshtastic" => job[c].image = "whole" \/ "torn" \in flags
    /\ card \in Flash!Built /\ asked[c] # "none" =>
          job[c].image = asked[c] \/ "crossed" \in flags

LEMMA ImagesKept ==
  ASSUME OfficialWhole, BuiltAsAsked, NEW c \in Workers, UNCHANGED << card, asked >>,
         flags \subseteq flags',
         \A d \in Workers \ {c} : job'[d] = job[d] /\ (d \in tools' <=> d \in tools),
         Given(c)' => (Given(c) /\ job'[c].image = job[c].image) \/ ImageRight(c)'
  PROVE  \A d \in Workers : Given(d)' => ImageRight(d)'
<1>1. \A d \in Workers : Given(d) => ImageRight(d)
  BY DEF OfficialWhole, BuiltAsAsked, ImageRight
<1>2. \A d \in Workers \ {c} : Given(d)' => ImageRight(d)'
  BY <1>1 DEF Given, ImageRight
<1>3. Given(c)' => ImageRight(c)'
  BY <1>1 DEF ImageRight
<1>4. QED
  BY <1>2, <1>3

LEMMA CacheKept ==
  ASSUME CacheStages, NEW c \in Workers, UNCHANGED << card, fetcher, files >>,
         \A d \in Workers \ {c} : job'[d] = job[d],
         card = "meshtastic" /\ PastFetch(c)' =>
            job'[c].fs = TRUE /\ AllFiles("whole") /\ \A d \in Workers : ~ Fetching(d)
  PROVE  CacheStages'
BY DEF CacheStages, PastFetch, Fetching, AllFiles

-----------------------------------------------------------------------------
(* A step of a request that leaves caches and compilers alone.             *)
LEMMA JobStep ==
  ASSUME FlashInv, NEW c \in Workers, NEW stage, NEW fs, NEW image, NEW told,
         JobIs(c, stage, fs, image, told),
         UNCHANGED << holder, samePath, card, fetcher, files, compiler, asked, sketch, artifact >>,
         flags \subseteq flags',
         tools' \subseteq Workers, \A d \in Workers \ {c} : d \in tools' <=> d \in tools,
         c \in tools' => stage \in {"wipe", "write", "left"},
         stage = "wipe" => card = "rnode",
         stage # "idle", compiler[c] = "none",
         Engaged(c)' => \/ Engaged(c) \/ "overlap" \in flags'
                        \/ \A d \in Workers \ {c} : ~ Engaged(d),
         open' => open \/ (Engaged(c) /\ ~ AtPort(c)'),
         AtPort(c)' => AtPort(c) \/ ~ open' \/ ~ Flash!Matches \/ "systemctl" \in flags',
         card = "meshcore" /\ PastFetch(c)' => files["merged"] = "whole",
         card = "meshtastic" /\ PastFetch(c)' /\ "torn" \notin flags' =>
            job'[c].fs = TRUE /\ AllFiles("whole") /\ \A d \in Workers : ~ Fetching(d),
         Given(c)' => (Given(c) /\ job'[c].image = job[c].image) \/ ImageRight(c)'
  PROVE  FlashInv'
<1>1. \A d \in Workers \ {c} : job'[d] = job[d] /\ (d \in tools' <=> d \in tools)
  BY DEF JobIs
<1>2. FlashTypes'
  BY TypesKept DEF FlashInv, FlashTypes
<1>3. OneClient'
  BY <1>1, OneClientKept DEF FlashInv
<1>4. \A d \in Workers : Given(d)' => ImageRight(d)'
  BY <1>1, ImagesKept DEF FlashInv
<1>5. OfficialWhole'
  <2>1. "torn" \notin flags' => CacheStages'
    BY <1>1, CacheKept DEF FlashInv, OfficialWhole
  <2>2. \A d \in Workers : card' = "meshcore" /\ PastFetch(d)' => files'["merged"] = "whole"
    BY <1>1 DEF FlashInv, OfficialWhole, PastFetch
  <2>3. /\ files'["merged"] \in {"none", "whole"}
        /\ \A d \in Workers : (fetcher'[d] = "temp" => card' = "meshcore")
                              /\ (Fetching(d)' => card' = "meshtastic")
    BY DEF FlashInv, OfficialWhole, Fetching
  <2>4. QED
    BY <1>4, <2>1, <2>2, <2>3 DEF OfficialWhole, ImageRight
<1>6. BuiltAsAsked'
  <2>1. \A d \in Workers : job'[d].stage # "idle" => compiler'[d] = "none"
    BY <1>1 DEF FlashInv, BuiltAsAsked, JobIs
  <2>2. "crossed" \notin flags' => OneCompiles'
    BY DEF FlashInv, BuiltAsAsked, OneCompiles
  <2>3. QED
    BY <1>4, <2>1, <2>2 DEF BuiltAsAsked, ImageRight
<1>7. QED
  BY <1>2, <1>3, <1>5, <1>6 DEF FlashInv

-----------------------------------------------------------------------------
LEMMA AskStep ==
  ASSUME FlashInv, NEW c \in Workers, Flash!Ask(c)
  PROVE  FlashInv'
<1>1. /\ job[c].stage = "idle" /\ compiler[c] = "none"
      /\ flags' = flags \cup (IF Flash!Others(c) THEN {"overlap"} ELSE {})
      /\ UNCHANGED << holder, samePath, card, open, fetcher, files, tools, compiler, asked,
                      sketch, artifact >>
  BY DEF Flash!Ask, Flash!choices, Flash!compiling
<1>2. PICK e \in BOOLEAN :
         job' = [job EXCEPT ![c].erase = e,
                            ![c].stage = IF card \in Flash!Official THEN "fetch" ELSE "release"]
  BY DEF Flash!Ask
<1>3. PICK s \in {"fetch", "release"} :
         /\ job' = [job EXCEPT ![c].erase = e, ![c].stage = s]
         /\ card \in Flash!Official => s = "fetch"
  BY <1>2
<1>4. JobIs(c, s, job[c].fs, job[c].image, job[c].told)
  BY <1>3 DEF FlashInv, FlashTypes, JobFields, JobIs
<1>5. job'[c].stage = s /\ job'[c].image = job[c].image /\ job'[c].told = job[c].told
      /\ flags \subseteq flags' /\ c \notin tools /\ tools \subseteq Workers
  BY <1>1, <1>4 DEF FlashInv, FlashTypes, JobIs
<1>6. "overlap" \in flags' \/ \A d \in Workers \ {c} : ~ Engaged(d)
  BY <1>1 DEF Flash!Others, Engaged
<1>7. ~ AtPort(c)' /\ (card \in Flash!Official => ~ PastFetch(c)')
  BY <1>1, <1>3, <1>5 DEF AtPort, PastFetch
<1>8. Given(c)' => Given(c) /\ job'[c].image = job[c].image
  BY <1>1, <1>5 DEF Given
<1>9. QED
  BY <1>1, <1>3, <1>4, <1>5, <1>6, <1>7, <1>8, JobStep DEF Flash!Official

(* The fetch of a cached release: nobody writes to the cache, or it is     *)
(* torn.                                                                   *)
LEMMA FetchHitStep ==
  ASSUME FlashInv, NEW c \in Workers, Flash!FetchHit(c)
  PROVE  FlashInv'
<1>1. /\ job[c].stage = "fetch" /\ card = "meshtastic" /\ fetcher[c] = "none" /\ Flash!Cached
      /\ flags' = flags \cup (IF Flash!Mixed(c) THEN {"torn"} ELSE {})
      /\ UNCHANGED << holder, samePath, card, open, fetcher, files, tools, compiler, asked,
                      sketch, artifact >>
  BY DEF Flash!FetchHit, Flash!choices, Flash!compiling
<1>2. /\ flags \subseteq flags' /\ c \notin tools /\ tools \subseteq Workers
      /\ compiler[c] = "none" /\ Engaged(c)
  BY <1>1 DEF FlashInv, FlashTypes, BuiltAsAsked, Engaged, Flash!Busy
<1>3. "torn" \notin flags' => AllFiles("whole") /\ \A d \in Workers : ~ Fetching(d)
  <2>1. SUFFICES ASSUME "torn" \notin flags'
                 PROVE  AllFiles("whole") /\ \A d \in Workers : ~ Fetching(d)
    OBVIOUS
  <2>2. \A d \in Workers : ~ Fetching(d)
    BY <1>1, <2>1 DEF Flash!Mixed, Fetching
  <2>3. CacheStages
    BY <1>2, <2>1 DEF FlashInv, OfficialWhole
  <2>4. QED
    BY <1>1, <2>2, <2>3 DEF CacheStages, AllFiles, Flash!Cached
<1>4. CASE job' = Flash!Ends(c, "error")
  <2>1. JobIs(c, "done", FALSE, "none", "error")
    BY <1>4, JobEnds, Zenon DEF FlashInv, Flash!Ends
  <2>2. ~ Given(c)' /\ ~ PastFetch(c)' /\ ~ AtPort(c)'
    BY <1>1, <1>2, <2>1 DEF JobIs, Given, PastFetch, AtPort
  <2>3. QED
    BY <1>1, <1>2, <2>1, <2>2, JobStep
<1>5. CASE job' = [job EXCEPT ![c].stage = "release", ![c].fs = (files["fs"] # "none")]
  <2>1. PICK fs :
           /\ job' = [job EXCEPT ![c].stage = "release", ![c].fs = fs]
           /\ files["fs"] # "none" => fs = TRUE
    BY <1>5
  <2>2. JobIs(c, "release", fs, job[c].image, job[c].told)
    BY <2>1 DEF FlashInv, FlashTypes, JobFields, JobIs
  <2>3. ~ AtPort(c)' /\ (Given(c)' => Given(c) /\ job'[c].image = job[c].image)
    BY <1>1, <1>2, <2>2 DEF JobIs, AtPort, Given
  <2>4. "torn" \notin flags' =>
           job'[c].fs = TRUE /\ AllFiles("whole") /\ \A d \in Workers : ~ Fetching(d)
    BY <1>3, <2>1, <2>2 DEF JobIs, AllFiles
  <2>5. "release" # "wipe" /\ "release" # "idle"
    OBVIOUS
  <2>6. QED
    BY <1>1, <1>2, <2>2, <2>3, <2>4, <2>5, JobStep
<1>6. QED
  BY <1>4, <1>5 DEF Flash!FetchHit

(* The keeper of the port is stopped, or systemctl refused.                *)
LEMMA ReleaseStep ==
  ASSUME FlashInv, NEW c \in Workers,
         \/ Flash!ReleaseSource(c) \/ Flash!ReleaseRnsd(c)
         \/ Flash!ReleaseScan(c) \/ Flash!ReleaseNothing(c)
  PROVE  FlashInv'
<1>1. PICK s \in {"wipe", "write"} :
         job' = [job EXCEPT ![c].stage = s] /\ (s = "wipe" => card = "rnode")
  BY DEF Flash!ReleaseSource, Flash!ReleaseRnsd, Flash!ReleaseScan, Flash!ReleaseNothing,
         Flash!Released
<1>2. /\ job[c].stage = "release" /\ flags \subseteq flags'
      /\ UNCHANGED << holder, samePath, card, fetcher, files, tools, compiler, asked, sketch,
                      artifact >>
  BY DEF Flash!ReleaseSource, Flash!ReleaseRnsd, Flash!ReleaseScan, Flash!ReleaseNothing,
         Flash!choices, Flash!compiling
<1>3. (open' => open) /\ (~ open' \/ ~ Flash!Matches \/ "systemctl" \in flags')
  <2>1. CASE Flash!ReleaseNothing(c)
    BY <2>1 DEF Flash!ReleaseNothing, Flash!Matches, FlashInv, OneClient
  <2>2. CASE open' = (open /\ ~ Flash!Matches)
    BY <2>2, Zenon
  <2>3. CASE flags' = flags \cup {"systemctl"} /\ UNCHANGED open
    BY <2>3
  <2>4. QED
    BY <2>1, <2>2, <2>3 DEF Flash!ReleaseSource, Flash!ReleaseRnsd, Flash!ReleaseScan
<1>4. JobIs(c, s, job[c].fs, job[c].image, job[c].told)
  BY <1>1, JobGoes DEF FlashInv
<1>5. /\ c \notin tools /\ tools \subseteq Workers /\ compiler[c] = "none"
      /\ Engaged(c) /\ PastFetch(c)
  BY <1>2 DEF FlashInv, FlashTypes, BuiltAsAsked, Engaged, Flash!Busy, PastFetch
<1>6. Given(c)' => Given(c) /\ job'[c].image = job[c].image
  BY <1>2, <1>4, <1>5 DEF JobIs, Given
<1>7. /\ card = "meshcore" => files["merged"] = "whole"
      /\ card = "meshtastic" /\ "torn" \notin flags' =>
            job'[c].fs = TRUE /\ AllFiles("whole") /\ \A d \in Workers : ~ Fetching(d)
  BY <1>2, <1>4, <1>5 DEF FlashInv, OfficialWhole, CacheStages, JobIs
<1>8. QED
  BY <1>1, <1>2, <1>3, <1>4, <1>5, <1>6, <1>7, JobStep

(* The tool is started on what the cache or the compiler left.             *)
LEMMA SpawnStep ==
  ASSUME FlashInv, NEW c \in Workers, Flash!Spawn(c)
  PROVE  FlashInv'
<1>1. /\ job[c].stage \in {"wipe", "write"} /\ c \notin tools /\ tools' = tools \cup {c}
      /\ flags' = flags \cup (IF Flash!Mixed(c) THEN {"torn"} ELSE {})
      /\ UNCHANGED << holder, samePath, card, open, fetcher, files, compiler, asked, sketch,
                      artifact >>
  BY DEF Flash!Spawn, Flash!choices, Flash!compiling
<1> DEFINE given == CASE card \in Flash!Official -> Flash!OfficialImage(c)
                      [] card \in Flash!Built -> Flash!BuiltImage
                      [] OTHER -> "whole"
<1>2. job' = [job EXCEPT ![c].image = given]
  BY DEF Flash!Spawn
<1>3. /\ flags \subseteq flags' /\ tools' \subseteq Workers /\ compiler[c] = "none"
      /\ Engaged(c) /\ AtPort(c)
      /\ job[c].stage = "wipe" => card = "rnode"
  BY <1>1 DEF FlashInv, FlashTypes, BuiltAsAsked, Engaged, Flash!Busy, AtPort
<1>4. ASSUME job[c].stage = "write"
      PROVE  /\ card = "meshcore" => given = "whole"
             /\ card = "meshtastic" => given = "whole" \/ "torn" \in flags'
             /\ card \in Flash!Built /\ asked[c] # "none" =>
                   given = asked[c] \/ "crossed" \in flags'
  <2>1. PastFetch(c)
    BY <1>4 DEF PastFetch
  <2>2. card = "meshcore" => given = "whole"
    BY <2>1 DEF FlashInv, OfficialWhole, Flash!OfficialImage, Flash!Official, Flash!Built
  <2>3. ASSUME card = "meshtastic", "torn" \notin flags'
        PROVE  given = "whole"
    <3>1. job[c].fs = TRUE /\ files["app"] = "whole" /\ files["fs"] = "whole"
      BY <1>3, <2>1, <2>3 DEF FlashInv, OfficialWhole, CacheStages, AllFiles
    <3>2. Flash!OfficialImage(c) = "whole"
      BY <2>3, <3>1 DEF Flash!OfficialImage
    <3>3. QED
      BY <2>3, <3>2 DEF Flash!Official, Flash!Built
  <2>4. ASSUME card \in Flash!Built, asked[c] # "none", "crossed" \notin flags'
        PROVE  given = asked[c]
    <3>1. artifact = asked[c] /\ sketch = asked[c]
      BY <1>3, <2>4 DEF FlashInv, BuiltAsAsked, OneCompiles
    <3>2. QED
      BY <2>4, <3>1 DEF Flash!BuiltImage, Flash!Official, Flash!Built
  <2>5. QED
    BY <2>2, <2>3, <2>4
<1> HIDE DEF given
<1>5. JobIs(c, job[c].stage, job[c].fs, given, job[c].told)
  BY <1>2 DEF FlashInv, FlashTypes, JobFields, JobIs
<1>6. PastFetch(c)' => PastFetch(c)
  BY <1>5 DEF JobIs, PastFetch
<1>7. /\ card = "meshcore" /\ PastFetch(c)' => files["merged"] = "whole"
      /\ card = "meshtastic" /\ PastFetch(c)' /\ "torn" \notin flags' =>
            job'[c].fs = TRUE /\ AllFiles("whole") /\ \A d \in Workers : ~ Fetching(d)
  BY <1>3, <1>5, <1>6 DEF FlashInv, OfficialWhole, CacheStages, JobIs
<1>8. job[c].stage = "write" => ImageRight(c)'
  BY <1>1, <1>4, <1>5 DEF JobIs, ImageRight
<1>9. job[c].stage = "wipe" => ImageRight(c)'
  BY <1>1, <1>3 DEF ImageRight, Flash!Built
<1>10. QED
  BY <1>1, <1>3, <1>5, <1>7, <1>8, <1>9, JobStep

(* The tool ends: its client has gone, or is told.                         *)
LEMMA ToolGone ==
  ASSUME FlashInv, NEW c \in Workers, c \in tools, tools' = tools \ {c},
         UNCHANGED << holder, samePath, card, open, fetcher, files, compiler, asked, sketch,
                      artifact, flags >>
  PROVE  /\ tools' \subseteq Workers /\ Engaged(c) /\ compiler[c] = "none"
         /\ c \notin tools' /\ flags \subseteq flags'
         /\ \A d \in Workers \ {c} : d \in tools' <=> d \in tools
BY DEF FlashInv, FlashTypes, BuiltAsAsked, Engaged

LEMMA ToldStep ==
  ASSUME FlashInv, NEW c \in Workers, c \in tools, tools' = tools \ {c},
         job[c].stage \in {"wipe", "write"},
         NEW ok \in BOOLEAN, job' = Flash!Told(c, ok), ok => job[c].stage = "write",
         UNCHANGED << holder, samePath, card, open, fetcher, files, compiler, asked, sketch,
                      artifact, flags >>
  PROVE  FlashInv'
<1>1. PICK s \in {"restart", "done"}, told \in {"success", "error"} :
         /\ (told = "success" => job[c].stage = "write")
         /\ job' = [job EXCEPT ![c] = [Flash!Idle EXCEPT !.stage = s, !.told = told,
                                                         !.image = job[c].image]]
  <2>1. CASE ok
    BY <2>1 DEF Flash!Told
  <2>2. CASE ~ ok
    BY <2>2 DEF Flash!Told
  <2>3. QED
    BY <2>1, <2>2
<1>2. JobIs(c, s, FALSE, job[c].image, told)
  BY <1>1, JobEnds, Zenon DEF FlashInv
<1>3. /\ ~ PastFetch(c)' /\ ~ AtPort(c)'
      /\ Given(c)' => Given(c) /\ job'[c].image = job[c].image
  BY <1>1, <1>2 DEF JobIs, PastFetch, AtPort, Given
<1>4. s \notin {"wipe", "idle"}
  BY <1>1
<1>5. QED
  BY <1>2, <1>3, <1>4, ToolGone, JobStep

LEMMA ToolEndsStep ==
  ASSUME FlashInv, NEW c \in Workers,
         Flash!ToolEnds(c) \/ Flash!InstallEnds(c) \/ Flash!WipeEnds(c)
  PROVE  FlashInv'
<1>1. /\ c \in tools /\ tools' = tools \ {c} /\ job[c].stage \in {"wipe", "write", "left"}
      /\ UNCHANGED << holder, samePath, card, open, fetcher, files, compiler, asked, sketch,
                      artifact, flags >>
  BY DEF Flash!ToolEnds, Flash!InstallEnds, Flash!WipeEnds, Flash!choices, Flash!compiling
<1>2. CASE job[c].stage = "left" /\ job' = job
  <2>1. JobIs(c, "left", job[c].fs, job[c].image, job[c].told)
    BY <1>2 DEF FlashInv, FlashTypes, JobIs
  <2>2. /\ ~ PastFetch(c)' /\ ~ AtPort(c)'
        /\ Given(c)' => Given(c) /\ job'[c].image = job[c].image
    BY <1>1, <1>2 DEF PastFetch, AtPort, Given
  <2>3. "left" \notin {"wipe", "idle"}
    OBVIOUS
  <2>4. QED
    BY <1>1, <2>1, <2>2, <2>3, ToolGone, JobStep
<1>3. CASE job[c].stage = "wipe" /\ job' = [job EXCEPT ![c].stage = "write"]
  <2>1. JobIs(c, "write", job[c].fs, job[c].image, job[c].told)
    BY <1>3, JobGoes DEF FlashInv
  <2>2. card = "rnode" /\ AtPort(c)
    BY <1>1, <1>3 DEF FlashInv, FlashTypes, AtPort
  <2>3. Given(c)' => Given(c) /\ job'[c].image = job[c].image
    BY <1>1, <2>1 DEF JobIs, Given
  <2>4. "write" \notin {"wipe", "idle"}
    OBVIOUS
  <2>5. QED
    BY <1>1, <2>1, <2>2, <2>3, <2>4, ToolGone, JobStep
<1>4. ASSUME NEW ok \in BOOLEAN, job' = Flash!Told(c, ok), job[c].stage = "write"
      PROVE  FlashInv'
  BY <1>1, <1>4, ToldStep
<1>5. CASE job[c].stage = "wipe" /\ job' = Flash!Told(c, FALSE)
  BY <1>1, <1>5, ToldStep
<1>6. QED
  BY <1>1, <1>2, <1>3, <1>4, <1>5 DEF Flash!ToolEnds, Flash!InstallEnds, Flash!WipeEnds

LEMMA RestartStep ==
  ASSUME FlashInv, NEW c \in Workers,
         Flash!RestartSource(c) \/ Flash!RestartRnsd(c) \/ Flash!RestartScan(c)
  PROVE  FlashInv'
<1>1. /\ job[c].stage = "restart" /\ job' = [job EXCEPT ![c].stage = "done"]
      /\ flags \subseteq flags'
      /\ UNCHANGED << holder, samePath, card, fetcher, files, tools, compiler, asked, sketch,
                      artifact >>
  BY DEF Flash!RestartSource, Flash!RestartRnsd, Flash!RestartScan, Flash!choices,
         Flash!compiling
<1>2. JobIs(c, "done", job[c].fs, job[c].image, job[c].told)
  BY <1>1, JobGoes DEF FlashInv
<1>3. /\ c \notin tools /\ tools \subseteq Workers /\ compiler[c] = "none" /\ Engaged(c)
  BY <1>1 DEF FlashInv, FlashTypes, BuiltAsAsked, Engaged, Flash!Busy
<1>4. /\ ~ PastFetch(c)' /\ ~ AtPort(c)'
      /\ Given(c)' => Given(c) /\ job'[c].image = job[c].image
  BY <1>1, <1>2, <1>3 DEF JobIs, PastFetch, AtPort, Given
<1>5. "done" \notin {"wipe", "idle"}
  OBVIOUS
<1>6. QED
  BY <1>1, <1>2, <1>3, <1>4, <1>5, JobStep

(* The client goes, or is told that the download failed.                   *)
LEMMA LeaveStep ==
  ASSUME FlashInv, NEW c \in Workers, Flash!Busy(c), NEW s \in {"left", "done"}, NEW told,
         told # "success", JobIs(c, s, FALSE, "none", told), s = "done" => c \notin tools,
         flags \subseteq flags',
         UNCHANGED << holder, samePath, card, open, fetcher, files, tools, compiler, asked,
                      sketch, artifact >>
  PROVE  FlashInv'
<1>1. /\ tools \subseteq Workers /\ compiler[c] = "none" /\ Engaged(c)
  BY DEF FlashInv, FlashTypes, BuiltAsAsked, Engaged, Flash!Busy
<1>2. ~ PastFetch(c)' /\ ~ Given(c)' /\ (AtPort(c)' => AtPort(c))
  BY DEF JobIs, PastFetch, AtPort, Given
<1>3. s \notin {"wipe", "idle"}
  OBVIOUS
<1>4. QED
  BY <1>1, <1>2, <1>3, JobStep

-----------------------------------------------------------------------------
(* A step of a fetch: what is to be shown is about the caches.             *)
LEMMA CacheStep ==
  ASSUME FlashInv, NEW c \in Workers, NEW stage, NEW fs, NEW image, NEW told,
         JobIs(c, stage, fs, image, told),
         \/ stage = job[c].stage /\ image = job[c].image /\ told = job[c].told
         \/ /\ job[c].stage = "fetch" /\ stage \in {"release", "done"}
            /\ told = "success" => job[c].told = "success" /\ image = job[c].image,
         UNCHANGED << holder, samePath, card, open, tools, compiler, asked, sketch, artifact >>,
         flags \subseteq flags', DOMAIN fetcher' = Workers, DOMAIN files' = DOMAIN files,
         files'["merged"] \in {files["merged"], "whole"},
         card = "meshcore" /\ PastFetch(c)' => files'["merged"] = "whole",
         \A d \in Workers : /\ fetcher'[d] = "temp" => card = "meshcore"
                            /\ Fetching(d)' => card = "meshtastic",
         "torn" \notin flags' => CacheStages'
  PROVE  FlashInv'
<1>1. /\ job'[c].stage = stage /\ job'[c].image = image /\ job'[c].told = told
      /\ \A d \in Workers \ {c} : job'[d] = job[d] /\ (d \in tools' <=> d \in tools)
  BY DEF JobIs
<1>2. job[c].stage = "fetch" => c \notin tools /\ compiler[c] = "none" /\ Engaged(c)
  BY DEF FlashInv, FlashTypes, BuiltAsAsked, Engaged, Flash!Busy
<1>3. FlashTypes'
  BY <1>2, TypesKept DEF FlashInv, FlashTypes
<1>4. OneClient'
  <2>1. (Engaged(c)' => Engaged(c)) /\ (AtPort(c)' => AtPort(c))
    BY <1>1, <1>2 DEF Engaged, AtPort, Flash!Busy
  <2>2. QED
    BY <1>1, <2>1, OneClientKept DEF FlashInv
<1>5. \A d \in Workers : Given(d)' => ImageRight(d)'
  <2>1. Given(c)' => Given(c) /\ job'[c].image = job[c].image
    BY <1>1, <1>2 DEF Given
  <2>2. QED
    BY <1>1, <2>1, ImagesKept DEF FlashInv
<1>6. OfficialWhole'
  <2>1. files'["merged"] \in {"none", "whole"}
    BY DEF FlashInv, OfficialWhole
  <2>2. \A d \in Workers : card' = "meshcore" /\ PastFetch(d)' => files'["merged"] = "whole"
    BY <1>1 DEF FlashInv, OfficialWhole, PastFetch
  <2>3. QED
    BY <1>5, <2>1, <2>2 DEF OfficialWhole, ImageRight
<1>7. BuiltAsAsked'
  <2>1. \A d \in Workers : job'[d].stage # "idle" => compiler'[d] = "none"
    BY <1>1, <1>2 DEF FlashInv, BuiltAsAsked
  <2>2. "crossed" \notin flags' => OneCompiles'
    BY DEF FlashInv, BuiltAsAsked, OneCompiles
  <2>3. QED
    BY <1>5, <2>1, <2>2 DEF BuiltAsAsked, ImageRight
<1>8. QED
  BY <1>3, <1>4, <1>6, <1>7 DEF FlashInv

LEMMA FetchMissStep ==
  ASSUME FlashInv, NEW c \in Workers, Flash!FetchMiss(c)
  PROVE  FlashInv'
<1>1. /\ job[c].stage = "fetch" /\ card = "meshtastic" /\ fetcher[c] = "none" /\ ~ Flash!Cached
      /\ UNCHANGED << holder, samePath, card, open, tools, compiler, asked, sketch, artifact >>
  BY DEF Flash!FetchMiss, Flash!choices, Flash!compiling
<1>2. CASE job' = Flash!Ends(c, "error") /\ UNCHANGED << fetcher, files, flags >>
  <2>1. JobIs(c, "done", FALSE, "none", "error")
    BY <1>2, JobEnds, Zenon DEF FlashInv, Flash!Ends
  <2>2. Flash!Busy(c) /\ c \notin tools /\ "error" # "success"
    BY <1>1 DEF FlashInv, FlashTypes, Flash!Busy
  <2>3. QED
    BY <1>1, <1>2, <2>1, <2>2, LeaveStep
<1>3. CASE /\ fetcher' = [fetcher EXCEPT ![c] = "meta"]
           /\ files' = [files EXCEPT !["meta"] = "cut"]
           /\ flags' = flags \cup (IF Flash!Mixed(c) THEN {"torn"} ELSE {})
           /\ UNCHANGED job
  <2>1. JobIs(c, job[c].stage, job[c].fs, job[c].image, job[c].told)
    BY <1>3 DEF FlashInv, FlashTypes, JobIs
  <2>2. /\ DOMAIN fetcher' = Workers /\ DOMAIN files' = DOMAIN files
        /\ fetcher'[c] = "meta" /\ \A d \in Workers \ {c} : fetcher'[d] = fetcher[d]
        /\ files'["merged"] = files["merged"] /\ files'["app"] = files["app"]
        /\ files'["fs"] = files["fs"] /\ flags \subseteq flags'
    BY <1>3 DEF FlashInv, FlashTypes
  <2>3. ASSUME "torn" \notin flags'
        PROVE  CacheStages'
    <3>1. \A d \in Workers : ~ Fetching(d)
      BY <1>1, <1>3, <2>3 DEF Flash!Mixed, Fetching
    <3>2. CacheStages
      BY <2>2, <2>3 DEF FlashInv, OfficialWhole
    <3>3. AllFiles("none")
      BY <1>1, <3>1, <3>2 DEF CacheStages, AllFiles, Flash!Cached
    <3>4. \A d \in Workers : ~ PastFetch(d)'
      BY <1>1, <1>3, <3>2, <3>3 DEF CacheStages, AllFiles, PastFetch
    <3>5. \A d \in Workers : Fetching(d)' => d = c
      BY <2>2, <3>1 DEF Fetching
    <3>6. QED
      BY <2>2, <3>3, <3>4, <3>5 DEF CacheStages, AllFiles, Fetching
  <2>4. \A d \in Workers : /\ fetcher'[d] = "temp" => card = "meshcore"
                           /\ Fetching(d)' => card = "meshtastic"
    BY <1>1, <2>2 DEF FlashInv, OfficialWhole, Fetching
  <2>5. QED
    BY <1>1, <2>1, <2>2, <2>3, <2>4, CacheStep
<1>4. QED
  BY <1>2, <1>3 DEF Flash!FetchMiss

LEMMA FetchWritesStep ==
  ASSUME FlashInv, NEW c \in Workers, Flash!FetchWrites(c)
  PROVE  FlashInv'
<1> DEFINE f == fetcher[c]
           n == Flash!Following[f]
           written == [files EXCEPT ![f] = IF Flash!Writing(f) = {c} THEN "whole" ELSE "cut"]
<1>1. /\ Fetching(c) /\ fetcher' = [fetcher EXCEPT ![c] = n]
      /\ files' = (IF n = "none" THEN written ELSE [written EXCEPT ![n] = "cut"])
      /\ job' = (IF n = "none" /\ job[c].stage = "fetch"
                 THEN [job EXCEPT ![c].stage = "release", ![c].fs = TRUE] ELSE job)
      /\ flags' = flags \cup (IF Flash!Mixed(c) THEN {"torn"} ELSE {})
      /\ UNCHANGED << holder, samePath, card, open, tools, compiler, asked, sketch, artifact >>
  BY DEF Flash!FetchWrites, Flash!choices, Flash!compiling, Fetching
<1>2. /\ card = "meshtastic" /\ flags \subseteq flags'
      /\ f \in {"meta", "app", "fs"} /\ n \in {"app", "fs", "none"}
      /\ f = "meta" <=> n = "app"
      /\ f = "app" <=> n = "fs"
  BY <1>1 DEF FlashInv, OfficialWhole, Fetching, Flash!Following
<1>3. /\ DOMAIN fetcher' = Workers /\ fetcher'[c] = n
      /\ \A d \in Workers \ {c} : fetcher'[d] = fetcher[d]
  BY <1>1 DEF FlashInv, FlashTypes
<1>4. /\ DOMAIN files' = DOMAIN files /\ files'["merged"] = files["merged"]
      /\ \A g \in {"meta", "app", "fs"} \ {f, n} : files'[g] = files[g]
      /\ Flash!Writing(f) = {c} => files'[f] = "whole"
  BY <1>1, <1>2 DEF FlashInv, FlashTypes
<1>5. ASSUME "torn" \notin flags'
      PROVE  /\ CacheStages /\ Flash!Writing(f) = {c}
             /\ \A d \in Workers \ {c} : ~ Fetching(d)
             /\ \A d \in Workers : ~ PastFetch(d)
  <2>1. \A d \in Workers \ {c} : ~ Fetching(d)
    BY <1>1, <1>5 DEF Flash!Mixed, Fetching
  <2>2. Flash!Writing(f) = {c}
    BY <1>2, <2>1 DEF Flash!Writing, Fetching
  <2>3. CacheStages
    BY <1>2, <1>5 DEF FlashInv, OfficialWhole
  <2>4. QED
    BY <1>1, <1>2, <2>1, <2>2, <2>3 DEF CacheStages
<1> HIDE DEF n, written
<1>6. ASSUME "torn" \notin flags', \A d \in Workers : PastFetch(d)' => d = c,
             PastFetch(c)' => job'[c].fs = TRUE /\ n = "none"
      PROVE  CacheStages'
  <2>1. files'[f] = "whole" /\ \A d \in Workers \ {c} : ~ Fetching(d)'
    BY <1>3, <1>4, <1>5, <1>6 DEF Fetching
  <2>2. CacheStages
    BY <1>5, <1>6
  <2>3. CASE n = "app"
    <3>1. files'["meta"] = "whole" /\ files'["fs"] = "none"
      BY <1>2, <1>4, <2>1, <2>2, <2>3 DEF CacheStages
    <3>2. QED
      BY <1>3, <1>6, <2>1, <2>3, <3>1 DEF CacheStages, Fetching
  <2>4. CASE n = "fs"
    <3>1. files'["meta"] = "whole" /\ files'["app"] = "whole"
      BY <1>2, <1>4, <2>1, <2>2, <2>4 DEF CacheStages
    <3>2. QED
      BY <1>3, <1>6, <2>1, <2>4, <3>1 DEF CacheStages, Fetching
  <2>5. CASE n = "none"
    <3>1. f = "fs"
      BY <1>2, <2>5
    <3>2. AllFiles("whole")'
      BY <1>4, <2>1, <2>2, <2>5, <3>1 DEF CacheStages, AllFiles
    <3>3. \A d \in Workers : ~ Fetching(d)'
      BY <1>3, <2>1, <2>5 DEF Fetching
    <3>4. \A d \in Workers : fetcher'[d] \notin {"meta", "app", "fs"}
      BY <3>3 DEF Fetching
    <3>5. QED
      BY <1>6, <3>2, <3>3, <3>4 DEF CacheStages
  <2>6. QED
    BY <1>2, <2>3, <2>4, <2>5
<1>7. \A d \in Workers : /\ fetcher'[d] = "temp" => card = "meshcore"
                         /\ Fetching(d)' => card = "meshtastic"
  BY <1>2, <1>3 DEF FlashInv, OfficialWhole, Fetching
<1>8. CASE job' = job
  <2>1. JobIs(c, job[c].stage, job[c].fs, job[c].image, job[c].told)
    BY <1>8 DEF FlashInv, FlashTypes, JobIs
  <2>2. "torn" \notin flags' => \A d \in Workers : ~ PastFetch(d)'
    BY <1>5, <1>8 DEF PastFetch
  <2>3. "torn" \notin flags' => CacheStages'
    BY <1>6, <2>2
  <2>4. QED
    BY <1>1, <1>2, <1>3, <1>4, <1>7, <2>1, <2>3, CacheStep
<1>9. CASE /\ n = "none" /\ job[c].stage = "fetch"
           /\ job' = [job EXCEPT ![c].stage = "release", ![c].fs = TRUE]
  <2>1. JobIs(c, "release", TRUE, job[c].image, job[c].told)
    BY <1>9 DEF FlashInv, FlashTypes, JobFields, JobIs
  <2>2. "torn" \notin flags' => \A d \in Workers : PastFetch(d)' => d = c
    BY <1>5, <2>1 DEF PastFetch, JobIs
  <2>3. job'[c].fs = TRUE
    BY <2>1 DEF JobIs
  <2>4. "torn" \notin flags' => CacheStages'
    BY <1>6, <1>9, <2>2, <2>3
  <2>5. QED
    BY <1>1, <1>2, <1>3, <1>4, <1>7, <1>9, <2>1, <2>4, CacheStep
<1>10. QED
  BY <1>1, <1>8, <1>9

(* The MeshCore cache has its own file, which is renamed into place.       *)
LEMMA FetchMergedStep ==
  ASSUME FlashInv, NEW c \in Workers, Flash!FetchMerged(c)
  PROVE  FlashInv'
<1>1. /\ card = "meshcore"
      /\ UNCHANGED << holder, samePath, card, open, tools, compiler, asked, sketch, artifact,
                      flags >>
  BY DEF Flash!FetchMerged, Flash!choices, Flash!compiling, FlashInv, OfficialWhole
<1>2. PICK g \in {"none", "temp"} :
         fetcher' = (IF fetcher[c] = g THEN fetcher ELSE [fetcher EXCEPT ![c] = g])
  BY DEF Flash!FetchMerged
<1>3. /\ DOMAIN fetcher' = Workers /\ \A d \in Workers \ {c} : fetcher'[d] = fetcher[d]
      /\ ~ Fetching(c) /\ fetcher'[c] \in {"none", "temp"}
  BY <1>2 DEF FlashInv, FlashTypes, Flash!FetchMerged, Fetching
<1>4. /\ DOMAIN files' = DOMAIN files /\ files'["merged"] \in {files["merged"], "whole"}
      /\ \A f \in {"meta", "app", "fs"} : files'[f] = files[f]
  BY DEF FlashInv, FlashTypes, Flash!FetchMerged
<1>5. \A d \in Workers : (Fetching(d)' <=> Fetching(d)) /\ ~ Fetching(d)
  BY <1>1, <1>3 DEF FlashInv, OfficialWhole, Fetching
<1>6. "torn" \notin flags' => CacheStages'
  <2>1. \A d \in Workers : fetcher'[d] \notin {"meta", "app", "fs"}
    BY <1>5 DEF Fetching
  <2>2. "torn" \notin flags => AllFiles("none") \/ AllFiles("whole")
    BY <1>5 DEF FlashInv, OfficialWhole, CacheStages
  <2>3. QED
    BY <1>1, <1>4, <1>5, <2>1, <2>2 DEF CacheStages, AllFiles
<1>7. \A d \in Workers : /\ fetcher'[d] = "temp" => card = "meshcore"
                         /\ Fetching(d)' => card = "meshtastic"
  BY <1>1, <1>5
<1>8. CASE job' = job
  <2>1. JobIs(c, job[c].stage, job[c].fs, job[c].image, job[c].told)
    BY <1>8 DEF FlashInv, FlashTypes, JobIs
  <2>2. PastFetch(c)' => files'["merged"] = "whole"
    BY <1>1, <1>4, <1>8 DEF FlashInv, OfficialWhole, PastFetch
  <2>3. QED
    BY <1>1, <1>3, <1>4, <1>6, <1>7, <2>1, <2>2, CacheStep
<1>9. CASE /\ job[c].stage = "fetch" /\ job' = [job EXCEPT ![c].stage = "release"]
           /\ files'["merged"] = "whole"
  <2>1. JobIs(c, "release", job[c].fs, job[c].image, job[c].told)
    BY <1>9, JobGoes DEF FlashInv
  <2>2. QED
    BY <1>1, <1>3, <1>4, <1>6, <1>7, <1>9, <2>1, CacheStep
<1>10. CASE job[c].stage = "fetch" /\ job' = Flash!Ends(c, "error")
  <2>1. JobIs(c, "done", FALSE, "none", "error")
    BY <1>10, JobEnds, Zenon DEF FlashInv, Flash!Ends
  <2>2. ~ PastFetch(c)' /\ "error" # "success"
    BY <2>1 DEF JobIs, PastFetch
  <2>3. QED
    BY <1>1, <1>3, <1>4, <1>6, <1>7, <1>10, <2>1, <2>2, CacheStep
<1>11. files["merged"] # "none" => files["merged"] = "whole"
  BY DEF FlashInv, OfficialWhole
<1>12. files' = [files EXCEPT !["merged"] = "whole"] => files'["merged"] = "whole"
  BY DEF FlashInv, FlashTypes
<1>13. QED
  BY <1>8, <1>9, <1>10, <1>11, <1>12 DEF Flash!FetchMerged

-----------------------------------------------------------------------------
(* A step of a compiler: what is to be shown is about the sketch.          *)
LEMMA CompileStep ==
  ASSUME FlashInv, flags \subseteq flags',
         UNCHANGED << holder, samePath, card, open, job, fetcher, files, tools >>,
         DOMAIN compiler' = Workers, DOMAIN asked' = Workers, BuiltAsAsked',
         flags' \subseteq flags \cup {"crossed"}
  PROVE  FlashInv'
<1>1. FlashTypes'
  BY DEF FlashInv, FlashTypes
<1>2. "overlap" \in flags' <=> "overlap" \in flags
  OBVIOUS
<1>3. "systemctl" \in flags' <=> "systemctl" \in flags
  OBVIOUS
<1>4. "torn" \in flags' <=> "torn" \in flags
  OBVIOUS
<1>5. OneClient'
  BY <1>2, <1>3 DEF FlashInv, OneClient, Engaged, AtPort, Flash!Busy, Flash!Matches
<1>6. OfficialWhole'
  BY <1>4 DEF FlashInv, OfficialWhole, CacheStages, Fetching, AllFiles, PastFetch, Given
<1>7. QED
  BY <1>1, <1>5, <1>6 DEF FlashInv

LEMMA RewrittenStep ==
  ASSUME FlashAssumption, FlashInv, NEW c \in Workers, Flash!Rewritten(c, "reading")
  PROVE  FlashInv'
<1>1. /\ job[c].stage = "idle" /\ asked[c] = "none"
      /\ compiler' = [compiler EXCEPT ![c] = "reading"]
      /\ flags' = flags \cup (IF \E d \in Workers \ {c} : asked[d] # "none"
                              THEN {"crossed"} ELSE {})
      /\ UNCHANGED << holder, samePath, card, open, job, fetcher, files, tools, artifact >>
  BY DEF Flash!Rewritten, Flash!choices
<1>2. PICK v \in Variants : asked' = [asked EXCEPT ![c] = v] /\ sketch' = v
  BY DEF Flash!Rewritten
<1>3. /\ DOMAIN compiler' = Workers /\ compiler'[c] = "reading"
      /\ DOMAIN asked' = Workers /\ asked'[c] = v /\ v # "none"
      /\ \A d \in Workers \ {c} : compiler'[d] = compiler[d] /\ asked'[d] = asked[d]
  BY <1>1, <1>2 DEF FlashInv, FlashTypes, FlashAssumption
<1>4. ~ Given(c)
  BY <1>1 DEF FlashInv, FlashTypes, Given
<1>5. ASSUME "crossed" \notin flags'
      PROVE  /\ OneCompiles'
             /\ \A d \in Workers : asked'[d] # "none" => d = c
  <2>1. \A d \in Workers \ {c} : asked[d] = "none"
    BY <1>1, <1>5
  <2>2. OneCompiles
    BY <1>1, <1>5 DEF FlashInv, BuiltAsAsked
  <2>3. QED
    BY <1>2, <1>3, <2>1, <2>2 DEF OneCompiles
<1>6. BuiltAsAsked'
  BY <1>1, <1>3, <1>4, <1>5 DEF FlashInv, BuiltAsAsked, Given
<1>7. QED
  BY <1>1, <1>3, <1>6, CompileStep

LEMMA CompilerStep ==
  ASSUME FlashAssumption, FlashInv, NEW c \in Workers,
         Flash!CompilerReads(c) \/ Flash!CompilerEnds(c)
  PROVE  FlashInv'
<1>1. /\ UNCHANGED << holder, samePath, card, open, job, fetcher, files, tools, asked, sketch >>
      /\ flags' \in {flags, flags \cup {"crossed"}}
      /\ compiler[c] # "none" /\ DOMAIN compiler' = Workers
      /\ \A d \in Workers \ {c} : compiler'[d] = compiler[d]
  BY DEF Flash!CompilerReads, Flash!CompilerEnds, Flash!choices, FlashAssumption, FlashInv,
         FlashTypes
<1>2. job[c].stage = "idle"
  BY <1>1 DEF FlashInv, BuiltAsAsked
<1>3. ASSUME "crossed" \notin flags'
      PROVE  OneCompiles'
  <2>1. "crossed" \notin flags /\ OneCompiles
    BY <1>1, <1>3 DEF FlashInv, BuiltAsAsked
  <2>2. /\ asked[c] # "none" /\ sketch = asked[c]
        /\ \A d \in Workers \ {c} : asked[d] = "none" /\ compiler[d] = "none"
    BY <1>1, <2>1 DEF OneCompiles
  <2>3. CASE Flash!CompilerReads(c)
    <3>1. compiler'[c] = asked[c]
      BY <2>2, <2>3 DEF Flash!CompilerReads, FlashInv, FlashTypes
    <3>2. QED
      BY <1>1, <2>2, <3>1 DEF OneCompiles
  <2>4. CASE Flash!CompilerEnds(c)
    <3>1. compiler[c] \in Variants /\ compiler'[c] = "none" /\ artifact' = compiler[c]
      BY <1>3, <2>4 DEF Flash!CompilerEnds, FlashInv, FlashTypes
    <3>2. compiler[c] = asked[c]
      BY <2>1, <2>2, <3>1 DEF OneCompiles, FlashAssumption
    <3>3. QED
      BY <1>1, <2>2, <3>1, <3>2 DEF OneCompiles
  <2>5. QED
    BY <2>3, <2>4
<1>4. BuiltAsAsked'
  <2>1. \A d \in Workers : job'[d].stage # "idle" => compiler'[d] = "none"
    BY <1>1, <1>2 DEF FlashInv, BuiltAsAsked
  <2>2. QED
    BY <1>1, <1>3, <2>1 DEF FlashInv, BuiltAsAsked, Given
<1>5. QED
  BY <1>1, <1>4, CompileStep DEF FlashInv, FlashTypes

(* A crash ends every request, fetch, tool and compiler.                   *)
LEMMA KillStep ==
  ASSUME FlashInv, Flash!Kill
  PROVE  FlashInv'
<1>1. /\ job' = [c \in Workers |-> IF Flash!Busy(c) THEN [Flash!Idle EXCEPT !.stage = "left"]
                                   ELSE job[c]]
      /\ fetcher' = [c \in Workers |-> "none"] /\ tools' = {}
      /\ compiler' = [c \in Workers |-> "none"]
      /\ UNCHANGED << holder, samePath, card, files, asked, sketch, artifact >>
  BY DEF Flash!Kill, Flash!choices
<1>2. /\ flags \subseteq flags'
      /\ "torn" \notin flags' => \A c \in Workers : ~ Fetching(c)
      /\ "crossed" \notin flags' => \A c \in Workers : compiler[c] = "none"
  BY DEF Flash!Kill, Fetching
<1>3. /\ DOMAIN job' = Workers
      /\ \A c \in Workers :
           /\ Flash!Busy(c) => /\ job'[c].stage = "left" /\ job'[c].told = "none"
                               /\ DOMAIN job'[c] = JobFields
           /\ ~ Flash!Busy(c) => job'[c] = job[c]
  BY <1>1 DEF Flash!Idle, JobFields
<1>4. \A c \in Workers :
         /\ job'[c].stage \in {"idle", "done", "left"} /\ ~ PastFetch(c)'
         /\ job'[c].stage = "idle" => job'[c].told = "none"
         /\ Given(c)' => Given(c) /\ job'[c] = job[c]
  BY <1>1, <1>3 DEF FlashInv, FlashTypes, Flash!Busy, PastFetch, Given
<1>5. FlashTypes'
  BY <1>1, <1>3, <1>4 DEF FlashInv, FlashTypes
<1>6. OneClient'
  <2>1. \A c \in Workers : ~ Engaged(c)' /\ ~ AtPort(c)'
    BY <1>1, <1>4 DEF Engaged, AtPort, Flash!Busy
  <2>2. QED
    BY <1>1, <2>1 DEF FlashInv, OneClient
<1>7. UNCHANGED << card, files, asked, sketch, artifact >>
  BY <1>1
<1>8. \A c \in Workers : Given(c)' => ImageRight(c)'
  <2>1. \A c \in Workers : Given(c) => ImageRight(c)
    BY DEF FlashInv, OfficialWhole, BuiltAsAsked, ImageRight
  <2>2. QED
    BY <1>2, <1>4, <1>7, <2>1 DEF ImageRight
<1>9. OfficialWhole'
  <2>1. \A c \in Workers : fetcher'[c] = "none" /\ ~ Fetching(c)'
    BY <1>1 DEF Fetching
  <2>2. "torn" \notin flags' => CacheStages'
    <3>1. "torn" \notin flags' => AllFiles("none") \/ AllFiles("whole")
      BY <1>2 DEF FlashInv, OfficialWhole, CacheStages
    <3>2. QED
      BY <1>4, <1>7, <2>1, <3>1 DEF CacheStages, AllFiles
  <2>3. files'["merged"] \in {"none", "whole"}
    BY <1>7 DEF FlashInv, OfficialWhole
  <2>4. QED
    BY <1>4, <1>8, <2>1, <2>2, <2>3 DEF OfficialWhole, ImageRight
<1>10. BuiltAsAsked'
  <2>1. \A c \in Workers : compiler'[c] = "none"
    BY <1>1
  <2>2. "crossed" \notin flags' => OneCompiles'
    BY <1>2, <1>7, <2>1 DEF FlashInv, BuiltAsAsked, OneCompiles
  <2>3. QED
    BY <1>8, <2>1, <2>2 DEF BuiltAsAsked, ImageRight
<1>11. QED
  BY <1>5, <1>6, <1>9, <1>10 DEF FlashInv

LEMMA FlashNextInv ==
  ASSUME FlashAssumption, FlashInv, [Flash!Next]_flashVars
  PROVE  FlashInv'
<1>1. CASE UNCHANGED flashVars
  <2>1. UNCHANGED << holder, samePath, card, open, job, fetcher, files, tools, compiler, asked,
                     sketch, artifact, flags >>
    BY <1>1 DEF flashVars
  <2>2. FlashTypes' /\ OneClient'
    BY <2>1 DEF FlashInv, FlashTypes, OneClient, Engaged, AtPort, Flash!Busy, Flash!Matches
  <2>3. OfficialWhole'
    BY <2>1 DEF FlashInv, OfficialWhole, CacheStages, Fetching, AllFiles, PastFetch, Given
  <2>4. BuiltAsAsked'
    BY <2>1 DEF FlashInv, BuiltAsAsked, OneCompiles, Given
  <2>5. QED
    BY <2>2, <2>3, <2>4 DEF FlashInv
<1>2. ASSUME NEW c \in Workers, Flash!Leave(c)
      PROVE  FlashInv'
  <2>1. JobIs(c, "left", FALSE, "none", "none")
    BY <1>2, JobEnds, Zenon DEF Flash!Leave, FlashInv
  <2>2. /\ flags \subseteq flags' /\ Flash!Busy(c)
        /\ UNCHANGED << holder, samePath, card, open, fetcher, files, tools, compiler, asked,
                        sketch, artifact >>
    BY <1>2 DEF Flash!Leave, Flash!choices, Flash!compiling
  <2>3. "none" # "success" /\ "left" # "done"
    OBVIOUS
  <2>4. QED
    BY <2>1, <2>2, <2>3, LeaveStep
<1>3. ASSUME NEW c \in Workers,
             Flash!CompileBand(c) \/ Flash!CompileCapcodes(c) \/ Flash!CompileNode(c)
      PROVE  FlashInv'
  BY <1>3, RewrittenStep DEF Flash!CompileBand, Flash!CompileCapcodes, Flash!CompileNode
<1>4. ASSUME NEW c \in Workers, Flash!Work(c)
      PROVE  FlashInv'
  BY <1>4, FetchHitStep, FetchMissStep, FetchWritesStep, FetchMergedStep, ReleaseStep, SpawnStep,
     ToolEndsStep, RestartStep DEF Flash!Work
<1>5. QED
  BY <1>1, <1>2, <1>3, <1>4, AskStep, CompilerStep, KillStep DEF Flash!Next

LEMMA FlashInvIsSafe ==
  FlashInv => Flash!FlashedWhole /\ Flash!HolderReleased /\ Flash!FlashedAsAsked
<1> SUFFICES ASSUME FlashInv
             PROVE  Flash!FlashedWhole /\ Flash!HolderReleased /\ Flash!FlashedAsAsked
  OBVIOUS
<1>1. Flash!FlashedWhole
  BY DEF FlashInv, OfficialWhole, Given, Flash!FlashedWhole
<1>2. Flash!FlashedAsAsked
  BY DEF FlashInv, BuiltAsAsked, Given, Flash!FlashedAsAsked
<1>3. ASSUME tools # {}, open, holder # "nobody", "overlap" \notin flags,
             "systemctl" \notin flags, ~ (card = "rfenv" /\ ~ samePath)
      PROVE  FALSE
  <2>1. PICK c \in Workers : AtPort(c)
    BY <1>3 DEF FlashInv, FlashTypes, AtPort
  <2>2. Flash!Matches
    BY <1>3 DEF Flash!Matches
  <2>3. QED
    BY <1>3, <2>1, <2>2 DEF FlashInv, OneClient
<1>4. QED
  BY <1>1, <1>2, <1>3 DEF Flash!HolderReleased

-----------------------------------------------------------------------------
(* The rollback pointer names a commit that has run, and the service runs  *)
(* what was asked for and prepared for it; a restore destroys nothing      *)
(* without a copy and leaves the archive and nothing else; a flashed       *)
(* release is whole, who keeps the port is stopped for the tool, a sketch  *)
(* is flashed as it was compiled for: each but for the exceptions that     *)
(* FilesSafe names.  For any branches, requests, clients, variants and     *)
(* crashes.                                                                *)
THEOREM FilesAreSafe == Spec => []FilesSafe
<1> USE UpdateAssumption, FlashAssumption
<1> DEFINE Kept == /\ part = "update" => UpdateInv
                   /\ part = "backup" => BackupInv
                   /\ part = "flash" => FlashInv
<1>1. Init => Kept
  BY EachInit, UpdateInitInv, BackupInitInv, FlashInitInv
<1>2. Kept /\ [Next]_vars => Kept'
  <2> SUFFICES ASSUME Kept, [Next]_vars
               PROVE  Kept'
    OBVIOUS
  <2>1. part = "update" => UpdateInv'
    BY UpdateAlone, UpdateNextInv
  <2>2. part = "backup" => BackupInv'
    BY BackupAlone, BackupNextInv
  <2>3. part = "flash" => FlashInv'
    BY FlashAlone, FlashNextInv
  <2>4. part' = part
    BY FlashAlone
  <2>5. QED
    BY <2>1, <2>2, <2>3, <2>4
<1>3. Kept => FilesSafe
  BY UpdateInvIsSafe, BackupInvIsSafe, FlashInvIsSafe DEF FilesSafe
<1>4. QED
  BY <1>1, <1>2, <1>3, PTL DEF Spec

-----------------------------------------------------------------------------
(***************************************************************************)
(* The companion, with one client of the dashboard.  One request at most   *)
(* is under way, one task at most is alive, and its reference names it: so *)
(* whoever cancels by reference leaves nothing behind, and whoever takes   *)
(* the port finds it free.                                                 *)
(***************************************************************************)
Live(s) == at[s] # "free"
NoTask == \A s \in Companion!Slots : ~ Live(s)

CompanionTypes ==
    /\ DOMAIN at = Companion!Slots /\ DOMAIN kind = Companion!Slots
    /\ DOMAIN request = Companion!Clients

OneRequest == \A c, d \in Companion!Clients : request[c] # "idle" /\ request[d] # "idle" => c = d

(* Both references are to a task that is alive, or to none.                *)
OneTask ==
    /\ \A s, u \in Companion!Slots : Live(s) /\ Live(u) => s = u
    /\ healthTask # 0 => /\ healthTask \in Companion!Slots
                         /\ Live(healthTask) /\ kind[healthTask] = "health"
    /\ reconnectTask # 0 => /\ reconnectTask \in Companion!Slots
                            /\ Live(reconnectTask) /\ kind[reconnectTask] = "reconnect"
    /\ \A s \in Companion!Slots : Live(s) =>
          \/ kind[s] = "health" /\ healthTask = s
          \/ kind[s] = "reconnect" /\ reconnectTask = s

(* The flag is up exactly while the task is inside _reconnect(), and only  *)
(* a health loop finds the companion connected at any time.                *)
FlagOfTask ==
    /\ busy => \E s \in Companion!Slots : at[s] \in Companion!Reconnecting
    /\ \A s \in Companion!Slots :
         /\ at[s] \in Companion!Reconnecting => busy
         /\ Live(s) /\ kind[s] = "reconnect" => at[s] \in {"new"} \cup Companion!Reconnecting
         /\ at[s] \in {"asleep", "probe"} => kind[s] = "health" /\ connected
         /\ at[s] = "new" => /\ kind[s] = "reconnect" /\ ~ connected
                             /\ \A c \in Companion!Clients : request[c] # "command"
         /\ at[s] \in {"closing", "backoff", "pulse", "open"} => ~ connected

(* Where a request, or the service's start and stop, has cancelled both    *)
(* tasks and created none.                                                 *)
TasksGone == Companion!HoldsPort \cup {"detach_reconnect", "detach_flag", "detach_close",
                                     "stop_close", "off", "stopped"}

RequestsMeet ==
    \A c \in Companion!Clients :
        /\ request[c] \in TasksGone => NoTask
        /\ request[c] = "stop_health" => reconnectTask = 0
        /\ request[c] \in {"stop_reconnect", "stop_health", "stop_close", "flash", "off", "stopped"}
              => ~ running
        /\ request[c] \in Companion!Exclusive \cup
                {"detach_close", "stop_close", "flash", "start_open", "off", "stopped"} => ~ connected
        /\ request[c] = "start_fetch" => connected
        /\ request[c] \in {"flash", "off", "stopped"} => ~ own

CompanionInv ==
    /\ CompanionTypes /\ OneRequest /\ OneTask /\ FlagOfTask /\ RequestsMeet
    /\ Companion!Supervised

(* The dashboard has one client, so one request at a time.                 *)
OneOperator == \A a, b \in Operators : a = b

(* A task is created where none is alive, in a slot of its own.            *)
LEMMA NewSlotIsFree ==
  ASSUME MaxTasks \in Nat, NoTask, Companion!Free # {}
  PROVE  Companion!NewSlot \in Companion!Slots
<1>1. 1 \in Companion!Free /\ \A u \in Companion!Free : 1 <= u
  BY DEF NoTask, Live, Companion!Free, Companion!Slots
<1>2. QED
  BY <1>1 DEF Companion!NewSlot, Companion!Free

LEMMA NewReconnect ==
  ASSUME MaxTasks \in Nat, CompanionTypes, OneTask, NoTask, Companion!CreateReconnect
  PROVE  /\ OneTask' /\ DOMAIN at' = Companion!Slots /\ DOMAIN kind' = Companion!Slots
         /\ \E n \in Companion!Slots :
              /\ at'[n] = "new" /\ kind'[n] = "reconnect"
              /\ \A u \in Companion!Slots \ {n} : at'[u] = "free"
<1> DEFINE n == Companion!NewSlot
<1>1. /\ n \in Companion!Slots /\ reconnectTask' = n /\ healthTask' = healthTask
      /\ kind' = [kind EXCEPT ![n] = "reconnect"] /\ at' = [at EXCEPT ![n] = "new"]
  BY NewSlotIsFree DEF Companion!CreateReconnect
<1> HIDE DEF n
<1>2. QED
  BY <1>1 DEF CompanionTypes, OneTask, NoTask, Live, Companion!Slots

LEMMA NewHealth ==
  ASSUME MaxTasks \in Nat, CompanionTypes, OneTask, NoTask, Companion!CreateHealth
  PROVE  /\ OneTask' /\ DOMAIN at' = Companion!Slots /\ DOMAIN kind' = Companion!Slots
         /\ \E n \in Companion!Slots :
              /\ at'[n] = "asleep" /\ kind'[n] = "health"
              /\ \A u \in Companion!Slots \ {n} : at'[u] = "free"
<1> DEFINE n == Companion!NewSlot
<1>1. /\ n \in Companion!Slots /\ healthTask' = n /\ reconnectTask' = reconnectTask
      /\ kind' = [kind EXCEPT ![n] = "health"] /\ at' = [at EXCEPT ![n] = "asleep"]
  BY NewSlotIsFree DEF Companion!CreateHealth
<1> HIDE DEF n
<1>2. QED
  BY <1>1 DEF CompanionTypes, OneTask, NoTask, Live, Companion!Slots

(* One lemma for each action, of a task and of a request.                  *)
LEMMA ReconnectBeginsKeepsInv ==
  ASSUME CompanionInv, MaxTasks \in Nat, NEW s \in Companion!Slots, Companion!ReconnectBegins(s)
  PROVE  CompanionInv'
<1> USE DEF Companion!ReconnectBegins, Companion!Finish, Companion!Forget, Companion!link,
            Companion!Move, Companion!world, CompanionTypes, Live, NoTask, TasksGone,
            Companion!Slots, Companion!Clients, Companion!Reconnecting, Companion!Exclusive,
            Companion!HoldsPort
<1>1. CompanionTypes' /\ OneRequest'
  BY DEF CompanionInv, OneTask, OneRequest, RequestsMeet
<1>2. OneTask'
  BY DEF CompanionInv, OneTask, FlagOfTask, RequestsMeet, OneRequest
<1>3. FlagOfTask'
  BY DEF CompanionInv, OneTask, FlagOfTask, RequestsMeet, OneRequest
<1>4. RequestsMeet'
  BY DEF CompanionInv, OneTask, FlagOfTask, RequestsMeet, OneRequest
<1>5. Companion!Supervised'
  BY DEF CompanionInv, OneTask, FlagOfTask, RequestsMeet, Companion!Supervised
<1>6. QED
  BY <1>1, <1>2, <1>3, <1>4, <1>5 DEF CompanionInv

LEMMA DisconnectedKeepsInv ==
  ASSUME CompanionInv, MaxTasks \in Nat, NEW s \in Companion!Slots, Companion!Disconnected(s)
  PROVE  CompanionInv'
<1> USE DEF Companion!Disconnected, Companion!Move, Companion!Returned, Companion!Finish,
            Companion!Forget, Companion!world, CompanionTypes, Live, NoTask, TasksGone,
            Companion!Slots, Companion!Clients, Companion!Reconnecting, Companion!Exclusive,
            Companion!HoldsPort
<1>1. CompanionTypes' /\ OneRequest'
  BY DEF CompanionInv, OneTask, OneRequest, RequestsMeet
<1>2. OneTask'
  BY DEF CompanionInv, OneTask, FlagOfTask, RequestsMeet, OneRequest
<1>3. FlagOfTask'
  BY DEF CompanionInv, OneTask, FlagOfTask, RequestsMeet, OneRequest
<1>4. RequestsMeet'
  BY DEF CompanionInv, OneTask, FlagOfTask, RequestsMeet, OneRequest
<1>5. Companion!Supervised'
  BY DEF CompanionInv, OneTask, FlagOfTask, RequestsMeet, Companion!Supervised
<1>6. QED
  BY <1>1, <1>2, <1>3, <1>4, <1>5 DEF CompanionInv

LEMMA BackoffOverKeepsInv ==
  ASSUME CompanionInv, MaxTasks \in Nat, NEW s \in Companion!Slots, Companion!BackoffOver(s)
  PROVE  CompanionInv'
<1> USE DEF Companion!BackoffOver, Companion!Move, Companion!Returned, Companion!Finish,
            Companion!Forget, Companion!link, Companion!world, CompanionTypes, Live, NoTask,
            TasksGone, Companion!Slots, Companion!Clients, Companion!Reconnecting,
            Companion!Exclusive, Companion!HoldsPort
<1>1. CompanionTypes' /\ OneRequest'
  BY DEF CompanionInv, OneTask, OneRequest, RequestsMeet
<1>2. OneTask'
  BY DEF CompanionInv, OneTask, FlagOfTask, RequestsMeet, OneRequest
<1>3. FlagOfTask'
  BY DEF CompanionInv, OneTask, FlagOfTask, RequestsMeet, OneRequest
<1>4. RequestsMeet'
  BY DEF CompanionInv, OneTask, FlagOfTask, RequestsMeet, OneRequest
<1>5. Companion!Supervised'
  BY DEF CompanionInv, OneTask, FlagOfTask, RequestsMeet, Companion!Supervised
<1>6. QED
  BY <1>1, <1>2, <1>3, <1>4, <1>5 DEF CompanionInv

LEMMA PulseKeepsInv ==
  ASSUME CompanionInv, MaxTasks \in Nat, NEW s \in Companion!Slots, Companion!Pulse(s)
  PROVE  CompanionInv'
BY DEF Companion!Pulse, Companion!Move, Companion!link, CompanionTypes, Live, NoTask, TasksGone,
       Companion!Slots, Companion!Clients, Companion!Reconnecting, Companion!Exclusive,
       Companion!HoldsPort, CompanionInv, OneRequest, OneTask, FlagOfTask, RequestsMeet,
       Companion!Supervised

LEMMA OpenedKeepsInv ==
  ASSUME CompanionInv, MaxTasks \in Nat, NEW s \in Companion!Slots, Companion!Opened(s)
  PROVE  CompanionInv'
BY DEF Companion!Opened, Companion!HandleReplaced, Companion!Move, Companion!world,
       CompanionTypes, Live, NoTask, TasksGone, Companion!Slots, Companion!Clients,
       Companion!Reconnecting, Companion!Exclusive, Companion!HoldsPort, CompanionInv,
       OneRequest, OneTask, FlagOfTask, RequestsMeet, Companion!Supervised

LEMMA OpenFailsKeepsInv ==
  ASSUME CompanionInv, MaxTasks \in Nat, NEW s \in Companion!Slots, Companion!OpenFails(s)
  PROVE  CompanionInv'
<1> USE DEF Companion!OpenFails, Companion!HandleReplaced, Companion!Move, Companion!Returned,
            Companion!Finish, Companion!Forget, Companion!world, CompanionTypes, Live, NoTask,
            TasksGone, Companion!Slots, Companion!Clients, Companion!Reconnecting,
            Companion!Exclusive, Companion!HoldsPort
<1>1. CompanionTypes' /\ OneRequest'
  BY DEF CompanionInv, OneTask, OneRequest, RequestsMeet
<1>2. OneTask'
  BY DEF CompanionInv, OneTask, FlagOfTask, RequestsMeet, OneRequest
<1>3. FlagOfTask'
  BY DEF CompanionInv, OneTask, FlagOfTask, RequestsMeet, OneRequest
<1>4. RequestsMeet'
  BY DEF CompanionInv, OneTask, FlagOfTask, RequestsMeet, OneRequest
<1>5. Companion!Supervised'
  BY DEF CompanionInv, OneTask, FlagOfTask, RequestsMeet, Companion!Supervised
<1>6. QED
  BY <1>1, <1>2, <1>3, <1>4, <1>5 DEF CompanionInv

LEMMA FetchedKeepsInv ==
  ASSUME CompanionInv, MaxTasks \in Nat, NEW s \in Companion!Slots, Companion!Fetched(s)
  PROVE  CompanionInv'
<1> USE DEF Companion!Fetched, Companion!Returned, Companion!Finish, Companion!Forget,
            Companion!Move, Companion!link, Companion!world, CompanionTypes, Live, NoTask,
            TasksGone, Companion!Slots, Companion!Clients, Companion!Reconnecting,
            Companion!Exclusive, Companion!HoldsPort
<1>1. CompanionTypes' /\ OneRequest'
  BY DEF CompanionInv, OneTask, OneRequest, RequestsMeet
<1>2. OneTask'
  BY DEF CompanionInv, OneTask, FlagOfTask, RequestsMeet, OneRequest
<1>3. FlagOfTask'
  BY DEF CompanionInv, OneTask, FlagOfTask, RequestsMeet, OneRequest
<1>4. RequestsMeet'
  BY DEF CompanionInv, OneTask, FlagOfTask, RequestsMeet, OneRequest
<1>5. Companion!Supervised'
  BY DEF CompanionInv, OneTask, FlagOfTask, RequestsMeet, Companion!Supervised
<1>6. QED
  BY <1>1, <1>2, <1>3, <1>4, <1>5 DEF CompanionInv

LEMMA FetchFailsKeepsInv ==
  ASSUME CompanionInv, MaxTasks \in Nat, NEW s \in Companion!Slots, Companion!FetchFails(s)
  PROVE  CompanionInv'
<1> USE DEF Companion!FetchFails, Companion!Move, Companion!Returned, Companion!Finish,
            Companion!Forget, Companion!world, CompanionTypes, Live, NoTask, TasksGone,
            Companion!Slots, Companion!Clients, Companion!Reconnecting, Companion!Exclusive,
            Companion!HoldsPort
<1>1. CompanionTypes' /\ OneRequest'
  BY DEF CompanionInv, OneTask, OneRequest, RequestsMeet
<1>2. OneTask'
  BY DEF CompanionInv, OneTask, FlagOfTask, RequestsMeet, OneRequest
<1>3. FlagOfTask'
  BY DEF CompanionInv, OneTask, FlagOfTask, RequestsMeet, OneRequest
<1>4. RequestsMeet'
  BY DEF CompanionInv, OneTask, FlagOfTask, RequestsMeet, OneRequest
<1>5. Companion!Supervised'
  BY DEF CompanionInv, OneTask, FlagOfTask, RequestsMeet, Companion!Supervised
<1>6. QED
  BY <1>1, <1>2, <1>3, <1>4, <1>5 DEF CompanionInv

LEMMA IntervalOverKeepsInv ==
  ASSUME CompanionInv, MaxTasks \in Nat, NEW s \in Companion!Slots, Companion!IntervalOver(s)
  PROVE  CompanionInv'
BY DEF Companion!IntervalOver, Companion!Finish, Companion!Forget, Companion!HealthSettled,
       Companion!LoopsOn, Companion!Move, Companion!link, Companion!world, CompanionTypes, Live,
       NoTask, TasksGone, Companion!Slots, Companion!Clients, Companion!Reconnecting,
       Companion!Exclusive, Companion!HoldsPort, CompanionInv, OneRequest, OneTask, FlagOfTask,
       RequestsMeet, Companion!Supervised

LEMMA ProbeAnsweredKeepsInv ==
  ASSUME CompanionInv, MaxTasks \in Nat, NEW s \in Companion!Slots, Companion!ProbeAnswered(s)
  PROVE  CompanionInv'
BY DEF Companion!ProbeAnswered, Companion!HealthSettled, Companion!LoopsOn, Companion!Forget,
       Companion!link, Companion!world, CompanionTypes, Live, NoTask, TasksGone,
       Companion!Slots, Companion!Clients, Companion!Reconnecting, Companion!Exclusive,
       Companion!HoldsPort, CompanionInv, OneRequest, OneTask, FlagOfTask, RequestsMeet,
       Companion!Supervised

LEMMA ProbeMissedKeepsInv ==
  ASSUME CompanionInv, MaxTasks \in Nat, NEW s \in Companion!Slots, Companion!ProbeMissed(s)
  PROVE  CompanionInv'
<1> USE DEF Companion!ProbeMissed, Companion!HealthSettled, Companion!LoopsOn, Companion!Forget,
            Companion!world, CompanionTypes, Live, NoTask, TasksGone, Companion!Slots,
            Companion!Clients, Companion!Reconnecting, Companion!Exclusive, Companion!HoldsPort
<1>1. CompanionTypes' /\ OneRequest'
  BY DEF CompanionInv, OneTask, OneRequest, RequestsMeet
<1>2. OneTask'
  BY DEF CompanionInv, OneTask, FlagOfTask, RequestsMeet, OneRequest
<1>3. FlagOfTask'
  BY DEF CompanionInv, OneTask, FlagOfTask, RequestsMeet, OneRequest
<1>4. RequestsMeet'
  BY DEF CompanionInv, OneTask, FlagOfTask, RequestsMeet, OneRequest
<1>5. Companion!Supervised'
  BY DEF CompanionInv, OneTask, FlagOfTask, RequestsMeet, Companion!Supervised
<1>6. QED
  BY <1>1, <1>2, <1>3, <1>4, <1>5 DEF CompanionInv

LEMMA CommandAnsweredKeepsInv ==
  ASSUME CompanionInv, MaxTasks \in Nat, NEW c \in Companion!Clients, Companion!CommandAnswered(c)
  PROVE  CompanionInv'
BY DEF Companion!CommandAnswered, Companion!Goto, Companion!link, Companion!tasks,
       Companion!world, CompanionTypes, Live, NoTask, TasksGone, Companion!Slots,
       Companion!Clients, Companion!Reconnecting, Companion!Exclusive, Companion!HoldsPort,
       CompanionInv, OneRequest, OneTask, FlagOfTask, RequestsMeet, Companion!Supervised

LEMMA DetachReconnectKeepsInv ==
  ASSUME CompanionInv, MaxTasks \in Nat, NEW c \in Companion!Clients, Companion!DetachReconnect(c)
  PROVE  CompanionInv'
BY DEF Companion!DetachReconnect, Companion!Cancel, Companion!tasks, Companion!Finish,
       Companion!Forget, Companion!Goto, Companion!link, Companion!world, CompanionTypes, Live,
       NoTask, TasksGone, Companion!Slots, Companion!Clients, Companion!Reconnecting,
       Companion!Exclusive, Companion!HoldsPort, CompanionInv, OneRequest, OneTask, FlagOfTask,
       RequestsMeet, Companion!Supervised

LEMMA DetachFlagKeepsInv ==
  ASSUME CompanionInv, MaxTasks \in Nat, NEW c \in Companion!Clients, Companion!DetachFlag(c)
  PROVE  CompanionInv'
<1> USE DEF Companion!DetachFlag, Companion!Goto, Companion!tasks, Companion!world,
            CompanionTypes, Live, NoTask, TasksGone, Companion!Slots, Companion!Clients,
            Companion!Reconnecting, Companion!Exclusive, Companion!HoldsPort
<1>1. CompanionTypes' /\ OneRequest'
  BY DEF CompanionInv, OneTask, OneRequest, RequestsMeet
<1>2. OneTask'
  BY DEF CompanionInv, OneTask, FlagOfTask, RequestsMeet, OneRequest
<1>3. FlagOfTask'
  BY DEF CompanionInv, OneTask, FlagOfTask, RequestsMeet, OneRequest
<1>4. RequestsMeet'
  BY DEF CompanionInv, OneTask, FlagOfTask, RequestsMeet, OneRequest
<1>5. Companion!Supervised'
  BY DEF CompanionInv, OneTask, FlagOfTask, RequestsMeet, Companion!Supervised
<1>6. QED
  BY <1>1, <1>2, <1>3, <1>4, <1>5 DEF CompanionInv

LEMMA DetachedKeepsInv ==
  ASSUME CompanionInv, MaxTasks \in Nat, NEW c \in Companion!Clients, Companion!Detached(c)
  PROVE  CompanionInv'
<1> USE DEF Companion!Detached, Companion!Goto, Companion!tasks, Companion!world,
            CompanionTypes, Live, NoTask, TasksGone, Companion!Slots, Companion!Clients,
            Companion!Reconnecting, Companion!Exclusive, Companion!HoldsPort
<1>1. CompanionTypes' /\ OneRequest'
  BY DEF CompanionInv, OneTask, OneRequest, RequestsMeet
<1>2. OneTask'
  BY DEF CompanionInv, OneTask, FlagOfTask, RequestsMeet, OneRequest
<1>3. FlagOfTask'
  BY DEF CompanionInv, OneTask, FlagOfTask, RequestsMeet, OneRequest
<1>4. RequestsMeet'
  BY DEF CompanionInv, OneTask, FlagOfTask, RequestsMeet, OneRequest
<1>5. Companion!Supervised'
  BY DEF CompanionInv, OneTask, FlagOfTask, RequestsMeet, Companion!Supervised
<1>6. QED
  BY <1>1, <1>2, <1>3, <1>4, <1>5 DEF CompanionInv

LEMMA ApplyExclusiveKeepsInv ==
  ASSUME CompanionInv, MaxTasks \in Nat, NEW c \in Companion!Clients, Companion!ApplyExclusive(c)
  PROVE  CompanionInv'
BY DEF Companion!ApplyExclusive, Companion!ExclusiveStep, Companion!Goto, Companion!link,
       Companion!tasks, CompanionTypes, Live, NoTask, TasksGone, Companion!Slots,
       Companion!Clients, Companion!Reconnecting, Companion!Exclusive, Companion!HoldsPort,
       CompanionInv, OneRequest, OneTask, FlagOfTask, RequestsMeet, Companion!Supervised

LEMMA ReattachKeepsInv ==
  ASSUME CompanionInv, MaxTasks \in Nat, NEW c \in Companion!Clients, Companion!Reattach(c)
  PROVE  CompanionInv'
<1> USE DEF Companion!Reattach, Companion!tasks, Companion!Goto, Companion!link,
            Companion!world, CompanionTypes, Live, NoTask, TasksGone, Companion!Slots,
            Companion!Clients, Companion!Reconnecting, Companion!Exclusive, Companion!HoldsPort
<1>1. CompanionTypes' /\ OneRequest'
  BY NewReconnect DEF CompanionInv, OneTask, OneRequest, RequestsMeet
<1>2. OneTask'
  BY NewReconnect DEF CompanionInv, OneTask, FlagOfTask, RequestsMeet, OneRequest
<1>3. FlagOfTask'
  BY NewReconnect DEF CompanionInv, OneTask, FlagOfTask, RequestsMeet, OneRequest
<1>4. RequestsMeet'
  BY NewReconnect DEF CompanionInv, OneTask, FlagOfTask, RequestsMeet, OneRequest
<1>5. Companion!Supervised'
  BY NewReconnect DEF CompanionInv, OneTask, FlagOfTask, RequestsMeet, Companion!Supervised
<1>6. QED
  BY <1>1, <1>2, <1>3, <1>4, <1>5 DEF CompanionInv

LEMMA StoppedKeepsInv ==
  ASSUME CompanionInv, MaxTasks \in Nat, NEW c \in Companion!Clients, Companion!Stopped(c)
  PROVE  CompanionInv'
<1> USE DEF Companion!Stopped, Companion!Goto, Companion!tasks, Companion!world, CompanionTypes,
            Live, NoTask, TasksGone, Companion!Slots, Companion!Clients, Companion!Reconnecting,
            Companion!Exclusive, Companion!HoldsPort
<1>1. CompanionTypes' /\ OneRequest'
  BY DEF CompanionInv, OneTask, OneRequest, RequestsMeet
<1>2. OneTask'
  BY DEF CompanionInv, OneTask, FlagOfTask, RequestsMeet, OneRequest
<1>3. FlagOfTask'
  BY DEF CompanionInv, OneTask, FlagOfTask, RequestsMeet, OneRequest
<1>4. RequestsMeet'
  BY DEF CompanionInv, OneTask, FlagOfTask, RequestsMeet, OneRequest
<1>5. Companion!Supervised'
  BY DEF CompanionInv, OneTask, FlagOfTask, RequestsMeet, Companion!Supervised
<1>6. QED
  BY <1>1, <1>2, <1>3, <1>4, <1>5 DEF CompanionInv

LEMMA FlashedKeepsInv ==
  ASSUME CompanionInv, MaxTasks \in Nat, NEW c \in Companion!Clients, Companion!Flashed(c)
  PROVE  CompanionInv'
BY DEF Companion!Flashed, Companion!Goto, Companion!link, Companion!tasks, CompanionTypes, Live,
       NoTask, TasksGone, Companion!Slots, Companion!Clients, Companion!Reconnecting,
       Companion!Exclusive, Companion!HoldsPort, CompanionInv, OneRequest, OneTask, FlagOfTask,
       RequestsMeet, Companion!Supervised

LEMMA FlashEndsStoppedKeepsInv ==
  ASSUME CompanionInv, MaxTasks \in Nat, NEW c \in Companion!Clients, Companion!FlashEndsStopped(c)
  PROVE  CompanionInv'
BY DEF Companion!FlashEndsStopped, Companion!Goto, Companion!link, Companion!tasks,
       CompanionTypes, Live, NoTask, TasksGone, Companion!Slots, Companion!Clients,
       Companion!Reconnecting, Companion!Exclusive, Companion!HoldsPort, CompanionInv,
       OneRequest, OneTask, FlagOfTask, RequestsMeet, Companion!Supervised

LEMMA StartOpenedKeepsInv ==
  ASSUME CompanionInv, MaxTasks \in Nat, NEW c \in Companion!Clients, Companion!StartOpened(c)
  PROVE  CompanionInv'
BY DEF Companion!StartOpened, Companion!HandleReplaced, Companion!Goto, Companion!tasks,
       Companion!world, CompanionTypes, Live, NoTask, TasksGone, Companion!Slots,
       Companion!Clients, Companion!Reconnecting, Companion!Exclusive, Companion!HoldsPort,
       CompanionInv, OneRequest, OneTask, FlagOfTask, RequestsMeet, Companion!Supervised

LEMMA StartFailsKeepsInv ==
  ASSUME CompanionInv, MaxTasks \in Nat, NEW c \in Companion!Clients, Companion!StartFails(c)
  PROVE  CompanionInv'
<1> USE DEF Companion!StartFails, Companion!HandleReplaced, Companion!Goto, Companion!world,
            CompanionTypes, Live, NoTask, TasksGone, Companion!Slots, Companion!Clients,
            Companion!Reconnecting, Companion!Exclusive, Companion!HoldsPort
<1>1. CompanionTypes' /\ OneRequest'
  BY NewReconnect DEF CompanionInv, OneTask, OneRequest, RequestsMeet
<1>2. OneTask'
  BY NewReconnect DEF CompanionInv, OneTask, FlagOfTask, RequestsMeet, OneRequest
<1>3. FlagOfTask'
  BY NewReconnect DEF CompanionInv, OneTask, FlagOfTask, RequestsMeet, OneRequest
<1>4. RequestsMeet'
  BY NewReconnect DEF CompanionInv, OneTask, FlagOfTask, RequestsMeet, OneRequest
<1>5. Companion!Supervised'
  BY NewReconnect DEF CompanionInv, OneTask, FlagOfTask, RequestsMeet, Companion!Supervised
<1>6. QED
  BY <1>1, <1>2, <1>3, <1>4, <1>5 DEF CompanionInv

LEMMA StartFetchedKeepsInv ==
  ASSUME CompanionInv, MaxTasks \in Nat, NEW c \in Companion!Clients, Companion!StartFetched(c)
  PROVE  CompanionInv'
<1> USE DEF Companion!StartFetched, Companion!Goto, Companion!link, Companion!world,
            CompanionTypes, Live, NoTask, TasksGone, Companion!Slots, Companion!Clients,
            Companion!Reconnecting, Companion!Exclusive, Companion!HoldsPort
<1>1. CompanionTypes' /\ OneRequest'
  BY NewHealth DEF CompanionInv, OneTask, OneRequest, RequestsMeet
<1>2. OneTask'
  BY NewHealth DEF CompanionInv, OneTask, FlagOfTask, RequestsMeet, OneRequest
<1>3. FlagOfTask'
  BY NewHealth DEF CompanionInv, OneTask, FlagOfTask, RequestsMeet, OneRequest
<1>4. RequestsMeet'
  BY NewHealth DEF CompanionInv, OneTask, FlagOfTask, RequestsMeet, OneRequest
<1>5. Companion!Supervised'
  BY NewHealth DEF CompanionInv, OneTask, FlagOfTask, RequestsMeet, Companion!Supervised
<1>6. QED
  BY <1>1, <1>2, <1>3, <1>4, <1>5 DEF CompanionInv

LEMMA CommandKeepsInv ==
  ASSUME CompanionInv, MaxTasks \in Nat, OneOperator, NEW c \in Companion!Clients, Companion!Command(c)
  PROVE  CompanionInv'
BY DEF Companion!Command, Companion!MayRequest, Companion!Goto, Companion!link, Companion!tasks,
       CompanionTypes, Live, NoTask, TasksGone, Companion!Slots, Companion!Clients,
       Companion!Reconnecting, Companion!Exclusive, Companion!HoldsPort, CompanionInv,
       OneRequest, OneTask, FlagOfTask, RequestsMeet, Companion!Supervised, OneOperator

LEMMA FlashKeepsInv ==
  ASSUME CompanionInv, MaxTasks \in Nat, OneOperator, NEW c \in Companion!Clients, Companion!Flash(c)
  PROVE  CompanionInv'
<1> USE DEF Companion!Flash, Companion!MayRequest, Companion!Goto, Companion!link,
            Companion!tasks, CompanionTypes, Live, NoTask, TasksGone, Companion!Slots,
            Companion!Clients, Companion!Reconnecting, Companion!Exclusive, Companion!HoldsPort
<1>1. CompanionTypes' /\ OneRequest'
  BY DEF CompanionInv, OneTask, OneRequest, RequestsMeet, OneOperator
<1>2. OneTask'
  BY DEF CompanionInv, OneTask, FlagOfTask, RequestsMeet, OneRequest
<1>3. FlagOfTask'
  BY DEF CompanionInv, OneTask, FlagOfTask, RequestsMeet, OneRequest
<1>4. RequestsMeet'
  BY DEF CompanionInv, OneTask, FlagOfTask, RequestsMeet, OneRequest
<1>5. Companion!Supervised'
  BY DEF CompanionInv, OneTask, FlagOfTask, RequestsMeet, Companion!Supervised
<1>6. QED
  BY <1>1, <1>2, <1>3, <1>4, <1>5 DEF CompanionInv

LEMMA StartKeepsInv ==
  ASSUME CompanionInv, MaxTasks \in Nat, Companion!Start
  PROVE  CompanionInv'
<1> USE DEF Companion!Start, Companion!Goto, Companion!link, Companion!tasks, CompanionTypes,
            Live, NoTask, TasksGone, Companion!Slots, Companion!Clients, Companion!Reconnecting,
            Companion!Exclusive, Companion!HoldsPort
<1>1. CompanionTypes' /\ OneRequest'
  BY DEF CompanionInv, OneTask, OneRequest, RequestsMeet
<1>2. OneTask'
  BY DEF CompanionInv, OneTask, FlagOfTask, RequestsMeet, OneRequest
<1>3. FlagOfTask'
  BY DEF CompanionInv, OneTask, FlagOfTask, RequestsMeet, OneRequest
<1>4. RequestsMeet'
  BY DEF CompanionInv, OneTask, FlagOfTask, RequestsMeet, OneRequest
<1>5. Companion!Supervised'
  BY DEF CompanionInv, OneTask, FlagOfTask, RequestsMeet, Companion!Supervised
<1>6. QED
  BY <1>1, <1>2, <1>3, <1>4, <1>5 DEF CompanionInv

LEMMA EventKeepsInv ==
  ASSUME CompanionInv, MaxTasks \in Nat, Companion!Event
  PROVE  CompanionInv'
BY DEF Companion!Event, Companion!link, Companion!tasks, Companion!world, CompanionTypes, Live,
       NoTask, TasksGone, Companion!Slots, Companion!Clients, Companion!Reconnecting,
       Companion!Exclusive, Companion!HoldsPort, CompanionInv, OneRequest, OneTask, FlagOfTask,
       RequestsMeet, Companion!Supervised

LEMMA WindowPassesKeepsInv ==
  ASSUME CompanionInv, MaxTasks \in Nat, Companion!WindowPasses
  PROVE  CompanionInv'
BY DEF Companion!WindowPasses, Companion!link, Companion!tasks, Companion!world, CompanionTypes,
       Live, NoTask, TasksGone, Companion!Slots, Companion!Clients, Companion!Reconnecting,
       Companion!Exclusive, Companion!HoldsPort, CompanionInv, OneRequest, OneTask, FlagOfTask,
       RequestsMeet, Companion!Supervised

LEMMA DeviceFailsKeepsInv ==
  ASSUME CompanionInv, MaxTasks \in Nat, Companion!DeviceFails
  PROVE  CompanionInv'
BY DEF Companion!DeviceFails, Companion!link, Companion!tasks, CompanionTypes, Live, NoTask,
       TasksGone, Companion!Slots, Companion!Clients, Companion!Reconnecting,
       Companion!Exclusive, Companion!HoldsPort, CompanionInv, OneRequest, OneTask, FlagOfTask,
       RequestsMeet, Companion!Supervised

LEMMA ShutdownKeepsInv ==
  ASSUME CompanionInv, MaxTasks \in Nat, Companion!Shutdown
  PROVE  CompanionInv'
<1> USE DEF Companion!Shutdown, Companion!Goto, Companion!link, Companion!tasks,
            Companion!world, CompanionTypes, Live, NoTask, TasksGone, Companion!Slots,
            Companion!Clients, Companion!Reconnecting, Companion!Exclusive, Companion!HoldsPort
<1>1. CompanionTypes' /\ OneRequest'
  BY DEF CompanionInv, OneTask, OneRequest, RequestsMeet
<1>2. OneTask'
  BY DEF CompanionInv, OneTask, FlagOfTask, RequestsMeet, OneRequest
<1>3. FlagOfTask'
  BY DEF CompanionInv, OneTask, FlagOfTask, RequestsMeet, OneRequest
<1>4. RequestsMeet'
  BY DEF CompanionInv, OneTask, FlagOfTask, RequestsMeet, OneRequest
<1>5. Companion!Supervised'
  BY DEF CompanionInv, OneTask, FlagOfTask, RequestsMeet, Companion!Supervised
<1>6. QED
  BY <1>1, <1>2, <1>3, <1>4, <1>5 DEF CompanionInv

(* Cancelled by its reference, the only task is gone.                      *)
LEMMA CancelledAll ==
  ASSUME CompanionInv, MaxTasks \in Nat, NEW s, s \in {healthTask, reconnectTask}, s # 0, Companion!Cancel(s)
  PROVE  /\ NoTask' /\ ~ busy' /\ healthTask' = 0 /\ reconnectTask' = 0
         /\ DOMAIN at' = Companion!Slots /\ DOMAIN kind' = Companion!Slots
<1>1. s \in Companion!Slots /\ Live(s) /\ at' = [at EXCEPT ![s] = "free"] /\ kind' = kind
  BY DEF CompanionInv, OneTask, Companion!Cancel, Companion!Finish
<1>2. NoTask'
  BY <1>1 DEF CompanionInv, CompanionTypes, OneTask, NoTask, Live
<1>3. healthTask' = 0 /\ reconnectTask' = 0
  BY <1>1 DEF CompanionInv, OneTask, Companion!Cancel, Companion!Finish, Companion!Forget
<1>4. busy => at[s] \in Companion!Reconnecting
  BY <1>1 DEF CompanionInv, OneTask, FlagOfTask, Live, Companion!Reconnecting
<1>5. ~ busy'
  BY <1>4 DEF Companion!Cancel
<1>6. QED
  BY <1>1, <1>2, <1>3, <1>5 DEF CompanionInv, CompanionTypes

LEMMA NothingToCancel ==
  ASSUME CompanionInv, MaxTasks \in Nat, healthTask = 0, reconnectTask = 0,
         UNCHANGED << healthTask, reconnectTask, kind, at, busy >>
  PROVE  /\ NoTask' /\ ~ busy' /\ healthTask' = 0 /\ reconnectTask' = 0
         /\ DOMAIN at' = Companion!Slots /\ DOMAIN kind' = Companion!Slots
<1>1. NoTask
  BY DEF CompanionInv, OneTask, NoTask, Live, Companion!Slots
<1>2. ~ busy
  BY <1>1 DEF CompanionInv, FlagOfTask, NoTask, Live, Companion!Reconnecting
<1>3. QED
  BY <1>1, <1>2 DEF CompanionInv, CompanionTypes, NoTask, Live

LEMMA SetRadioKeepsInv ==
  ASSUME CompanionInv, MaxTasks \in Nat, OneOperator, NEW c \in Companion!Clients, Companion!SetRadio(c)
  PROVE  CompanionInv'
<1>1. /\ NoTask' /\ ~ busy' /\ healthTask' = 0 /\ reconnectTask' = 0
      /\ DOMAIN at' = Companion!Slots /\ DOMAIN kind' = Companion!Slots
  <2>1. CASE healthTask # 0
    BY <2>1, CancelledAll DEF Companion!SetRadio
  <2>2. CASE healthTask = 0 /\ reconnectTask # 0
    BY <2>2, CancelledAll DEF Companion!SetRadio
  <2>3. CASE healthTask = 0 /\ reconnectTask = 0
    BY <2>3, NothingToCancel DEF Companion!SetRadio, Companion!Cancel, Companion!tasks
  <2>4. QED
    BY <2>1, <2>2, <2>3
<1>2. PICK r \in {"detach_reconnect", "detach_flag"} :
        /\ request' = [request EXCEPT ![c] = r] /\ c \in Operators
        /\ request[c] = "idle" /\ request[Companion!Service] = "idle"
        /\ running' = running /\ connected' = connected /\ own' = own
  BY DEF Companion!SetRadio, Companion!MayRequest, Companion!Goto, Companion!link
<1>3. OneRequest'
  BY <1>2 DEF CompanionInv, CompanionTypes, OneRequest, OneOperator, Companion!Clients
<1>4. OneTask' /\ FlagOfTask'
  BY <1>1 DEF OneTask, FlagOfTask, NoTask, Live, Companion!Reconnecting
<1>5. RequestsMeet'
  BY <1>1, <1>2 DEF CompanionInv, CompanionTypes, RequestsMeet, TasksGone, Companion!Exclusive,
                    Companion!HoldsPort
<1>6. Companion!Supervised'
  BY <1>2 DEF CompanionInv, CompanionTypes, Companion!Supervised
<1>7. QED
  BY <1>1, <1>2, <1>3, <1>4, <1>5, <1>6 DEF CompanionInv, CompanionTypes

(* A command that times out while nobody reconnects finds a health loop or *)
(* nothing, and leaves a reconnect in its place.                           *)
LEMMA CommandTimesOutKeepsInv ==
  ASSUME CompanionInv, MaxTasks \in Nat, NEW c \in Companion!Clients, Companion!CommandTimesOut(c)
  PROVE  CompanionInv'
<1>1. /\ request[c] = "command" /\ request' = [request EXCEPT ![c] = "idle"]
      /\ running' = running /\ own' = own /\ busy' = busy
  BY DEF Companion!CommandTimesOut, Companion!Goto
<1>2. OneRequest' /\ \A d \in Companion!Clients : request'[d] = "idle"
  BY <1>1 DEF CompanionInv, CompanionTypes, OneRequest
<1>3. RequestsMeet'
  BY <1>2 DEF RequestsMeet, TasksGone, Companion!Exclusive, Companion!HoldsPort
<1>4. CASE busy
  <2>1. UNCHANGED << healthTask, reconnectTask, kind, at, connected >>
    BY <1>4 DEF Companion!CommandTimesOut, Companion!tasks
  <2>2. OneTask' /\ FlagOfTask'
    BY <1>1, <1>2, <2>1 DEF CompanionInv, OneTask, FlagOfTask, Live
  <2>3. Companion!Supervised'
    BY <1>4, <2>2, <1>1 DEF FlagOfTask, Companion!Supervised, Companion!Reconnecting
  <2>4. QED
    BY <1>1, <1>2, <1>3, <2>1, <2>2, <2>3 DEF CompanionInv, CompanionTypes
<1>5. CASE ~ busy
  <2> DEFINE freed == IF healthTask = 0 THEN at ELSE [at EXCEPT ![healthTask] = "free"]
             slots == {s \in Companion!Slots : freed[s] = "free"}
             new == CHOOSE s \in slots : \A u \in slots : s <= u
  <2>1. /\ slots # {} /\ ~ connected' /\ at' = [freed EXCEPT ![new] = "new"]
        /\ kind' = [kind EXCEPT ![new] = "reconnect"] /\ healthTask' = 0 /\ reconnectTask' = new
    BY <1>5 DEF Companion!CommandTimesOut
  <2>2. \A s \in Companion!Slots : Live(s) => healthTask = s
    BY <1>1, <1>5 DEF CompanionInv, OneTask, FlagOfTask
  <2>3. DOMAIN freed = Companion!Slots /\ \A s \in Companion!Slots : freed[s] = "free"
    <3>1. CASE healthTask = 0
      BY <2>2, <3>1 DEF CompanionInv, CompanionTypes, Live, Companion!Slots
    <3>2. CASE healthTask # 0
      BY <2>2, <3>2 DEF CompanionInv, CompanionTypes, OneTask, Live
    <3>3. QED
      BY <3>1, <3>2
  <2>4. new \in Companion!Slots
    <3>1. 1 \in slots /\ \A u \in slots : 1 <= u
      BY <2>1, <2>3 DEF Companion!Slots
    <3> HIDE DEF slots
    <3>2. new \in slots
      BY <3>1
    <3>3. QED
      BY <3>2 DEF slots
  <2> HIDE DEF freed, slots, new
  <2>5. /\ DOMAIN at' = Companion!Slots /\ DOMAIN kind' = Companion!Slots
        /\ at'[new] = "new" /\ kind'[new] = "reconnect"
        /\ \A u \in Companion!Slots \ {new} : at'[u] = "free"
    BY <2>1, <2>3, <2>4 DEF CompanionInv, CompanionTypes
  <2>6. OneTask'
    BY <2>1, <2>4, <2>5 DEF OneTask, Live, Companion!Slots
  <2>7. FlagOfTask'
    BY <1>1, <1>2, <1>5, <2>1, <2>4, <2>5 DEF FlagOfTask, Live, Companion!Reconnecting
  <2>8. Companion!Supervised'
    BY <2>4, <2>5 DEF Companion!Supervised
  <2>9. QED
    BY <1>1, <1>2, <1>3, <2>5, <2>6, <2>7, <2>8 DEF CompanionInv, CompanionTypes
<1>6. QED
  BY <1>4, <1>5

LEMMA StopHealthKeepsInv ==
  ASSUME CompanionInv, MaxTasks \in Nat, NEW c \in Companion!Clients, Companion!StopHealth(c)
  PROVE  CompanionInv'
<1>1. /\ request[c] = "stop_health" /\ request' = [request EXCEPT ![c] = "stop_close"]
      /\ ~ connected' /\ ~ running' /\ reconnectTask = 0
  BY DEF CompanionInv, RequestsMeet, Companion!StopHealth, Companion!Goto
<1>2. /\ NoTask' /\ ~ busy' /\ healthTask' = 0 /\ reconnectTask' = 0
      /\ DOMAIN at' = Companion!Slots /\ DOMAIN kind' = Companion!Slots
  <2>1. CASE healthTask # 0
    BY <2>1, CancelledAll DEF Companion!StopHealth
  <2>2. CASE healthTask = 0
    BY <1>1, <2>2, NothingToCancel DEF Companion!StopHealth, Companion!Cancel, Companion!tasks
  <2>3. QED
    BY <2>1, <2>2
<1>3. OneRequest'
  BY <1>1 DEF CompanionInv, CompanionTypes, OneRequest
<1>4. OneTask' /\ FlagOfTask'
  BY <1>2 DEF OneTask, FlagOfTask, NoTask, Live, Companion!Reconnecting
<1>5. RequestsMeet'
  BY <1>1, <1>2 DEF CompanionInv, CompanionTypes, OneRequest, RequestsMeet, TasksGone,
                    Companion!Exclusive, Companion!HoldsPort
<1>6. QED
  BY <1>1, <1>2, <1>3, <1>4, <1>5 DEF CompanionInv, CompanionTypes, Companion!Supervised

LEMMA StopReconnectKeepsInv ==
  ASSUME CompanionInv, MaxTasks \in Nat, NEW c \in Companion!Clients, Companion!StopReconnect(c)
  PROVE  CompanionInv'
<1>1. /\ request[c] = "stop_reconnect" /\ request' = [request EXCEPT ![c] = "stop_health"]
      /\ connected' = connected /\ running' = running /\ ~ running /\ own' = own
  BY DEF CompanionInv, RequestsMeet, Companion!StopReconnect, Companion!Goto, Companion!link
<1>2. /\ CompanionTypes' /\ OneTask' /\ FlagOfTask' /\ reconnectTask' = 0
  <2>1. CASE reconnectTask # 0
    <3>1. /\ NoTask' /\ ~ busy' /\ healthTask' = 0 /\ reconnectTask' = 0
          /\ DOMAIN at' = Companion!Slots /\ DOMAIN kind' = Companion!Slots
      BY <2>1, CancelledAll DEF Companion!StopReconnect
    <3>2. QED
      BY <1>1, <3>1 DEF CompanionInv, CompanionTypes, OneTask, FlagOfTask, NoTask, Live,
                        Companion!Reconnecting
  <2>2. CASE reconnectTask = 0
    <3>1. UNCHANGED << healthTask, reconnectTask, kind, at, busy >>
      BY <2>2 DEF Companion!StopReconnect, Companion!Cancel, Companion!tasks
    <3>2. QED
      BY <1>1, <2>2, <3>1 DEF CompanionInv, CompanionTypes, OneTask, FlagOfTask, Live
  <2>3. QED
    BY <2>1, <2>2
<1>3. OneRequest' /\ \A d \in Companion!Clients : d # c => request'[d] = "idle"
  BY <1>1 DEF CompanionInv, CompanionTypes, OneRequest
<1>4. RequestsMeet'
  BY <1>1, <1>2, <1>3 DEF CompanionInv, CompanionTypes, RequestsMeet, TasksGone,
                    Companion!Exclusive, Companion!HoldsPort
<1>5. QED
  BY <1>1, <1>2, <1>3, <1>4 DEF CompanionInv, Companion!Supervised

LEMMA CompanionInitInv == Companion!Init => CompanionInv
BY DEF Companion!Init, CompanionInv, CompanionTypes, OneRequest, OneTask, FlagOfTask, RequestsMeet,
       TasksGone, NoTask, Live, Companion!Clients, Companion!Reconnecting, Companion!Exclusive,
       Companion!HoldsPort, Companion!Supervised

LEMMA CompanionNextInv ==
  ASSUME CompanionInv, MaxTasks \in Nat, OneOperator, [Companion!Next]_companionVars
  PROVE  CompanionInv'
<1>1. ASSUME NEW s \in Companion!Slots, Companion!ReconnectStep(s) \/ Companion!HealthStep(s)
      PROVE  CompanionInv'
  BY <1>1, ReconnectBeginsKeepsInv, DisconnectedKeepsInv, BackoffOverKeepsInv, PulseKeepsInv,
     OpenedKeepsInv, OpenFailsKeepsInv, FetchedKeepsInv, FetchFailsKeepsInv,
     IntervalOverKeepsInv, ProbeAnsweredKeepsInv, ProbeMissedKeepsInv
     DEF Companion!ReconnectStep, Companion!HealthStep
<1>2. ASSUME NEW c \in Companion!Clients, Companion!RequestStep(c)
      PROVE  CompanionInv'
  BY <1>2, CommandAnsweredKeepsInv, CommandTimesOutKeepsInv, DetachReconnectKeepsInv,
     DetachFlagKeepsInv, DetachedKeepsInv, ApplyExclusiveKeepsInv, ReattachKeepsInv,
     StopReconnectKeepsInv, StopHealthKeepsInv, StoppedKeepsInv, FlashedKeepsInv,
     FlashEndsStoppedKeepsInv, StartOpenedKeepsInv, StartFailsKeepsInv, StartFetchedKeepsInv
     DEF Companion!RequestStep
<1>3. ASSUME NEW c \in Companion!Clients,
             Companion!Command(c) \/ Companion!SetRadio(c) \/ Companion!Flash(c)
      PROVE  CompanionInv'
  BY <1>3, CommandKeepsInv, SetRadioKeepsInv, FlashKeepsInv
<1>4. CASE UNCHANGED companionVars
  BY <1>4 DEF companionVars, CompanionInv, CompanionTypes, OneRequest, OneTask, FlagOfTask,
              RequestsMeet, NoTask, Live, Companion!Supervised
<1>5. QED
  BY <1>1, <1>2, <1>3, <1>4, StartKeepsInv, EventKeepsInv, WindowPassesKeepsInv,
     DeviceFailsKeepsInv, ShutdownKeepsInv DEF Companion!Next

LEMMA AtMostOne ==
  ASSUME NEW S, \A x, y \in S : x = y
  PROVE  IF S = {} THEN Cardinality(S) = 0 ELSE Cardinality(S) = 1
<1>1. CASE S = {}
  BY <1>1, FS_EmptySet
<1>2. CASE S # {}
  <2>1. PICK x \in S : S = {x}
    BY <1>2
  <2>2. QED
    BY <2>1, FS_Singleton
<1>3. QED
  BY <1>1, <1>2

LEMMA CompanionInvIsSafe ==
  CompanionInv => Companion!PortExclusive /\ Companion!Supervised /\ Companion!StopReleases
<1> SUFFICES ASSUME CompanionInv
             PROVE  Companion!PortExclusive /\ Companion!Supervised /\ Companion!StopReleases
  OBVIOUS
<1>1. Companion!PortExclusive
  <2> DEFINE T == {s \in Companion!Slots : at[s] \in {"pulse", "open", "fetch"}}
             R == {c \in Companion!Clients : request[c] \in Companion!HoldsPort}
  <2>1. \A x, y \in T : x = y
    BY DEF CompanionInv, OneTask, Live
  <2>2. \A x, y \in R : x = y
    BY DEF CompanionInv, OneRequest, Companion!HoldsPort, Companion!Exclusive
  <2>3. T = {} \/ R = {}
    BY DEF CompanionInv, RequestsMeet, TasksGone, NoTask, Live
  <2>4. Companion!PortUsers = Cardinality(T) + Cardinality(R)
    BY DEF Companion!PortUsers, Companion!Cardinality, Cardinality
  <2> HIDE DEF T, R
  <2>5. QED
    BY <2>1, <2>2, <2>3, <2>4, AtMostOne DEF Companion!PortExclusive
<1>2. Companion!StopReleases
  BY DEF CompanionInv, RequestsMeet, TasksGone, NoTask, Live, Companion!HoldsPort,
         Companion!Clients, Companion!StopReleases
<1>3. QED
  BY <1>1, <1>2 DEF CompanionInv

-----------------------------------------------------------------------------
(***************************************************************************)
(* The sticks.  A source that is not up has no interface and no reconnect  *)
(* under way, so only a stick that is up is written to; its three copies   *)
(* of the settings agree until a write raised.                             *)
(***************************************************************************)
StickSettings == {"name", "region", "preset"}

SerialTypes ==
    /\ DOMAIN attached = Workers /\ DOMAIN iface = Workers /\ DOMAIN retry = Workers
    /\ DOMAIN phase = Workers /\ DOMAIN info = Workers /\ DOMAIN cached = Workers
    /\ DOMAIN flashed = Workers /\ DOMAIN inbox = Workers /\ failedWrites \in Nat
    /\ \A s \in Workers : DOMAIN flashed[s] = StickSettings

SerialInv ==
    /\ SerialTypes
    /\ \A s \in Workers :
         /\ inbox[s] \in Seq({s})
         /\ phase[s] \in {"off", "starting", "flashing", "down"}
              => ~ iface[s] /\ ~ attached[s] /\ retry[s] = "none"
         /\ failedWrites = 0 /\ attached[s] => info[s] = flashed[s] /\ cached[s] = flashed[s]

LEMMA SerialInitInv == Serial!Init => SerialInv
BY DEF Serial!Init, SerialInv, SerialTypes, StickSettings, Serial!Factory

(* A connection reads the stick afresh into all copies.                    *)
LEMMA StickConnected ==
  ASSUME SerialInv, NEW s \in Workers, Serial!Connected(s),
         retry' \in {retry, [retry EXCEPT ![s] = "none"]},
         phase' \in {phase, [phase EXCEPT ![s] = "up"]},
         phase'[s] \notin {"off", "starting", "flashing", "down"}, UNCHANGED inbox
  PROVE  SerialInv'
<1>1. PICK now \in {flashed[s], [flashed[s] EXCEPT !.name = OldName]} :
        /\ flashed' = [flashed EXCEPT ![s] = now]
        /\ cached' = [cached EXCEPT ![s] = now] /\ info' = [info EXCEPT ![s] = now]
        /\ iface' = [iface EXCEPT ![s] = TRUE] /\ attached' = [attached EXCEPT ![s] = TRUE]
        /\ failedWrites' = failedWrites
  BY DEF Serial!Connected
<1>2. DOMAIN now = StickSettings
  BY DEF SerialInv, SerialTypes
<1>3. SerialTypes'
  BY <1>1, <1>2 DEF SerialInv, SerialTypes
<1>4. ASSUME NEW u \in Workers
      PROVE  /\ inbox'[u] \in Seq({u})
             /\ phase'[u] \in {"off", "starting", "flashing", "down"}
                  => ~ iface'[u] /\ ~ attached'[u] /\ retry'[u] = "none"
             /\ failedWrites' = 0 /\ attached'[u] => info'[u] = flashed'[u] /\ cached'[u] = flashed'[u]
  <2>1. CASE u = s
    BY <1>1, <2>1 DEF SerialInv, SerialTypes
  <2>2. CASE u # s
    BY <1>1, <2>2 DEF SerialInv, SerialTypes
  <2>3. QED
    BY <2>1, <2>2
<1>5. QED
  BY <1>3, <1>4 DEF SerialInv

(* A stopped source has let go of everything.                              *)
LEMMA StickStopped ==
  ASSUME SerialInv, NEW s \in Workers, NEW p, Serial!Stopping(s, p),
         UNCHANGED << inbox, info, cached, flashed, failedWrites >>
  PROVE  SerialInv'
BY DEF SerialInv, SerialTypes, Serial!Stopping

(* Only a stick that is up is written to.                                  *)
LEMMA StickChanged ==
  ASSUME SerialInv, NEW s \in Workers,
         Serial!SetOwner(s) \/ Serial!SetRegion(s) \/ Serial!SetModemPreset(s)
  PROVE  SerialInv'
<1>1. UNCHANGED << attached, iface, retry, phase, inbox >>
  BY DEF Serial!SetOwner, Serial!SetRegion, Serial!SetModemPreset, Serial!traffic
<1>2. attached[s]
  BY DEF Serial!SetOwner, Serial!SetRegion, Serial!SetModemPreset, Serial!MayChange
<1>3. /\ \A u \in Workers \ {s} : info'[u] = info[u] /\ cached'[u] = cached[u] /\ flashed'[u] = flashed[u]
      /\ DOMAIN info' = Workers /\ DOMAIN cached' = Workers /\ DOMAIN flashed' = Workers
      /\ DOMAIN flashed'[s] = StickSettings /\ failedWrites' \in Nat
      /\ failedWrites' = 0 => failedWrites = 0
  BY DEF SerialInv, SerialTypes, Serial!SetOwner, Serial!SetRegion, Serial!SetModemPreset, Serial!WriteLora
<1>4. ASSUME failedWrites' = 0
      PROVE  info'[s] = flashed'[s] /\ cached'[s] = flashed'[s]
  <2>1. failedWrites = 0 /\ info[s] = flashed[s] /\ cached[s] = flashed[s] /\ DOMAIN flashed[s] = StickSettings
    BY <1>2, <1>3, <1>4 DEF SerialInv, SerialTypes
  <2>2. CASE Serial!SetOwner(s)
    BY <2>1, <2>2 DEF SerialInv, SerialTypes, Serial!SetOwner
  <2>3. CASE Serial!SetRegion(s)
    BY <1>4, <2>1, <2>3 DEF SerialInv, SerialTypes, Serial!SetRegion, Serial!WriteLora, StickSettings
  <2>4. CASE Serial!SetModemPreset(s)
    BY <1>4, <2>1, <2>4 DEF SerialInv, SerialTypes, Serial!SetModemPreset, Serial!WriteLora, StickSettings
  <2>5. QED
    BY <2>2, <2>3, <2>4
<1>5. SerialTypes'
  BY <1>1, <1>3 DEF SerialInv, SerialTypes
<1>6. QED
  BY <1>1, <1>3, <1>4, <1>5 DEF SerialInv

LEMMA StickHeard ==
  ASSUME SerialInv, NEW s \in Workers, Serial!Publish(s) \/ Serial!Read(s)
  PROVE  SerialInv'
<1>1. UNCHANGED << attached, iface, retry, phase, info, cached, flashed, failedWrites >>
  BY DEF Serial!Publish, Serial!Read, Serial!config
<1>2. inbox[s] \in Seq({s}) /\ DOMAIN inbox = Workers
  BY DEF SerialInv, SerialTypes
<1>3. DOMAIN inbox' = Workers /\ \A u \in Workers : inbox'[u] \in Seq({u})
  <2>1. CASE Serial!Publish(s)
    <3>1. Append(inbox[s], s) \in Seq({s})
      BY <1>2
    <3>2. \/ inbox' = inbox
          \/ inbox' = [inbox EXCEPT ![s] = Append(inbox[s], s)]
          \/ inbox' = [inbox EXCEPT ![s] = inbox[s]]
      BY <2>1 DEF Serial!Publish, Serial!OnReceive, Serial!Queued
    <3>3. QED
      BY <1>2, <3>1, <3>2 DEF SerialInv
  <2>2. CASE Serial!Read(s)
    <3>1. Tail(inbox[s]) \in Seq({s}) /\ inbox' = [inbox EXCEPT ![s] = Tail(inbox[s])]
      BY <1>2, <2>2 DEF Serial!Read
    <3>2. QED
      BY <1>2, <3>1 DEF SerialInv
  <2>3. QED
    BY <2>1, <2>2
<1>4. QED
  BY <1>1, <1>3 DEF SerialInv, SerialTypes

LEMMA SerialNextInv ==
  ASSUME SerialInv, [Serial!Next]_serialVars
  PROVE  SerialInv'
<1>1. ASSUME NEW s \in Workers,
             Serial!Start(s) \/ Serial!StartFails(s) \/ Serial!Retry(s) \/ Serial!RetryFails(s)
             \/ Serial!ThreadEnds(s) \/ Serial!ReaderEnds(s)
      PROVE  SerialInv'
  BY <1>1 DEF SerialInv, SerialTypes, Serial!Start, Serial!StartFails, Serial!StartReturns, Serial!Retry,
              Serial!RetryFails, Serial!ThreadEnds, Serial!ReaderEnds, Serial!config, Serial!traffic
<1>2. ASSUME NEW s \in Workers, Serial!Flashed(s)
      PROVE  SerialInv'
  BY <1>2 DEF SerialInv, SerialTypes, StickSettings, Serial!Flashed, Serial!Factory, Serial!traffic
<1>3. ASSUME NEW s \in Workers, Serial!StartConnects(s) \/ Serial!RetryConnects(s)
      PROVE  SerialInv'
  <2>1. CASE Serial!StartConnects(s)
    BY <2>1, StickConnected
       DEF SerialInv, SerialTypes, Serial!StartConnects, Serial!StartReturns, Serial!traffic
  <2>2. CASE Serial!RetryConnects(s)
    BY <2>2, StickConnected DEF SerialInv, SerialTypes, Serial!RetryConnects, Serial!traffic
  <2>3. QED
    BY <1>3, <2>1, <2>2
<1>4. ASSUME NEW s \in Workers, Serial!Stop(s) \/ Serial!Flash(s)
      PROVE  SerialInv'
  BY <1>4, StickStopped DEF Serial!Stop, Serial!Flash, Serial!config, Serial!traffic
<1>5. CASE UNCHANGED serialVars
  BY <1>5 DEF serialVars, SerialInv, SerialTypes
<1>6. QED
  BY <1>1, <1>2, <1>3, <1>4, <1>5, StickChanged, StickHeard
     DEF Serial!Next, Serial!Attempt, Serial!Step

LEMMA SerialInvIsSafe ==
  SerialInv => Serial!OwnPacketsOnly /\ Serial!InfoTruthful /\ Serial!FlashFindsSourceStopped
<1>1. ASSUME SerialInv, NEW s \in Workers, NEW i \in 1 .. Len(inbox[s])
      PROVE  inbox[s][i] = s
  <2>1. inbox[s] \in Seq({s})
    BY <1>1 DEF SerialInv
  <2>2. inbox[s][i] \in {s}
    BY <2>1
  <2>3. QED
    BY <2>2
<1>2. QED
  BY <1>1 DEF SerialInv, Serial!OwnPacketsOnly, Serial!InfoTruthful, Serial!FlashFindsSourceStopped

(* Never two at the companion's port, whatever commands, radio changes,    *)
(* flashes, probes and silences meet; a running companion has a task that  *)
(* would notice its silence; a stop leaves nothing behind.  A stick's      *)
(* source queues only its own packets, shows what the stick has stored as  *)
(* long as no write raised, and has let go before esptool runs.  For any   *)
(* number of requests, faults, sticks, names and flashes, and one client   *)
(* of the dashboard: with two, a command of one that times out during the  *)
(* radio change of the other starts a reconnect at the same port.          *)
THEOREM DevicesAreHeld ==
  ASSUME OneOperator
  PROVE  Spec => []DevicesHeld
<1> USE CompanionAssumption
<1> DEFINE Kept == /\ part = "companion" => CompanionInv
                   /\ part = "serial" => SerialInv
<1>1. Init => Kept
  BY EachInit, CompanionInitInv, SerialInitInv
<1>2. Kept /\ [Next]_vars => Kept'
  <2> SUFFICES ASSUME Kept, [Next]_vars
               PROVE  Kept'
    OBVIOUS
  <2>1. part = "companion" => CompanionInv'
    BY CompanionAlone, CompanionNextInv DEF CompanionAssumption
  <2>2. part = "serial" => SerialInv'
    BY SerialAlone, SerialNextInv
  <2>3. part' = part
    BY SerialAlone
  <2>4. QED
    BY <2>1, <2>2, <2>3
<1>3. Kept => DevicesHeld
  BY CompanionInvIsSafe, SerialInvIsSafe DEF DevicesHeld
<1>4. QED
  BY <1>1, <1>2, <1>3, PTL DEF Spec
=============================================================================
