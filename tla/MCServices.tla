------------------------------ MODULE MCServices -----------------------------
(***************************************************************************)
(* The services around the packet path whose tasks and scripts must also   *)
(* come to an end: the attached devices, the repeater poller, the update   *)
(* and restore scripts, firmware flashing, the broadcasters, the button,   *)
(* the position and the work on the concentrator. They share no state in   *)
(* these models, so a behaviour chooses one of them and the others stay as *)
(* they are initially.                                                     *)
(***************************************************************************)
EXTENDS Integers, Sequences, FiniteSets

CONSTANTS
    Operators, MaxTasks, MaxRequests, MaxFaults,
    Workers, Names, OldName, QueueSize, MaxFlashes, MaxChanges, MaxPackets,
    Repeaters, POLL_ATTEMPTS, Shapes, MaxMisses, MaxResets, MaxCrashes,
    Branches, First, MaxPushes, MaxRestarts,
    MaxWrites, MaxBackups,
    Variants, MaxKills,
    Intervals, MaxInterval, Delays, MaxSaves,
    Senders, MaxHalRestarts,
    Centers, MaxClicks, MaxReboots,
    Spots, Pins, Qualities, Modes, MaxReports, MaxLost,
    Hold, Cooldown, Radios, MaxAdverts

VARIABLES
    part,
    running, connected, own, orphans, busy, healthTask, reconnectTask, kind, at, misses,
    recent, request, device, requests, faults,
    listening, attached, iface, retry, phase, reader, threads, strays, info, cached,
    flashed, inbox, published, flashes, changes, failedWrites,
    poller, todo, current, attempt, result, latest, cache, stateFile, cacheFile, torn,
    known, reachable, roster, restamped, resets, silent, crashes,
    remote, fetched, local, head, point, chain, finish, prepared, serving, served,
    unproven, goal, excused, pushes, stops,
    live, journal, service, build, archives, script, input, stash, toCopy, crossed, failed,
    lostFile, writes, backups,
    holder, samePath, card, open, job, fetcher, files, tools, compiler, asked, sketch,
    artifact, flags, kills,
    caster, every, sentAge, ticker, wait, forced, txOn, coords, intervals, gap, nudged,
    hasty,
    scanner, chip, page, tuned, emitting, started, sourceUp, polling, halLock, restartAt,
    paging, sender, scan, halRestarts, offChip, offPage,
    sweeper, auto, sweepAt, event, calibrate, center, baseline, baselineFile, clicks,
    reboots, sweepAsked, calibrationAsked, late, cleared,
    source, quality, link, receiving, fix, gsaMode, backoff, pin, mesh, resolving,
    positionSent, fixReports, fixLost, gpsPuts, trusted, asserted,
    buttonDown, buttonHeld, buttonArmed, pressedSince, longFired, advertCooldown,
    restartSpawned, adverts, restartsFired, releaseUnseen, restartEarly, advertQuiet,
    advertTooSoon

companionVars == << running, connected, own, orphans, busy, healthTask, reconnectTask,
                    kind, at, misses, recent, request, device, requests, faults >>
serialVars == << listening, attached, iface, retry, phase, reader, threads, strays, info,
                 cached, flashed, inbox, published, flashes, changes, failedWrites >>
pollerVars == << poller, todo, current, attempt, result, latest, cache, stateFile,
                 cacheFile, torn, known, reachable, roster, restamped, resets, silent,
                 crashes >>
updateVars == << remote, fetched, local, head, point, chain, finish, prepared, serving,
                 served, unproven, goal, excused, pushes, stops >>
backupVars == << live, journal, service, build, archives, script, input, stash, toCopy,
                 crossed, failed, lostFile, writes, backups >>
flashVars == << holder, samePath, card, open, job, fetcher, files, tools, compiler, asked,
                sketch, artifact, flags, kills >>
broadcastVars == << caster, every, sentAge, ticker, wait, forced, txOn, coords, intervals,
                    gap, nudged, hasty >>
halVars == << scanner, chip, page, tuned, emitting, started, sourceUp, polling, halLock,
              restartAt, paging, sender, scan, halRestarts, offChip, offPage >>
sweepVars == << sweeper, auto, sweepAt, event, calibrate, center, baseline, baselineFile,
                clicks, reboots, sweepAsked, calibrationAsked, late, cleared >>
locationVars == << source, quality, link, receiving, fix, gsaMode, backoff, pin, mesh,
                   resolving, positionSent, fixReports, fixLost, gpsPuts, trusted, asserted >>
buttonVars == << buttonDown, buttonHeld, buttonArmed, pressedSince, longFired,
                 advertCooldown, restartSpawned, adverts, restartsFired, releaseUnseen,
                 restartEarly, advertQuiet, advertTooSoon >>

Companion == INSTANCE MeshcoreCompanion
Serial == INSTANCE SerialSource WITH Sticks <- Workers
Poller == INSTANCE RepeaterPoller
Update == INSTANCE SoftwareUpdate WITH script <- finish, Requests <- Workers
Backup == INSTANCE BackupRestore WITH todo <- toCopy, lost <- lostFile, Restores <- Workers
Flash == INSTANCE FirmwareFlash WITH Clients <- Workers
Broadcast == INSTANCE Broadcasters WITH
    kind <- caster, interval <- every, sent <- sentAge, loop <- ticker, timer <- wait,
    saves <- intervals, early <- hasty
Hal == INSTANCE ConcentratorHal WITH
    running <- sourceUp, reader <- polling, main <- restartAt, restarts <- halRestarts
Sweep == INSTANCE BandSweep WITH at <- sweepAt, file <- baselineFile
Position == INSTANCE Location WITH
    MaxDrops <- MaxLost, MaxPuts <- 1, MaxBackoff <- 4, connected <- receiving,
    mode <- gsaMode, sent <- positionSent, reports <- fixReports, drops <- fixLost,
    puts <- gpsPuts
Button == INSTANCE ButtonControl WITH
    pressed <- buttonDown, held <- buttonHeld, armed <- buttonArmed, since <- pressedSince,
    cool <- advertCooldown, spawned <- restartSpawned, fired <- restartsFired,
    unseen <- releaseUnseen, early <- restartEarly, quiet <- advertQuiet,
    tooSoon <- advertTooSoon

(* The number of tasks is a number.                                        *)
ASSUME CompanionAssumption == MaxTasks \in Nat

(* The intervals are whole, positive and capped by the longest one.        *)
ASSUME BroadcastAssumption ==
    /\ MaxInterval \in Nat /\ Intervals \subseteq 1 .. MaxInterval
    /\ Delays \subseteq Nat

(* Presses and pauses are counted in whole polls of the button.            *)
ASSUME ButtonAssumption == Hold \in Nat /\ Cooldown \in Nat

(* The branch that is checked out first is one of the branches.            *)
ASSUME UpdateAssumption == First \in Branches

(* No variant is named like a state of the compiler.                       *)
ASSUME FlashAssumption == "none" \notin Variants /\ "reading" \notin Variants

Init ==
    /\ part \in {"companion", "serial", "poller", "update", "backup", "flash", "broadcast",
                 "hal", "sweep", "location", "button"}
    /\ Companion!Init /\ Serial!Init /\ Poller!Init /\ Update!Init /\ Backup!Init
    /\ Flash!Init
    /\ part # "flash" => card = "pager"
    /\ Broadcast!Init
    /\ part # "broadcast" => caster = "nodeinfo" /\ every = 0 /\ wait = 0 /\ coords
    /\ Hal!Init
    /\ part # "hal" => scanner = "capture"
    /\ Sweep!Init
    /\ part # "sweep" => sweeper = "scan" /\ auto /\ center = "f1"
    /\ Position!Init
    /\ part # "location" => source = "static" /\ quality = 1 /\ mesh.precision = "typo"
    /\ Button!Init
    /\ part # "button" => ~ buttonDown

Next ==
    /\ UNCHANGED part
    /\ \/ /\ part = "companion"
          /\ UNCHANGED << serialVars, pollerVars, updateVars, backupVars, flashVars,
                          broadcastVars, halVars, sweepVars, locationVars, buttonVars >>
          /\ Companion!Next
       \/ /\ part = "serial"
          /\ UNCHANGED << companionVars, pollerVars, updateVars, backupVars, flashVars,
                          broadcastVars, halVars, sweepVars, locationVars, buttonVars >>
          /\ Serial!Next
       \/ /\ part = "poller"
          /\ UNCHANGED << companionVars, serialVars, updateVars, backupVars, flashVars,
                          broadcastVars, halVars, sweepVars, locationVars, buttonVars >>
          /\ Poller!Next
       \/ /\ part = "update"
          /\ UNCHANGED << companionVars, serialVars, pollerVars, backupVars, flashVars,
                          broadcastVars, halVars, sweepVars, locationVars, buttonVars >>
          /\ Update!Next
       \/ /\ part = "backup"
          /\ UNCHANGED << companionVars, serialVars, pollerVars, updateVars, flashVars,
                          broadcastVars, halVars, sweepVars, locationVars, buttonVars >>
          /\ Backup!Next
       \/ /\ part = "flash"
          /\ UNCHANGED << companionVars, serialVars, pollerVars, updateVars, backupVars,
                          broadcastVars, halVars, sweepVars, locationVars, buttonVars >>
          /\ Flash!Next
       \/ /\ part = "broadcast"
          /\ UNCHANGED << companionVars, serialVars, pollerVars, updateVars, backupVars,
                          flashVars, halVars, sweepVars, locationVars, buttonVars >>
          /\ Broadcast!Next
       \/ /\ part = "hal"
          /\ UNCHANGED << companionVars, serialVars, pollerVars, updateVars, backupVars,
                          flashVars, broadcastVars, sweepVars, locationVars, buttonVars >>
          /\ Hal!Next
       \/ /\ part = "sweep"
          /\ UNCHANGED << companionVars, serialVars, pollerVars, updateVars, backupVars,
                          flashVars, broadcastVars, halVars, locationVars, buttonVars >>
          /\ Sweep!Next
       \/ /\ part = "location"
          /\ UNCHANGED << companionVars, serialVars, pollerVars, updateVars, backupVars,
                          flashVars, broadcastVars, halVars, sweepVars, buttonVars >>
          /\ Position!Next
       \/ /\ part = "button"
          /\ UNCHANGED << companionVars, serialVars, pollerVars, updateVars, backupVars,
                          flashVars, broadcastVars, halVars, sweepVars, locationVars >>
          /\ Button!Next

vars == << part, companionVars, serialVars, pollerVars, updateVars, backupVars, flashVars,
           broadcastVars, halVars, sweepVars, locationVars, buttonVars >>

active ==
    CASE part = "companion" -> companionVars
      [] part = "serial" -> serialVars
      [] part = "poller" -> pollerVars
      [] part = "update" -> updateVars
      [] part = "backup" -> backupVars
      [] part = "flash" -> flashVars
      [] part = "broadcast" -> broadcastVars
      [] part = "hal" -> halVars
      [] part = "sweep" -> sweepVars
      [] part = "location" -> locationVars
      [] part = "button" -> buttonVars

(* The fairness of each component. A behaviour is about one of them, so    *)
(* one condition may stand for an action of each: the disjuncts of the     *)
(* others are never enabled in it.                                         *)
Fairness ==
    /\ \A s \in Companion!Slots : WF_active(UNCHANGED part /\ part = "companion" /\ Companion!ReconnectStep(s))
    /\ \A s \in Companion!Slots : WF_active(UNCHANGED part /\ part = "companion" /\ Companion!HealthStep(s))
    /\ \A c \in Companion!Clients : WF_active(UNCHANGED part /\ part = "companion" /\ Companion!RequestStep(c))
    /\ WF_active(UNCHANGED part /\
        (  \/ part = "companion" /\ Companion!WindowPasses
           \/ part = "poller" /\ Poller!Loop
           \/ part = "broadcast" /\ Broadcast!LoopStep
           \/ part = "hal" /\ Hal!MainStep
           \/ part = "sweep" /\ Sweep!LoopStep
           \/ part = "location" /\ Position!SendLive))
    /\ \A w \in Workers : WF_active(UNCHANGED part /\
        (  \/ part = "serial" /\ Serial!Step(w)
           \/ part = "update" /\ Update!ScriptStep(w)
           \/ part = "backup" /\ Backup!ScriptStep(w)
           \/ part = "flash" /\ Flash!Work(w)))
    /\ \A w \in Workers : SF_active(UNCHANGED part /\
        (  \/ part = "serial" /\ Serial!Attempt(w)
           \/ part = "hal" /\ Hal!WrapperStop
           \/ part = "location" /\ Position!ReaderStep))
    /\ \A w \in Workers : WF_active(UNCHANGED part /\ part = "serial" /\ (Serial!Read(w) \/ Serial!ReaderEnds(w)))
    /\ WF_active(UNCHANGED part /\
        (  \/ part = "poller" /\ Poller!CompanionReset
           \/ part = "broadcast" /\ Broadcast!Tick
           \/ part = "hal" /\ Hal!CaptureStep))

Spec == Init /\ [][Next]_vars /\ Fairness

-----------------------------------------------------------------------------
(* Type correctness of every component.                                    *)
TypeOK ==
    /\ part = "companion" => Companion!TypeOK
    /\ part = "serial" => Serial!TypeOK
    /\ part = "poller" => Poller!TypeOK
    /\ part = "update" => Update!TypeOK
    /\ part = "backup" => Backup!TypeOK
    /\ part = "flash" => Flash!TypeOK
    /\ part = "broadcast" => Broadcast!TypeOK
    /\ part = "hal" => Hal!TypeOK
    /\ part = "sweep" => Sweep!TypeOK
    /\ part = "location" => Position!TypeOK
    /\ part = "button" => Button!TypeOK

(* Attached devices: never two at the companion's port, a running source   *)
(* always has a task that watches it and stop() leaves nothing behind; a   *)
(* stick's source queues its own stick's packets only, the dashboard shows *)
(* what the stick has stored and a flash finds the source stopped.         *)
DevicesHeld ==
    /\ part = "companion" => /\ Companion!PortExclusive
                             /\ Companion!Supervised
                             /\ Companion!StopReleases
    /\ part = "serial" => /\ Serial!OwnPacketsOnly
                          /\ Serial!InfoTruthful
                          /\ Serial!FlashFindsSourceStopped

(* Readings: what was known of a repeater is not blanked by an unanswered  *)
(* poll and a neighbour report is stored once; a position with a fix       *)
(* stays.                                                                  *)
ReadingsKept ==
    /\ part = "poller" => /\ Poller!KnownKept
                          /\ Poller!NotRestamped
    /\ part = "location" => Position!FixStays

(* Update, restore and firmware: the rollback pointer names a commit that  *)
(* has run, the service runs what was asked for and prepared for it; a     *)
(* restore destroys nothing without a copy and leaves the archive and      *)
(* nothing else; a flashed release is whole, who keeps the port is stopped *)
(* for the tool, a sketch is flashed as it was compiled for.               *)
FilesSafe ==
    /\ part = "update" => /\ Update!PointerServed
                          /\ Update!ReadyToServe
    /\ part = "backup" => /\ Backup!NothingLost
                          /\ Backup!RestoredIsArchive
    /\ part = "flash" => /\ Flash!FlashedWhole
                         /\ Flash!HolderReleased
                         /\ Flash!FlashedAsAsked

(* Broadcasts and the button: no broadcast is attempted early and the loop *)
(* does not sleep past the due time it shows; one restart per press, and   *)
(* only by a held one; adverts are spaced and try every radio.             *)
ActsOnTime ==
    /\ part = "broadcast" => /\ Broadcast!Paced
                             /\ Broadcast!NotOverslept
    /\ part = "button" => /\ Button!OneRestartPerPress
                          /\ Button!RestartNeedsHold
                          /\ Button!AdvertsSpaced
                          /\ Button!AdvertTriesAll

(* The concentrator: no call on the wrong register page or to a stopped    *)
(* chip but the named ones, no capture of our own signal, a running source *)
(* is tuned; a cleared calibration stays cleared.                          *)
ChipGuarded ==
    /\ part = "hal" => /\ Hal!PageRespected
                       /\ Hal!UsedWhileStarted
                       /\ Hal!CaptureQuiet
                       /\ Hal!RunningIsTuned
    /\ part = "sweep" => Sweep!ClearedStays

(* The position that goes out with a broadcast is the latest one with a    *)
(* fix, exact only when asked.                                             *)
PositionTold ==
    /\ Position!LiveIsLatest
    /\ Position!ExactOnlyWhenAsked

(* A silent companion is reset and reconnected, a stick that could not be  *)
(* opened is opened in the end, a wiped roster does not stop the polling,  *)
(* a broadcaster goes on after a pause or a failure, the location reader   *)
(* comes back.                                                             *)
DevicesComeBack ==
    /\ Companion!Recovers
    /\ Serial!ComesUp
    /\ Poller!PolledAgain
    /\ Broadcast!GoesOn
    /\ Position!ComesBack

(* What is started ends: an update or restore in a service that runs, a    *)
(* flash with the port's holder back, work on the chip with the event loop *)
(* free, a requested sweep or calibration in its result.                   *)
WorkEnds ==
    /\ Update!Deployed
    /\ Backup!ServiceBack
    /\ Flash!HolderBack
    /\ Hal!LoopReturns
    /\ Sweep!SweepServed
    /\ Sweep!CalibrationServed
==============================================================================
