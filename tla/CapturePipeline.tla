--------------------------- MODULE CapturePipeline ---------------------------
(***************************************************************************)
(* From the radios to the consumers: the capture sources and their reader  *)
(* tasks (src/capture/capture_coordinator.py, with the concentrator source *)
(* of src/capture/concentrator_source.py as the one that can be restarted  *)
(* in place), the bounded queue between them and the pipeline, and the     *)
(* pipeline itself (src/coordinator.py: start, stop, _run_pipeline and     *)
(* _process_capture with what it calls).                                   *)
(*                                                                         *)
(* A captured frame is a number; its kind is what decoding makes of it.    *)
(* Decoders, database, callbacks, relay and MQTT appear by their outcome.  *)
(***************************************************************************)
EXTENDS Integers, Sequences, FiniteSets

CONSTANTS
    NumSources,      \* how many sources are registered
    Concentrator,    \* the one behind "restart concentrator"
    MaxQueue,        \* max_queue_size
    MaxFrames,       \* bound: frames captured
    MaxRestarts,     \* bound: restarts of the concentrator
    MaxFaults        \* bound: failures of sources and of the radio

(* A source is its place in the order of registration.                     *)
Sources == 1 .. NumSources

ASSUME CaptureAssumption ==
    /\ NumSources \in Nat /\ Concentrator \in Sources
    /\ MaxQueue \in Nat \ {0}
    /\ MaxFrames \in Nat /\ MaxRestarts \in Nat /\ MaxFaults \in Nat

(***************************************************************************)
(* "broken" makes an adapter or a classifier raise; "stray" decodes to     *)
(* nothing; "ignored" is a plugin's tier or the pager's own echo;          *)
(* "blacklisted" is the other tier; "ack" acknowledges a page.             *)
(***************************************************************************)
Kinds == {"broken", "stray", "ignored", "blacklisted", "ack", "message"}

VARIABLES
    phase,       \* life of the PipelineCoordinator
    next,        \* start(): the next source to start
    up,          \* _running of each source
    reader,      \* the _run_source task of each source
    restart,     \* restart_pipeline(): "none" or "pausing"
    capturing,   \* CaptureCoordinator._running
    processing,  \* PipelineCoordinator._running
    queue,       \* _queue
    pipe,        \* where _run_pipeline is suspended
    inHand,      \* the frame being processed, or 0
    db,          \* whether the database is connected
    \* history
    kinds,       \* kind of each frame captured so far
    full,        \* frames dropped because the queue was full
    handled,     \* frames the pipeline is done with, in that order
    shown, stored, relayed, published, counted, acked,
    restarts, faults

sources == << up, reader, restart, restarts, faults >>
life == << phase, next, capturing, processing, db >>
outputs == << handled, shown, stored, relayed, published, counted, acked >>
vars == << life, sources, queue, pipe, inHand, kinds, full, outputs >>

Init ==
    /\ phase = "off" /\ next = 1 /\ db = FALSE
    /\ capturing = FALSE /\ processing = FALSE
    /\ up = [s \in Sources |-> FALSE] /\ reader = [s \in Sources |-> "none"]
    /\ restart = "none" /\ restarts = 0 /\ faults = 0
    /\ queue = << >> /\ pipe = "none" /\ inHand = 0
    /\ kinds = << >> /\ full = {}
    /\ handled = << >> /\ shown = {} /\ stored = {} /\ relayed = {}
    /\ published = {} /\ counted = {} /\ acked = {}

Kind(m) == kinds[m]
MayFail == faults < MaxFaults
Fault == faults' = faults + 1

-----------------------------------------------------------------------------
(* start(): the database, then the sources one after the other.            *)
Start ==
    /\ phase = "off"
    /\ phase' = "starting" /\ db' = TRUE /\ capturing' = TRUE
    /\ UNCHANGED << next, processing, sources, queue, pipe, inHand, kinds, full, outputs >>

StartSource ==
    /\ phase = "starting" /\ next <= NumSources
    /\ up' = [up EXCEPT ![next] = TRUE]
    /\ reader' = [reader EXCEPT ![next] = "reading"]
    /\ next' = next + 1
    /\ UNCHANGED << phase, capturing, processing, db, restart, restarts, faults,
                    queue, pipe, inHand, kinds, full, outputs >>

(* A source that does not start is left out; the others go on.             *)
SourceFailsToStart ==
    /\ phase = "starting" /\ next <= NumSources /\ MayFail
    /\ Fault
    /\ next' = next + 1
    /\ UNCHANGED << phase, capturing, processing, db, up, reader, restart, restarts,
                    queue, pipe, inHand, kinds, full, outputs >>

(* A missing dependency aborts the start.                                  *)
StartAborts ==
    /\ phase = "starting" /\ next <= NumSources /\ MayFail
    /\ Fault
    /\ phase' = "aborted"
    /\ UNCHANGED << next, capturing, processing, db, up, reader, restart, restarts,
                    queue, pipe, inHand, kinds, full, outputs >>

(* All sources are up; the pipeline task is created.                       *)
Started ==
    /\ phase = "starting" /\ next > NumSources
    /\ phase' = "running" /\ processing' = TRUE /\ pipe' = "waiting"
    /\ UNCHANGED << next, capturing, db, sources, queue, inHand, kinds, full, outputs >>

(* stop(): the flags first ...                                             *)
Stop ==
    /\ phase = "running"
    /\ phase' = "stopping" /\ processing' = FALSE /\ capturing' = FALSE
    /\ UNCHANGED << next, db, sources, queue, pipe, inHand, kinds, full, outputs >>

(* ... then the sources and their readers ...                              *)
StopSources ==
    /\ phase = "stopping"
    /\ phase' = "cancelling"
    /\ up' = [s \in Sources |-> FALSE]
    /\ reader' = [s \in Sources |-> IF reader[s] = "reading" THEN "ended" ELSE reader[s]]
    /\ UNCHANGED << next, capturing, processing, db, restart, restarts, faults,
                    queue, pipe, inHand, kinds, full, outputs >>

(* A slip: the queue is joined before the pipeline is cancelled.           *)
JoinQueueFirst ==
    /\ phase = "cancelling" /\ queue = << >>
    /\ phase' = "stopped" /\ pipe' = "ended" /\ inHand' = 0 /\ db' = FALSE
    /\ UNCHANGED << next, capturing, processing, sources, queue, kinds, full, outputs >>

(* ... then the pipeline, which is awaited, and at last the database.      *)
CancelPipeline ==
    /\ phase = "cancelling"
    /\ phase' = "stopped" /\ pipe' = "ended" /\ inHand' = 0 /\ db' = FALSE
    /\ UNCHANGED << next, capturing, processing, sources, queue, kinds, full, outputs >>

-----------------------------------------------------------------------------
(* A slip: the queue has no bound.                                         *)
PutUnbounded(q, m) == Append(q, m)

(* put_nowait(): a full queue refuses the frame.                           *)
Put(q, m) == IF Len(q) < MaxQueue THEN Append(q, m) ELSE q

(* packets() yields a frame and _run_source queues it or drops it.         *)
Capture(s, kind) ==
    /\ reader[s] = "reading" /\ up[s] /\ capturing
    /\ Len(kinds) < MaxFrames
    /\ kinds' = Append(kinds, kind)
    /\ queue' = Put(queue, Len(kinds) + 1)
    /\ full' = IF Len(queue) < MaxQueue THEN full ELSE full \cup {Len(kinds) + 1}
    /\ UNCHANGED << life, sources, pipe, inHand, outputs >>

(* packets() ends because the source is no longer running, or _run_source  *)
(* leaves it because the coordinator is not.                               *)
ReaderEnds(s) ==
    /\ reader[s] = "reading" /\ (~ up[s] \/ ~ capturing)
    /\ reader' = [reader EXCEPT ![s] = "ended"]
    /\ UNCHANGED << life, up, restart, restarts, faults, queue, pipe, inHand, kinds,
                    full, outputs >>

(* The source raises; its reader is gone, whatever is_running says.        *)
ReaderCrashes(s) ==
    /\ reader[s] = "reading" /\ MayFail
    /\ Fault
    /\ reader' = [reader EXCEPT ![s] = "ended"]
    /\ UNCHANGED << life, up, restart, restarts, queue, pipe, inHand, kinds, full, outputs >>

(* restart_pipeline() of the concentrator: stop, pause, start again.       *)
RestartConcentrator ==
    /\ phase = "running" /\ restart = "none" /\ restarts < MaxRestarts
    /\ restart' = "pausing" /\ restarts' = restarts + 1
    /\ up' = [up EXCEPT ![Concentrator] = FALSE]
    /\ UNCHANGED << life, reader, faults, queue, pipe, inHand, kinds, full, outputs >>

ConcentratorRestarted ==
    /\ restart = "pausing"
    /\ restart' = "none"
    /\ up' = [up EXCEPT ![Concentrator] = TRUE]
    /\ UNCHANGED << life, reader, restarts, faults, queue, pipe, inHand, kinds, full, outputs >>

ConcentratorRestartFails ==
    /\ restart = "pausing" /\ MayFail
    /\ Fault
    /\ restart' = "none"
    /\ UNCHANGED << life, up, reader, restarts, queue, pipe, inHand, kinds, full, outputs >>

-----------------------------------------------------------------------------
(* _process_capture, cut at its awaits.                                    *)
Done(m) == handled' = Append(handled, m)

(* A slip: a blacklisted frame goes on after it was shown.                 *)
BlacklistFallsThrough(m) ==
    /\ Kind(m) = "blacklisted"
    /\ shown' = shown \cup {m}
    /\ pipe' = "storing" /\ inHand' = m
    /\ UNCHANGED << handled, stored, relayed, published, counted, acked >>

Discard(m) ==
    /\ Kind(m) \in {"stray", "ignored"}
    /\ Done(m)
    /\ UNCHANGED << pipe, inHand, shown, stored, relayed, published, counted, acked >>

ShowOnly(m) ==
    /\ Kind(m) = "blacklisted"
    /\ shown' = shown \cup {m}
    /\ Done(m)
    /\ UNCHANGED << pipe, inHand, stored, relayed, published, counted, acked >>

BeginStoring(m) ==
    /\ Kind(m) \in {"ack", "message"}
    /\ pipe' = IF Kind(m) = "ack" THEN "acking" ELSE "storing"
    /\ inHand' = m
    /\ UNCHANGED outputs

(* The exception leaves _process_capture and ends _run_pipeline.           *)
PipelineError(m) ==
    /\ Kind(m) = "broken"
    /\ pipe' = "ended" /\ inHand' = 0
    /\ Done(m)
    /\ UNCHANGED << shown, stored, relayed, published, counted, acked >>

(* The pipeline gets the oldest frame from the queue and decodes it.       *)
Take ==
    /\ pipe = "waiting" /\ capturing /\ processing /\ queue # << >>
    /\ queue' = Tail(queue)
    /\ \/ Discard(Head(queue)) \/ ShowOnly(Head(queue))
       \/ BeginStoring(Head(queue)) \/ PipelineError(Head(queue))
    /\ UNCHANGED << life, sources, kinds, full >>

(* packets() or the loop around it finds the flag cleared.                 *)
PipelineLeaves ==
    /\ pipe = "waiting" /\ (~ capturing \/ ~ processing)
    /\ pipe' = "ended"
    /\ UNCHANGED << life, sources, queue, inHand, kinds, full, outputs >>

(* update_pager_status() is not guarded by a try.                          *)
AckStored ==
    /\ pipe = "acking"
    /\ acked' = acked \cup {inHand}
    /\ Done(inHand) /\ pipe' = "waiting" /\ inHand' = 0
    /\ UNCHANGED << life, sources, queue, kinds, full, shown, stored, relayed,
                    published, counted >>

AckStoreFails ==
    /\ pipe = "acking" /\ MayFail
    /\ Fault
    /\ Done(inHand) /\ pipe' = "ended" /\ inHand' = 0
    /\ UNCHANGED << life, up, reader, restart, restarts, queue, kinds, full, shown,
                    stored, relayed, published, counted, acked >>

(* A slip: a packet that could not be stored is given up.                  *)
GiveUpUnstored ==
    /\ pipe = "storing" /\ MayFail
    /\ Fault
    /\ Done(inHand) /\ pipe' = "waiting" /\ inHand' = 0
    /\ UNCHANGED << life, up, reader, restart, restarts, queue, kinds, full, shown,
                    stored, relayed, published, counted, acked >>

(* _store_packet() returned: callbacks, then the relay is awaited.         *)
Stored ==
    /\ pipe = "storing"
    /\ stored' = stored \cup {inHand} /\ shown' = shown \cup {inHand}
    /\ pipe' = "relaying"
    /\ UNCHANGED << life, sources, queue, inHand, kinds, full, handled, relayed,
                    published, counted, acked >>

(* The database raised: logged, and the packet goes on.                    *)
StoreFails ==
    /\ pipe = "storing" /\ MayFail
    /\ Fault
    /\ shown' = shown \cup {inHand}
    /\ pipe' = "relaying"
    /\ UNCHANGED << life, up, reader, restart, restarts, queue, inHand, kinds, full,
                    handled, stored, relayed, published, counted, acked >>

(* process_packet() of the relay returned; MQTT and statistics follow.     *)
Relayed ==
    /\ pipe = "relaying"
    /\ relayed' = relayed \cup {inHand} /\ published' = published \cup {inHand}
    /\ counted' = counted \cup {inHand}
    /\ Done(inHand) /\ pipe' = "waiting" /\ inHand' = 0
    /\ UNCHANGED << life, sources, queue, kinds, full, shown, stored, acked >>

Next ==
    \/ Start \/ StartSource \/ SourceFailsToStart \/ StartAborts \/ Started
    \/ Stop \/ StopSources \/ CancelPipeline
    \/ \E s \in Sources : \/ \E kind \in Kinds : Capture(s, kind)
                          \/ ReaderEnds(s) \/ ReaderCrashes(s)
    \/ RestartConcentrator \/ ConcentratorRestarted \/ ConcentratorRestartFails
    \/ Take \/ PipelineLeaves
    \/ AckStored \/ AckStoreFails \/ Stored \/ StoreFails \/ Relayed

(* Coroutines that can go on do, and so does the operator's stop once it   *)
(* was begun; frames, faults, restarts and the stop itself may never come. *)
Fairness ==
    /\ WF_vars(StartSource) /\ WF_vars(Started)
    /\ WF_vars(StopSources) /\ WF_vars(CancelPipeline)
    /\ \A s \in Sources : WF_vars(ReaderEnds(s))
    /\ WF_vars(ConcentratorRestarted \/ ConcentratorRestartFails)
    /\ WF_vars(Take) /\ WF_vars(PipelineLeaves)
    /\ WF_vars(AckStored \/ AckStoreFails) /\ WF_vars(Stored \/ StoreFails)
    /\ WF_vars(Relayed)

Spec == Init /\ [][Next]_vars
FairSpec == Spec /\ Fairness

-----------------------------------------------------------------------------
Frames == 1 .. Len(kinds)
Elements(seq) == {seq[i] : i \in DOMAIN seq}

TypeOK ==
    /\ phase \in {"off", "starting", "running", "stopping", "cancelling", "stopped", "aborted"}
    /\ next \in 1 .. NumSources + 1
    /\ {capturing, processing, db} \subseteq BOOLEAN
    /\ up \in [Sources -> BOOLEAN]
    /\ reader \in [Sources -> {"none", "reading", "ended"}]
    /\ restart \in {"none", "pausing"} /\ {restarts, faults} \subseteq Nat
    /\ queue \in Seq(Frames) /\ Len(queue) <= MaxQueue
    /\ pipe \in {"none", "waiting", "acking", "storing", "relaying", "ended"}
    /\ inHand \in 0 .. Len(kinds)
    /\ kinds \in Seq(Kinds) /\ handled \in Seq(Frames)
    /\ \A set \in {full, shown, stored, relayed, published, counted, acked} : set \subseteq Frames

(* Frames of all sources leave the pipeline in the order in which they     *)
(* were captured, none twice, also over restarts of a source.              *)
InCaptureOrder == \A i, j \in DOMAIN handled : i < j => handled[i] < handled[j]

(* A frame is passed over only when the queue was full: while the pipeline *)
(* lives, every frame before the newest one it is done with was handled,   *)
(* was refused by the full queue, or is in its hand.                       *)
OnlyFullDrops ==
    pipe # "ended" =>
        \A m \in Frames : m \in Elements(handled) \cup Elements(queue) \cup full \cup {inHand}

(* The tiers of protocol_registry.py and the pager's special cases, over   *)
(* the whole of _process_capture: "ignore" is "dropped entirely, not even  *)
(* shown live", "blacklist" is "shown live, never stored/relayed/published" *)
(* and an acknowledgement is neither stored nor shown.                     *)
TiersRespected ==
    /\ \A m \in shown : Kind(m) \in {"blacklisted", "message"}
    /\ \A m \in stored \cup relayed \cup published \cup counted : Kind(m) = "message"
    /\ \A m \in acked : Kind(m) = "ack"

(* From capture to the consumers: the order, the losses and the tiers.     *)
CaptureOrder == InCaptureOrder /\ OnlyFullDrops /\ TiersRespected

(* A failure of the database costs a message its row and nothing else: the *)
(* dashboard, the relay, MQTT and the statistics all still get it.         *)
StoringIsOptional ==
    \A m \in Elements(handled) :
        Kind(m) = "message" => m \in shown \cap relayed \cap published \cap counted

(* stop() disconnects the database only when nobody is using it any more.  *)
DbOpenWhenUsed == pipe \in {"acking", "storing"} => db

(* Storing neither costs a message its other consumers nor meets a closed  *)
(* database.                                                               *)
StorageGuarded == StoringIsOptional /\ DbOpenWhenUsed

(* A queued frame is taken up, unless the pipeline ends first.             *)
QueueDrains == (queue # << >>) ~> (queue = << >> \/ pipe = "ended" \/ phase = "aborted")

(* stop() always gets to its end, with every reader and the pipeline gone. *)
StopCompletes ==
    (phase = "stopping") ~> /\ phase = "stopped" /\ pipe = "ended"
                            /\ \A s \in Sources : reader[s] # "reading"

(* The pipeline works its queue off, and stop() gets to its end.           *)
DrainsAndStops == QueueDrains /\ StopCompletes

(* restart_pipeline(): "Stop RX, reset the SX1302, and restart without     *)
(* restarting meshpoint": after the restart the concentrator is read again. *)
RestartResumes ==
    (restart = "pausing") ~> \/ restart = "none" /\ reader[Concentrator] = "reading"
                             \/ phase # "running"
=============================================================================
