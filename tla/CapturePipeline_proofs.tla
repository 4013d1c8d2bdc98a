----------------------- MODULE CapturePipeline_proofs ------------------------
(***************************************************************************)
(* Proofs about CapturePipeline, for every number of sources, every queue  *)
(* size and every number of frames, restarts and faults.                   *)
(*                                                                         *)
(* The argument: frames are numbered as captured, and what the pipeline is *)
(* done with, what it has in hand and what is queued are, in that order,   *)
(* strictly increasing; a frame that is in none of the three was refused   *)
(* by the full queue.  A message has been shown before it is relayed, and  *)
(* the database is open from start() until the pipeline is gone.           *)
(***************************************************************************)
EXTENDS CapturePipeline, TLAPS

Busy == {"acking", "storing", "relaying"}

(* The frame in hand is the one being processed.                           *)
HandBusy ==
    /\ pipe \in Busy <=> inHand # 0
    /\ pipe = "acking" => Kind(inHand) = "ack"
    /\ pipe \in {"storing", "relaying"} => Kind(inHand) = "message"
    /\ pipe = "relaying" => inHand \in shown

(* Done, in hand, queued: in the order of capture.                         *)
Increasing(seq) == \A i, j \in 1 .. Len(seq) : i < j => seq[i] < seq[j]

Ordered ==
    /\ Increasing(handled) /\ Increasing(queue)
    /\ \A i \in 1 .. Len(handled), j \in 1 .. Len(queue) : handled[i] < queue[j]
    /\ inHand # 0 => /\ \A i \in 1 .. Len(handled) : handled[i] < inHand
                     /\ \A j \in 1 .. Len(queue) : inHand < queue[j]

(* The database outlives every use of it.                                  *)
DbScoped ==
    /\ phase \in {"starting", "running", "stopping", "cancelling"} => db
    /\ phase \in {"off", "starting", "aborted"} <=> pipe = "none"
    /\ phase = "stopped" => pipe = "ended"

(* The type invariant in two parts: the coordinators and their sources,    *)
(* and the frames.                                                         *)
LifeType ==
    /\ phase \in {"off", "starting", "running", "stopping", "cancelling", "stopped", "aborted"}
    /\ next \in 1 .. NumSources + 1
    /\ up \in [Sources -> BOOLEAN]
    /\ reader \in [Sources -> {"none", "reading", "ended"}]
    /\ restart \in {"none", "pausing"} /\ restarts \in Nat /\ faults \in Nat

Flags == capturing \in BOOLEAN /\ processing \in BOOLEAN /\ db \in BOOLEAN

FrameType ==
    /\ queue \in Seq(Frames) /\ Len(queue) <= MaxQueue
    /\ pipe \in {"none", "waiting", "acking", "storing", "relaying", "ended"}
    /\ inHand \in 0 .. Len(kinds)
    /\ kinds \in Seq(Kinds) /\ handled \in Seq(Frames)
    /\ full \subseteq Frames /\ shown \subseteq Frames /\ stored \subseteq Frames
    /\ relayed \subseteq Frames /\ published \subseteq Frames
    /\ counted \subseteq Frames /\ acked \subseteq Frames

FlowInv ==
    /\ FrameType /\ HandBusy /\ Ordered
    /\ OnlyFullDrops /\ TiersRespected /\ StoringIsOptional

Inv == LifeType /\ Flags /\ FlowInv /\ DbScoped

-----------------------------------------------------------------------------
LEMMA AppendFacts ==
  ASSUME NEW T, NEW s \in Seq(T), NEW x \in T
  PROVE  /\ Append(s, x) \in Seq(T) /\ Len(Append(s, x)) = Len(s) + 1
         /\ \A i \in 1 .. Len(s) : Append(s, x)[i] = s[i]
         /\ Append(s, x)[Len(s) + 1] = x
OBVIOUS

LEMMA TailFacts ==
  ASSUME NEW T, NEW s \in Seq(T), s # << >>
  PROVE  /\ Tail(s) \in Seq(T) /\ Len(Tail(s)) = Len(s) - 1 /\ Len(s) >= 1
         /\ \A i \in 1 .. Len(s) - 1 : Tail(s)[i] = s[i + 1]
         /\ Head(s) = s[1] /\ Head(s) \in T
OBVIOUS

LEMMA SeqOver ==
  ASSUME NEW T, NEW U, NEW s \in Seq(T), T \subseteq U
  PROVE  s \in Seq(U)
OBVIOUS

(* The elements of a sequence, of one that is longer by one, of a tail.    *)
LEMMA ElementsAppend ==
  ASSUME NEW T, NEW s \in Seq(T), NEW x \in T
  PROVE  Elements(Append(s, x)) = Elements(s) \cup {x}
<1>1. /\ Len(Append(s, x)) = Len(s) + 1 /\ Append(s, x) \in Seq(T)
      /\ \A i \in 1 .. Len(s) : Append(s, x)[i] = s[i]
      /\ Append(s, x)[Len(s) + 1] = x /\ Len(s) \in Nat
  BY AppendFacts
<1>2. ASSUME NEW y \in Elements(Append(s, x)) PROVE y \in Elements(s) \cup {x}
  <2>1. PICK i \in 1 .. Len(s) + 1 : y = Append(s, x)[i]
    BY <1>1 DEF Elements
  <2>2. CASE i = Len(s) + 1
    BY <1>1, <2>1, <2>2
  <2>3. CASE i # Len(s) + 1
    <3>1. i \in 1 .. Len(s) /\ y = s[i]
      BY <1>1, <2>1, <2>3
    <3>2. QED
      BY <3>1 DEF Elements
  <2>4. QED
    BY <2>2, <2>3
<1>3. ASSUME NEW y \in Elements(s) PROVE y \in Elements(Append(s, x))
  <2>1. PICK i \in 1 .. Len(s) : y = s[i]
    BY DEF Elements
  <2>2. i \in 1 .. Len(Append(s, x)) /\ y = Append(s, x)[i]
    BY <1>1, <2>1
  <2>3. QED
    BY <1>1, <2>2 DEF Elements
<1>4. x \in Elements(Append(s, x))
  BY <1>1 DEF Elements
<1>5. QED
  BY <1>2, <1>3, <1>4

LEMMA ElementsTail ==
  ASSUME NEW T, NEW s \in Seq(T), s # << >>
  PROVE  Elements(s) = Elements(Tail(s)) \cup {Head(s)}
<1>1. /\ Tail(s) \in Seq(T) /\ Len(Tail(s)) = Len(s) - 1 /\ Len(s) \in Nat /\ Len(s) >= 1
      /\ \A i \in 1 .. Len(s) - 1 : Tail(s)[i] = s[i + 1]
      /\ Head(s) = s[1]
  BY TailFacts
<1>2. ASSUME NEW y \in Elements(s) PROVE y \in Elements(Tail(s)) \cup {Head(s)}
  <2>1. PICK i \in 1 .. Len(s) : y = s[i]
    BY DEF Elements
  <2>2. CASE i = 1
    BY <1>1, <2>1, <2>2
  <2>3. CASE i # 1
    <3>1. i - 1 \in 1 .. Len(Tail(s)) /\ y = Tail(s)[i - 1]
      BY <1>1, <2>1, <2>3
    <3>2. DOMAIN Tail(s) = 1 .. Len(Tail(s))
      BY <1>1
    <3>3. QED
      BY <3>1, <3>2 DEF Elements
  <2>4. QED
    BY <2>2, <2>3
<1>3. ASSUME NEW y \in Elements(Tail(s)) PROVE y \in Elements(s)
  <2>1. PICK i \in 1 .. Len(s) - 1 : y = Tail(s)[i]
    BY <1>1 DEF Elements
  <2>2. i + 1 \in 1 .. Len(s) /\ y = s[i + 1]
    BY <1>1, <2>1
  <2>3. QED
    BY <2>2 DEF Elements
<1>4. Head(s) \in Elements(s)
  BY <1>1 DEF Elements
<1>5. QED
  BY <1>2, <1>3, <1>4

-----------------------------------------------------------------------------
LEMMA TypeParts == LifeType /\ Flags /\ FrameType => TypeOK
BY DEF LifeType, Flags, FrameType, TypeOK

LEMMA InitInv == Init => Inv
<1> SUFFICES ASSUME Init PROVE Inv
  OBVIOUS
<1>1. Flags
  BY Zenon DEF Init, Flags
<1>2. LifeType
  <2>1. next \in 1 .. NumSources + 1
    BY CaptureAssumption DEF Init
  <2>2. up \in [Sources -> BOOLEAN] /\ reader \in [Sources -> {"none", "reading", "ended"}]
    BY DEF Init
  <2>3. QED
    BY <2>1, <2>2 DEF Init, LifeType
<1>3. FlowInv
  <2>1. /\ queue = << >> /\ handled = << >> /\ kinds = << >>
        /\ Len(queue) = 0 /\ Len(handled) = 0 /\ Len(kinds) = 0
        /\ pipe = "none" /\ inHand = 0
        /\ full = {} /\ shown = {} /\ stored = {} /\ relayed = {}
        /\ published = {} /\ counted = {} /\ acked = {}
    BY DEF Init
  <2>2. Frames = {} /\ Elements(handled) = {}
    BY <2>1 DEF Frames, Elements
  <2>3. FrameType
    BY <2>1, <2>2, CaptureAssumption DEF FrameType
  <2>4. HandBusy /\ Ordered
    BY <2>1 DEF HandBusy, Ordered, Increasing, Busy
  <2>5. OnlyFullDrops /\ TiersRespected /\ StoringIsOptional
    BY <2>1, <2>2 DEF OnlyFullDrops, TiersRespected, StoringIsOptional
  <2>6. QED
    BY <2>3, <2>4, <2>5 DEF FlowInv
<1>4. DbScoped
  BY DEF Init, DbScoped
<1>5. QED
  BY <1>1, <1>2, <1>3, <1>4 DEF Inv

-----------------------------------------------------------------------------
(* Life of the coordinators and the sources.                               *)
LEMMA FlagsStep ==
  ASSUME Flags, [Next]_vars
  PROVE  Flags'
<1>1. capturing' = capturing \/ capturing' = TRUE \/ capturing' = FALSE
  BY Zenon DEF Next, vars, life, Start, StartSource, SourceFailsToStart, StartAborts, Started, Stop,
     StopSources, CancelPipeline, Capture, ReaderEnds, ReaderCrashes, RestartConcentrator,
     ConcentratorRestarted, ConcentratorRestartFails, Take, PipelineLeaves, AckStored,
     AckStoreFails, Stored, StoreFails, Relayed
<1>2. processing' = processing \/ processing' = TRUE \/ processing' = FALSE
  BY Zenon DEF Next, vars, life, Start, StartSource, SourceFailsToStart, StartAborts, Started, Stop,
     StopSources, CancelPipeline, Capture, ReaderEnds, ReaderCrashes, RestartConcentrator,
     ConcentratorRestarted, ConcentratorRestartFails, Take, PipelineLeaves, AckStored,
     AckStoreFails, Stored, StoreFails, Relayed
<1>3. db' = db \/ db' = TRUE \/ db' = FALSE
  BY Zenon DEF Next, vars, life, Start, StartSource, SourceFailsToStart, StartAborts, Started, Stop,
     StopSources, CancelPipeline, Capture, ReaderEnds, ReaderCrashes, RestartConcentrator,
     ConcentratorRestarted, ConcentratorRestartFails, Take, PipelineLeaves, AckStored,
     AckStoreFails, Stored, StoreFails, Relayed
<1>4. QED
  BY <1>1, <1>2, <1>3, Zenon DEF Flags

LEMMA LifeStep ==
  ASSUME LifeType, [Next]_vars
  PROVE  LifeType'
<1>1. CASE StartSource
  <2>1. next \in Sources /\ next' \in 1 .. NumSources + 1
    BY <1>1, CaptureAssumption DEF StartSource, LifeType, Sources
  <2>2. QED
    BY <1>1, <2>1 DEF StartSource, LifeType
<1>2. CASE SourceFailsToStart \/ StartAborts
  <2>1. next' \in 1 .. NumSources + 1
    BY <1>2, CaptureAssumption DEF SourceFailsToStart, StartAborts, LifeType
  <2>2. QED
    BY <1>2, <2>1 DEF SourceFailsToStart, StartAborts, LifeType, Fault
<1>3. CASE Start \/ Started \/ Stop \/ CancelPipeline
  BY <1>3 DEF LifeType, sources, Start, Started, Stop, CancelPipeline
<1>4. CASE StopSources
  BY <1>4 DEF LifeType, StopSources
<1>5. CASE RestartConcentrator \/ ConcentratorRestarted \/ ConcentratorRestartFails
  <2>1. up' \in [Sources -> BOOLEAN]
    BY <1>5, CaptureAssumption, Zenon DEF LifeType, RestartConcentrator,
       ConcentratorRestarted, ConcentratorRestartFails
  <2>2. QED
    BY <1>5, <2>1 DEF LifeType, life, Fault, RestartConcentrator,
       ConcentratorRestarted, ConcentratorRestartFails
<1>6. ASSUME NEW s \in Sources, ReaderEnds(s) \/ ReaderCrashes(s)
      PROVE  LifeType'
  BY <1>6 DEF LifeType, life, Fault, ReaderEnds, ReaderCrashes
<1>7. CASE AckStoreFails \/ StoreFails
  BY <1>7 DEF LifeType, life, Fault, AckStoreFails, StoreFails
<1>8. CASE UNCHANGED << life, sources >>
  BY <1>8 DEF LifeType, life, sources
<1>9. QED
  BY <1>1, <1>2, <1>3, <1>4, <1>5, <1>6, <1>7, <1>8
  DEF Next, vars, Capture, Take, PipelineLeaves, AckStored, Stored, Relayed

LEMMA DbStep ==
  ASSUME DbScoped, [Next]_vars
  PROVE  DbScoped'
  BY DEF DbScoped, Next, vars, life, Start, StartSource, SourceFailsToStart, StartAborts, Started, Stop,
     StopSources, CancelPipeline, Capture, ReaderEnds, ReaderCrashes, RestartConcentrator,
     ConcentratorRestarted, ConcentratorRestartFails, Take, PipelineLeaves, AckStored,
     AckStoreFails, Stored, StoreFails, Relayed, Discard, ShowOnly, BeginStoring, PipelineError

-----------------------------------------------------------------------------
(* The frames.  A step that leaves them alone except for the pipeline's    *)
(* position: the lives of the sources, Started and PipelineLeaves.         *)
LEMMA FramesUnchanged ==
  ASSUME FlowInv, UNCHANGED << queue, inHand, kinds, full, outputs >>,
         pipe' = pipe \/ (pipe \notin Busy /\ pipe' \in {"waiting", "ended"} /\ pipe # "ended")
  PROVE  FlowInv'
<1>1. UNCHANGED << queue, inHand, kinds, full, handled, shown, stored, relayed,
                   published, counted, acked, Frames >>
  BY DEF outputs, Frames
<1>2. FrameType'
  BY <1>1 DEF FlowInv, FrameType, Busy, Frames
<1>3. HandBusy' /\ Ordered'
  BY <1>1 DEF FlowInv, HandBusy, Ordered, Increasing, Busy, Kind
<1>4. OnlyFullDrops' /\ TiersRespected' /\ StoringIsOptional'
  BY <1>1 DEF FlowInv, OnlyFullDrops, TiersRespected, StoringIsOptional, Elements, Kind, Frames
<1>5. QED
  BY <1>2, <1>3, <1>4 DEF FlowInv

(* stop() cancels the pipeline: the frame in hand is given up.             *)
LEMMA CancelStep ==
  ASSUME FlowInv, CancelPipeline
  PROVE  FlowInv'
<1>1. /\ pipe' = "ended" /\ inHand' = 0
      /\ UNCHANGED << queue, kinds, full, handled, shown, stored, relayed,
                      published, counted, acked, Frames >>
  BY DEF CancelPipeline, outputs, Frames
<1>2. FrameType'
  BY <1>1 DEF FlowInv, FrameType, Frames
<1>3. HandBusy' /\ Ordered'
  BY <1>1 DEF FlowInv, HandBusy, Ordered, Increasing, Busy, Kind
<1>4. OnlyFullDrops' /\ TiersRespected' /\ StoringIsOptional'
  BY <1>1 DEF FlowInv, OnlyFullDrops, TiersRespected, StoringIsOptional, Elements, Kind, Frames
<1>5. QED
  BY <1>2, <1>3, <1>4 DEF FlowInv

(* A reader queues a frame or drops it at the full queue.  The new frame   *)
(* is newer than every other.                                              *)
LEMMA CaptureStep ==
  ASSUME FlowInv, NEW s, NEW kind \in Kinds, Capture(s, kind)
  PROVE  FlowInv'
<1> DEFINE n == Len(kinds)
<1>1. /\ kinds \in Seq(Kinds) /\ n \in Nat /\ queue \in Seq(1 .. n) /\ handled \in Seq(1 .. n)
      /\ Len(queue) \in Nat /\ Len(queue) <= MaxQueue /\ inHand \in 0 .. n /\ MaxQueue \in Nat
  BY CaptureAssumption DEF FlowInv, FrameType, Frames
<1>2. /\ kinds' = Append(kinds, kind) /\ queue' = Put(queue, n + 1)
      /\ full' = IF Len(queue) < MaxQueue THEN full ELSE full \cup {n + 1}
      /\ UNCHANGED << pipe, inHand, handled, shown, stored, relayed, published, counted, acked >>
  BY DEF Capture, outputs
<1>3. /\ kinds' \in Seq(Kinds) /\ Len(kinds') = n + 1
      /\ \A i \in 1 .. n : kinds'[i] = kinds[i]
  BY <1>1, <1>2, AppendFacts
<1>4. Frames = 1 .. n /\ Frames' = 1 .. n + 1 /\ Frames \subseteq Frames' /\ n + 1 \in Frames'
  BY <1>1, <1>3 DEF Frames
<1>5. \A m \in Frames : Kind(m)' = Kind(m)
  BY <1>3, <1>4 DEF Kind
<1>6. queue \in Seq(Frames') /\ handled \in Seq(Frames')
  <2>1. queue \in Seq(Frames) /\ handled \in Seq(Frames)
    BY DEF FlowInv, FrameType
  <2>2. QED
    BY <1>4, <2>1, SeqOver
<1> HIDE DEF n
<1>7. ASSUME Len(queue) < MaxQueue
      PROVE  FrameType' /\ Ordered' /\ OnlyFullDrops'
  <2>1. queue' = Append(queue, n + 1) /\ full' = full
    BY <1>2, <1>7 DEF Put
  <2>2. /\ queue' \in Seq(Frames') /\ Len(queue') = Len(queue) + 1
        /\ \A i \in 1 .. Len(queue) : queue'[i] = queue[i]
        /\ queue'[Len(queue) + 1] = n + 1
    BY <1>4, <1>6, <2>1, AppendFacts
  <2>3. FrameType'
    <3>1. Len(queue') <= MaxQueue
      BY <1>1, <1>7, <2>2
    <3>2. inHand' \in 0 .. Len(kinds')
      BY <1>1, <1>2, <1>3
    <3>3. handled' \in Seq(Frames')
      BY <1>2, <1>6
    <3>4. pipe' \in {"none", "waiting", "acking", "storing", "relaying", "ended"}
      BY <1>2 DEF FlowInv, FrameType
    <3>5. /\ full' \subseteq Frames' /\ shown' \subseteq Frames' /\ stored' \subseteq Frames'
          /\ relayed' \subseteq Frames' /\ published' \subseteq Frames'
          /\ counted' \subseteq Frames' /\ acked' \subseteq Frames'
      BY <1>2, <1>4, <2>1 DEF FlowInv, FrameType
    <3>6. QED
      BY <1>3, <2>2, <3>1, <3>2, <3>3, <3>4, <3>5 DEF FrameType
  <2>4. Ordered'
    <3>1. \A i \in 1 .. Len(queue) : queue[i] \in Int /\ queue[i] < n + 1
      BY <1>1
    <3>2. \A i \in 1 .. Len(handled) : handled[i] \in Int /\ handled[i] < n + 1
      BY <1>1
    <3>3. n \in Nat /\ Len(queue) \in Nat /\ inHand \in Int /\ inHand < n + 1
      BY <1>1
    <3>4. \A j \in 1 .. Len(queue') :
             queue'[j] = IF j = Len(queue) + 1 THEN n + 1 ELSE queue[j]
      BY <2>2
    <3>5. \A j \in 1 .. Len(queue') : j # Len(queue) + 1 => j \in 1 .. Len(queue)
      BY <2>2, <3>3
    <3>6. Increasing(queue')
      <4>1. Increasing(queue)
        BY DEF FlowInv, Ordered
      <4>2. Len(queue') = Len(queue) + 1
        BY <2>2
      <4>3. QED
        BY <3>1, <3>3, <3>4, <3>5, <4>1, <4>2 DEF Increasing
    <3>7. \A i \in 1 .. Len(handled'), j \in 1 .. Len(queue') : handled'[i] < queue'[j]
      <4>1. \A i \in 1 .. Len(handled), j \in 1 .. Len(queue) : handled[i] < queue[j]
        BY DEF FlowInv, Ordered
      <4>2. handled' = handled
        BY <1>2
      <4>3. QED
        BY <3>2, <3>3, <3>4, <3>5, <4>1, <4>2
    <3>8. inHand' # 0 => /\ \A i \in 1 .. Len(handled') : handled'[i] < inHand'
                         /\ \A j \in 1 .. Len(queue') : inHand' < queue'[j]
      <4>1. inHand # 0 => /\ \A i \in 1 .. Len(handled) : handled[i] < inHand
                          /\ \A j \in 1 .. Len(queue) : inHand < queue[j]
        BY DEF FlowInv, Ordered
      <4>2. handled' = handled /\ inHand' = inHand
        BY <1>2
      <4>3. QED
        BY <3>3, <3>4, <3>5, <4>1, <4>2
    <3>9. QED
      BY <1>2, <3>6, <3>7, <3>8 DEF FlowInv, Ordered, Increasing
  <2>5. OnlyFullDrops'
    <3>1. Elements(queue') = Elements(queue) \cup {n + 1}
      <4>1. Elements(Append(queue, n + 1)) = Elements(queue) \cup {n + 1}
        BY <1>4, <1>6, ElementsAppend
      <4>2. QED
        BY <2>1, <4>1 DEF Elements
    <3>2. Elements(handled)' = Elements(handled)
      BY <1>2 DEF Elements
    <3>3. Elements(queue)' = Elements(queue) \cup {n + 1}
      BY <3>1 DEF Elements
    <3>4. Frames' = Frames \cup {n + 1}
      BY <1>1, <1>4
    <3>5. QED
      BY <1>2, <2>1, <3>2, <3>3, <3>4 DEF FlowInv, OnlyFullDrops
  <2>6. QED
    BY <2>3, <2>4, <2>5
<1>8. ASSUME ~ (Len(queue) < MaxQueue)
      PROVE  FrameType' /\ Ordered' /\ OnlyFullDrops'
  <2>1. queue' = queue /\ full' = full \cup {n + 1}
    BY <1>2, <1>8 DEF Put
  <2>2. FrameType'
    <3>1. inHand' \in 0 .. Len(kinds')
      BY <1>1, <1>2, <1>3
    <3>2. handled' \in Seq(Frames') /\ queue' \in Seq(Frames') /\ Len(queue') <= MaxQueue
      BY <1>1, <1>2, <1>6, <2>1
    <3>3. pipe' \in {"none", "waiting", "acking", "storing", "relaying", "ended"}
      BY <1>2 DEF FlowInv, FrameType
    <3>4. /\ full' \subseteq Frames' /\ shown' \subseteq Frames' /\ stored' \subseteq Frames'
          /\ relayed' \subseteq Frames' /\ published' \subseteq Frames'
          /\ counted' \subseteq Frames' /\ acked' \subseteq Frames'
      BY <1>2, <1>4, <2>1 DEF FlowInv, FrameType
    <3>5. QED
      BY <1>3, <3>1, <3>2, <3>3, <3>4 DEF FrameType
  <2>3. Ordered'
    BY <1>2, <2>1 DEF FlowInv, Ordered, Increasing
  <2>4. OnlyFullDrops'
    <3>1. Elements(handled') = Elements(handled) /\ Elements(queue') = Elements(queue)
      BY <1>2, <2>1 DEF Elements
    <3>2. QED
      BY <1>1, <1>2, <1>4, <2>1, <3>1 DEF FlowInv, OnlyFullDrops
  <2>5. QED
    BY <2>2, <2>3, <2>4
<1>9. HandBusy'
  <2>1. pipe \in Busy => inHand \in Frames
    BY <1>1, <1>4 DEF FlowInv, HandBusy
  <2>2. QED
    BY <1>2, <1>5, <2>1 DEF FlowInv, HandBusy, Busy, Kind
<1>10. TiersRespected'
  <2>1. /\ shown \subseteq Frames /\ stored \subseteq Frames /\ relayed \subseteq Frames
        /\ published \subseteq Frames /\ counted \subseteq Frames /\ acked \subseteq Frames
    BY DEF FlowInv, FrameType
  <2>2. QED
    BY <1>2, <1>5, <2>1 DEF FlowInv, TiersRespected, Kind
<1>11. StoringIsOptional'
  <2>1. Elements(handled') = Elements(handled)
    BY <1>2 DEF Elements
  <2>2. Elements(handled) \subseteq Frames
    BY DEF Elements, FlowInv, FrameType
  <2>3. QED
    BY <1>2, <1>5, <2>1, <2>2 DEF FlowInv, StoringIsOptional, Kind
<1>12. QED
  BY <1>7, <1>8, <1>9, <1>10, <1>11 DEF FlowInv

-----------------------------------------------------------------------------
(* A frame newer than all handled ones is handled next.                    *)
LEMMA AppendIncreasing ==
  ASSUME NEW n \in Nat, NEW s \in Seq(1 .. n), NEW m \in 1 .. n, Increasing(s),
         \A i \in 1 .. Len(s) : s[i] < m
  PROVE  /\ Append(s, m) \in Seq(1 .. n) /\ Increasing(Append(s, m))
         /\ \A i \in 1 .. Len(Append(s, m)) : Append(s, m)[i] <= m
<1>1. /\ Append(s, m) \in Seq(1 .. n) /\ Len(Append(s, m)) = Len(s) + 1
      /\ \A i \in 1 .. Len(s) : Append(s, m)[i] = s[i]
      /\ Append(s, m)[Len(s) + 1] = m
  BY AppendFacts
<1>2. Len(s) \in Nat /\ \A i \in 1 .. Len(s) : s[i] \in Int
  OBVIOUS
<1> DEFINE t == Append(s, m)
<1>3. Len(t) = Len(s) + 1
  BY <1>1
<1>4. \A i \in 1 .. Len(t) : t[i] = IF i = Len(s) + 1 THEN m ELSE s[i]
  BY <1>1
<1>5. \A i \in 1 .. Len(t) : i # Len(s) + 1 => i \in 1 .. Len(s)
  BY <1>2, <1>3
<1> HIDE DEF t
<1>6. Increasing(t) /\ \A i \in 1 .. Len(t) : t[i] <= m
  <2>1. ASSUME NEW i \in 1 .. Len(t), NEW j \in 1 .. Len(t), i < j
        PROVE  t[i] < t[j]
    <3>1. i # Len(s) + 1 /\ i \in 1 .. Len(s) /\ t[i] = s[i]
      BY <1>2, <1>3, <1>4, <1>5, <2>1
    <3>2. CASE j = Len(s) + 1
      BY <1>4, <3>1, <3>2
    <3>3. CASE j # Len(s) + 1
      BY <1>4, <1>5, <2>1, <3>1, <3>3 DEF Increasing
    <3>4. QED
      BY <3>2, <3>3
  <2>2. ASSUME NEW i \in 1 .. Len(t) PROVE t[i] <= m
    BY <1>2, <1>4, <1>5
  <2>3. QED
    BY <2>1, <2>2 DEF Increasing
<1>7. QED
  BY <1>1, <1>6 DEF t

(* The pipeline is done with frame m, the oldest it had: the ends of       *)
(* _process_capture, whether the frame came straight from the queue or was *)
(* in hand.                                                                *)
LEMMA DoneStep ==
  ASSUME FlowInv, NEW m \in Frames,
         pipe # "ended", pipe' \in {"waiting", "ended"}, inHand' = 0,
         handled' = Append(handled, m), kinds' = kinds, full' = full,
         \A i \in 1 .. Len(handled) : handled[i] < m,
         queue' \in Seq(Frames), Len(queue') <= MaxQueue, Increasing(queue'),
         \A j \in 1 .. Len(queue') : m < queue'[j],
         Elements(queue) \cup {inHand} \subseteq Elements(queue') \cup {m, 0},
         shown \subseteq shown', relayed \subseteq relayed',
         published \subseteq published', counted \subseteq counted',
         shown' \cup stored' \cup relayed' \cup published' \cup counted' \cup acked' \subseteq Frames,
         TiersRespected',
         Kind(m) = "message" => m \in shown' \cap relayed' \cap published' \cap counted'
  PROVE  FlowInv'
<1>1. Frames' = Frames /\ Frames = 1 .. Len(kinds) /\ Len(kinds) \in Nat
  BY DEF Frames, FlowInv, FrameType
<1>2. handled \in Seq(1 .. Len(kinds)) /\ Increasing(handled)
  BY <1>1 DEF FlowInv, FrameType, Ordered
<1>3. /\ handled' \in Seq(1 .. Len(kinds)) /\ Increasing(handled')
      /\ \A i \in 1 .. Len(handled') : handled'[i] <= m
  BY <1>1, <1>2, AppendIncreasing
<1>4. Elements(handled)' = Elements(handled) \cup {m}
  <2>1. Elements(Append(handled, m)) = Elements(handled) \cup {m}
    BY <1>1, <1>2, ElementsAppend
  <2>2. QED
    BY <2>1 DEF Elements
<1>5. FrameType'
  <2>1. handled' \in Seq(Frames')
    BY <1>1, <1>3
  <2>2. /\ full' \subseteq Frames' /\ shown' \subseteq Frames' /\ stored' \subseteq Frames'
        /\ relayed' \subseteq Frames' /\ published' \subseteq Frames'
        /\ counted' \subseteq Frames' /\ acked' \subseteq Frames'
    BY <1>1 DEF FlowInv, FrameType
  <2>3. queue' \in Seq(Frames') /\ Len(queue') <= MaxQueue
    BY <1>1
  <2>4. inHand' \in 0 .. Len(kinds') /\ kinds' \in Seq(Kinds)
    BY <1>1 DEF FlowInv, FrameType
  <2>5. QED
    BY <2>1, <2>2, <2>3, <2>4 DEF FrameType
<1>6. HandBusy'
  BY DEF HandBusy, Busy
<1>7. Ordered'
  <2>1. \A i \in 1 .. Len(handled') : handled'[i] \in Int
    BY <1>3
  <2>2. \A j \in 1 .. Len(queue') : queue'[j] \in Int
    BY <1>1
  <2>3. m \in Int
    BY <1>1
  <2>4. \A i \in 1 .. Len(handled') : handled'[i] <= m
    BY <1>3
  <2>5. \A i \in 1 .. Len(handled'), j \in 1 .. Len(queue') : handled'[i] < queue'[j]
    BY <2>1, <2>2, <2>3, <2>4
  <2>6. QED
    BY <1>3, <2>5 DEF Ordered, Increasing
<1>8. OnlyFullDrops'
  <2>1. \A x \in Frames : x \in Elements(handled) \cup Elements(queue) \cup full \cup {inHand}
    BY DEF FlowInv, OnlyFullDrops
  <2>2. 0 \notin Frames
    BY <1>1
  <2>3. Elements(queue)' = Elements(queue')
    BY DEF Elements
  <2>4. QED
    BY <1>1, <1>4, <2>1, <2>2, <2>3 DEF OnlyFullDrops
<1>9. StoringIsOptional'
  <2>1. \A x \in Frames : Kind(x)' = Kind(x)
    BY DEF Kind
  <2>2. Elements(handled) \subseteq Frames
    BY <1>1, <1>2 DEF Elements
  <2>3. QED
    BY <1>4, <2>1, <2>2 DEF FlowInv, StoringIsOptional
<1>10. QED
  BY <1>5, <1>6, <1>7, <1>8, <1>9 DEF FlowInv

(* The pipeline takes the oldest frame of the queue.                       *)
LEMMA TakeStep ==
  ASSUME FlowInv, Take
  PROVE  FlowInv'
<1> DEFINE h == Head(queue)
<1>1. /\ pipe = "waiting" /\ queue # << >> /\ inHand = 0 /\ queue' = Tail(queue)
      /\ kinds' = kinds /\ full' = full
  BY DEF Take, FlowInv, HandBusy, Busy
<1>2. Frames' = Frames /\ Frames = 1 .. Len(kinds) /\ Len(kinds) \in Nat
  BY <1>1 DEF Frames, FlowInv, FrameType
<1>3. queue \in Seq(Frames) /\ handled \in Seq(Frames)
  BY DEF FlowInv, FrameType
<1>4. /\ queue' \in Seq(Frames) /\ Len(queue') = Len(queue) - 1 /\ Len(queue) >= 1
      /\ \A i \in 1 .. Len(queue) - 1 : queue'[i] = queue[i + 1]
      /\ h = queue[1] /\ h \in Frames
  BY <1>1, <1>3, TailFacts
<1>5. /\ Len(queue) \in Nat /\ Len(queue') = Len(queue) - 1 /\ Len(queue) >= 1
      /\ Len(queue) <= MaxQueue /\ MaxQueue \in Nat
  BY <1>3, <1>4, CaptureAssumption DEF FlowInv, FrameType
<1>6. Increasing(queue') /\ \A j \in 1 .. Len(queue') : h < queue'[j]
  <2>1. Increasing(queue)
    BY DEF FlowInv, Ordered
  <2>2. \A i \in 1 .. Len(queue') : queue'[i] = queue[i + 1] /\ i + 1 \in 1 .. Len(queue)
    BY <1>4, <1>5
  <2>3. h = queue[1]
    BY <1>4
  <2> HIDE DEF h
  <2>4. ASSUME NEW i \in 1 .. Len(queue'), NEW j \in 1 .. Len(queue'), i < j
        PROVE  queue'[i] < queue'[j]
    <3>1. i + 1 < j + 1
      BY <2>4
    <3>2. QED
      BY <2>1, <2>2, <3>1 DEF Increasing
  <2>5. ASSUME NEW j \in 1 .. Len(queue') PROVE h < queue'[j]
    <3>1. 1 \in 1 .. Len(queue) /\ 1 < j + 1
      BY <1>5
    <3>2. QED
      BY <2>1, <2>2, <2>3, <3>1 DEF Increasing
  <2>6. QED
    BY <2>4, <2>5 DEF Increasing
<1>7. Elements(queue) = Elements(queue') \cup {h}
  BY <1>1, <1>3, ElementsTail
<1>8. \A i \in 1 .. Len(handled) : handled[i] < h
  BY <1>4, <1>5 DEF FlowInv, Ordered
<1>9. Len(queue') <= MaxQueue
  BY <1>5
<1>10. /\ shown \subseteq Frames /\ stored \subseteq Frames /\ relayed \subseteq Frames
       /\ published \subseteq Frames /\ counted \subseteq Frames /\ acked \subseteq Frames
  BY DEF FlowInv, FrameType
<1>11. \A x \in Frames : Kind(x)' = Kind(x)
  BY <1>1 DEF Kind
<1> HIDE DEF h
<1>12. CASE Discard(h)
  <2>1. /\ pipe' = "waiting" /\ inHand' = 0 /\ handled' = Append(handled, h)
        /\ UNCHANGED << shown, stored, relayed, published, counted, acked >>
        /\ Kind(h) # "message"
    BY <1>1, <1>12 DEF Discard, Done
  <2>2. TiersRespected'
    BY <1>10, <1>11, <2>1 DEF FlowInv, TiersRespected
  <2>3. QED
    BY <1>1, <1>4, <1>6, <1>7, <1>8, <1>9, <1>10, <2>1, <2>2, DoneStep
<1>13. CASE ShowOnly(h)
  <2>1. /\ pipe' = "waiting" /\ inHand' = 0 /\ handled' = Append(handled, h)
        /\ shown' = shown \cup {h} /\ Kind(h) = "blacklisted"
        /\ UNCHANGED << stored, relayed, published, counted, acked >>
    BY <1>1, <1>13 DEF ShowOnly, Done
  <2>2. TiersRespected'
    BY <1>4, <1>10, <1>11, <2>1 DEF FlowInv, TiersRespected
  <2>3. QED
    BY <1>1, <1>4, <1>6, <1>7, <1>8, <1>9, <1>10, <2>1, <2>2, DoneStep
<1>14. CASE PipelineError(h)
  <2>1. /\ pipe' = "ended" /\ inHand' = 0 /\ handled' = Append(handled, h)
        /\ UNCHANGED << shown, stored, relayed, published, counted, acked >>
        /\ Kind(h) # "message"
    BY <1>14 DEF PipelineError, Done
  <2>2. TiersRespected'
    BY <1>10, <1>11, <2>1 DEF FlowInv, TiersRespected
  <2>3. QED
    BY <1>1, <1>4, <1>6, <1>7, <1>8, <1>9, <1>10, <2>1, <2>2, DoneStep
<1>15. CASE BeginStoring(h)
  <2>1. /\ pipe' \in {"acking", "storing"} /\ inHand' = h
        /\ pipe' = "acking" => Kind(h) = "ack"
        /\ pipe' = "storing" => Kind(h) = "message"
        /\ UNCHANGED << handled, shown, stored, relayed, published, counted, acked >>
    BY <1>15 DEF BeginStoring, outputs
  <2>2. h # 0 /\ h \in 0 .. Len(kinds)
    BY <1>2, <1>4
  <2>3. FrameType'
    <3>1. queue' \in Seq(Frames') /\ handled' \in Seq(Frames') /\ kinds' \in Seq(Kinds)
      BY <1>1, <1>2, <1>3, <1>4, <2>1 DEF FlowInv, FrameType
    <3>2. QED
      BY <1>1, <1>2, <1>9, <1>10, <2>1, <2>2, <3>1 DEF FlowInv, FrameType
  <2>4. HandBusy'
    BY <1>4, <1>11, <2>1, <2>2 DEF HandBusy, Busy, Kind
  <2>5. Ordered'
    <3>1. Increasing(handled') /\ \A i \in 1 .. Len(handled') : handled'[i] < inHand'
      BY <1>8, <2>1 DEF FlowInv, Ordered, Increasing
    <3>2. \A i \in 1 .. Len(handled), j \in 1 .. Len(queue') : handled[i] < queue'[j]
      BY <1>4, <1>5 DEF FlowInv, Ordered
    <3>3. QED
      BY <1>6, <2>1, <3>1, <3>2 DEF Ordered, Increasing
  <2>6. OnlyFullDrops'
    <3>1. Elements(handled)' = Elements(handled) /\ Elements(queue)' = Elements(queue')
      BY <2>1 DEF Elements
    <3>2. \A x \in Frames : x \in Elements(handled) \cup Elements(queue) \cup full \cup {inHand}
      BY <1>1 DEF FlowInv, OnlyFullDrops
    <3>3. QED
      BY <1>1, <1>2, <1>7, <2>1, <3>1, <3>2 DEF OnlyFullDrops
  <2>7. TiersRespected' /\ StoringIsOptional'
    <3>1. Elements(handled)' = Elements(handled) /\ Elements(handled) \subseteq Frames
      BY <1>3, <2>1 DEF Elements
    <3>2. QED
      BY <1>10, <1>11, <2>1, <3>1 DEF FlowInv, TiersRespected, StoringIsOptional
  <2>8. QED
    BY <2>3, <2>4, <2>5, <2>6, <2>7 DEF FlowInv
<1>16. QED
  BY <1>12, <1>13, <1>14, <1>15 DEF Take, h

(* The frame in hand: the facts that the steps below share.                *)
LEMMA InHandFacts ==
  ASSUME FlowInv, pipe \in Busy
  PROVE  /\ inHand \in Frames /\ inHand # 0 /\ Frames = 1 .. Len(kinds)
         /\ \A i \in 1 .. Len(handled) : handled[i] < inHand
         /\ \A j \in 1 .. Len(queue) : inHand < queue[j]
         /\ queue \in Seq(Frames) /\ Len(queue) <= MaxQueue /\ Increasing(queue)
         /\ shown \subseteq Frames /\ stored \subseteq Frames /\ relayed \subseteq Frames
         /\ published \subseteq Frames /\ counted \subseteq Frames /\ acked \subseteq Frames
<1>1. inHand # 0 /\ inHand \in 0 .. Len(kinds) /\ Len(kinds) \in Nat
  BY DEF FlowInv, HandBusy, FrameType
<1>2. inHand \in Frames
  BY <1>1 DEF Frames
<1>3. QED
  BY <1>1, <1>2 DEF FlowInv, FrameType, Ordered, Frames

(* An acknowledgement is done with, whether it could be stored or not.     *)
LEMMA AckStep ==
  ASSUME FlowInv, AckStored \/ AckStoreFails
  PROVE  FlowInv'
<1>1. pipe = "acking" /\ pipe \in Busy /\ pipe # "ended" /\ Kind(inHand) = "ack"
  BY DEF AckStored, AckStoreFails, Busy, FlowInv, HandBusy
<1>2. /\ pipe' \in {"waiting", "ended"} /\ inHand' = 0 /\ handled' = Append(handled, inHand)
      /\ acked' = acked \/ acked' = acked \cup {inHand}
      /\ UNCHANGED << queue, kinds, full, shown, stored, relayed, published, counted >>
  BY DEF AckStored, AckStoreFails, Done
<1>3. /\ inHand \in Frames
      /\ \A i \in 1 .. Len(handled) : handled[i] < inHand
      /\ \A j \in 1 .. Len(queue) : inHand < queue[j]
      /\ queue \in Seq(Frames) /\ Len(queue) <= MaxQueue /\ Increasing(queue)
  BY <1>1, InHandFacts
<1>4. /\ shown \subseteq Frames /\ stored \subseteq Frames /\ relayed \subseteq Frames
      /\ published \subseteq Frames /\ counted \subseteq Frames /\ acked \subseteq Frames
  BY <1>1, InHandFacts
<1>5. \A x \in Frames : Kind(x)' = Kind(x)
  BY <1>2 DEF Kind
<1>6. TiersRespected'
  BY <1>1, <1>2, <1>3, <1>4, <1>5 DEF FlowInv, TiersRespected
<1>7. /\ queue' \in Seq(Frames) /\ Len(queue') <= MaxQueue /\ Increasing(queue')
      /\ \A j \in 1 .. Len(queue') : inHand < queue'[j]
      /\ Elements(queue) \cup {inHand} \subseteq Elements(queue') \cup {inHand, 0}
  BY <1>2, <1>3 DEF Increasing, Elements
<1>8. shown' \cup stored' \cup relayed' \cup published' \cup counted' \cup acked' \subseteq Frames
  BY <1>2, <1>3, <1>4
<1>9. QED
  BY <1>1, <1>2, <1>3, <1>6, <1>7, <1>8, DoneStep

(* A message was stored, or was not: it is shown and goes to the relay.    *)
LEMMA StoreStep ==
  ASSUME FlowInv, Stored \/ StoreFails
  PROVE  FlowInv'
<1>1. pipe = "storing" /\ pipe \in Busy /\ Kind(inHand) = "message"
  BY DEF Stored, StoreFails, Busy, FlowInv, HandBusy
<1>2. /\ pipe' = "relaying" /\ shown' = shown \cup {inHand}
      /\ stored' = stored \/ stored' = stored \cup {inHand}
      /\ UNCHANGED << queue, inHand, kinds, full, handled, relayed, published, counted, acked >>
  BY DEF Stored, StoreFails
<1>3. inHand \in Frames /\ inHand # 0
  BY <1>1, InHandFacts
<1>4. Frames' = Frames /\ \A x \in Frames : Kind(x)' = Kind(x)
  BY <1>2 DEF Kind, Frames
<1>5. FrameType'
  BY <1>2, <1>3, <1>4 DEF FlowInv, FrameType
<1>6. HandBusy'
  BY <1>1, <1>2, <1>3, <1>4 DEF HandBusy, Busy, Kind
<1>7. Ordered'
  BY <1>2 DEF FlowInv, Ordered, Increasing
<1>8. OnlyFullDrops'
  BY <1>1, <1>2, <1>4 DEF FlowInv, OnlyFullDrops, Elements
<1>9. TiersRespected' /\ StoringIsOptional'
  <2>1. /\ shown \subseteq Frames /\ stored \subseteq Frames /\ relayed \subseteq Frames
        /\ published \subseteq Frames /\ counted \subseteq Frames /\ acked \subseteq Frames
    BY <1>1, InHandFacts
  <2>2. Elements(handled)' = Elements(handled) /\ Elements(handled) \subseteq Frames
    BY <1>2 DEF Elements, FlowInv, FrameType
  <2>3. TiersRespected'
    BY <1>1, <1>2, <1>3, <1>4, <2>1 DEF FlowInv, TiersRespected
  <2>4. StoringIsOptional'
    BY <1>2, <1>4, <2>2 DEF FlowInv, StoringIsOptional
  <2>5. QED
    BY <2>3, <2>4
<1>10. QED
  BY <1>5, <1>6, <1>7, <1>8, <1>9 DEF FlowInv

(* The relay returned; MQTT and the statistics have the message.           *)
LEMMA RelayedStep ==
  ASSUME FlowInv, Relayed
  PROVE  FlowInv'
<1>1. /\ pipe = "relaying" /\ pipe \in Busy /\ pipe # "ended"
      /\ Kind(inHand) = "message" /\ inHand \in shown
  BY DEF Relayed, Busy, FlowInv, HandBusy
<1>2. /\ pipe' \in {"waiting", "ended"} /\ inHand' = 0 /\ handled' = Append(handled, inHand)
      /\ relayed' = relayed \cup {inHand} /\ published' = published \cup {inHand}
      /\ counted' = counted \cup {inHand}
      /\ UNCHANGED << queue, kinds, full, shown, stored, acked >>
  BY DEF Relayed, Done
<1>3. /\ inHand \in Frames
      /\ \A i \in 1 .. Len(handled) : handled[i] < inHand
      /\ \A j \in 1 .. Len(queue) : inHand < queue[j]
      /\ queue \in Seq(Frames) /\ Len(queue) <= MaxQueue /\ Increasing(queue)
  BY <1>1, InHandFacts
<1>4. /\ shown \subseteq Frames /\ stored \subseteq Frames /\ relayed \subseteq Frames
      /\ published \subseteq Frames /\ counted \subseteq Frames /\ acked \subseteq Frames
  BY <1>1, InHandFacts
<1>5. \A x \in Frames : Kind(x)' = Kind(x)
  BY <1>2 DEF Kind
<1>6. TiersRespected'
  BY <1>1, <1>2, <1>3, <1>4, <1>5 DEF FlowInv, TiersRespected
<1>7. /\ queue' \in Seq(Frames) /\ Len(queue') <= MaxQueue /\ Increasing(queue')
      /\ \A j \in 1 .. Len(queue') : inHand < queue'[j]
      /\ Elements(queue) \cup {inHand} \subseteq Elements(queue') \cup {inHand, 0}
  BY <1>2, <1>3 DEF Increasing, Elements
<1>8. /\ shown' \cup stored' \cup relayed' \cup published' \cup counted' \cup acked' \subseteq Frames
      /\ inHand \in shown' \cap relayed' \cap published' \cap counted'
      /\ shown \subseteq shown' /\ relayed \subseteq relayed'
      /\ published \subseteq published' /\ counted \subseteq counted'
  BY <1>1, <1>2, <1>3, <1>4
<1>9. QED
  BY <1>1, <1>2, <1>3, <1>6, <1>7, <1>8, DoneStep

(* Every step of the pipeline and of the sources preserves what is known   *)
(* of the frames.                                                          *)
LEMMA FlowStep ==
  ASSUME Inv, [Next]_vars
  PROVE  FlowInv'
<1>1. FlowInv
  BY DEF Inv
<1>2. ASSUME NEW s \in Sources, NEW kind \in Kinds, Capture(s, kind)
      PROVE  FlowInv'
  BY <1>1, <1>2, CaptureStep
<1>3. CASE Take
  BY <1>1, <1>3, TakeStep
<1>4. CASE AckStored \/ AckStoreFails
  BY <1>1, <1>4, AckStep
<1>5. CASE Stored \/ StoreFails
  BY <1>1, <1>5, StoreStep
<1>6. CASE Relayed
  BY <1>1, <1>6, RelayedStep
<1>7. CASE CancelPipeline
  BY <1>1, <1>7, CancelStep
<1>8. CASE Started \/ PipelineLeaves
  <2>1. UNCHANGED << queue, inHand, kinds, full, outputs >>
    BY <1>8 DEF Started, PipelineLeaves
  <2>2. pipe \notin Busy /\ pipe' \in {"waiting", "ended"} /\ pipe # "ended"
    BY <1>8 DEF Started, PipelineLeaves, Busy, Inv, DbScoped
  <2>3. QED
    BY <1>1, <2>1, <2>2, FramesUnchanged
<1>9. CASE UNCHANGED << queue, pipe, inHand, kinds, full, outputs >>
  <2>1. UNCHANGED << queue, inHand, kinds, full, outputs >> /\ pipe' = pipe
    BY <1>9
  <2>2. QED
    BY <1>1, <2>1, FramesUnchanged
<1>10. QED
  BY <1>2, <1>3, <1>4, <1>5, <1>6, <1>7, <1>8, <1>9
  DEF Next, vars, Start, StartSource, SourceFailsToStart, StartAborts, Stop, StopSources,
      ReaderEnds, ReaderCrashes, RestartConcentrator, ConcentratorRestarted,
      ConcentratorRestartFails

-----------------------------------------------------------------------------
(* The inductive invariant of the pipeline.                                *)
THEOREM Invariance == Spec => []Inv
<1>1. Inv /\ [Next]_vars => Inv'
  <2> SUFFICES ASSUME Inv, [Next]_vars PROVE Inv'
    OBVIOUS
  <2>1. LifeType' /\ Flags' /\ DbScoped'
    BY LifeStep, FlagsStep, DbStep DEF Inv
  <2>2. QED
    BY <2>1, FlowStep DEF Inv
<1>2. QED
  BY <1>1, InitInv, PTL DEF Spec

(* Type correctness; in particular the queue never exceeds max_queue_size. *)
THEOREM TypeCorrect == Spec => []TypeOK
<1>1. Inv => TypeOK
  BY TypeParts DEF Inv, FlowInv
<1>2. QED
  BY <1>1, Invariance, PTL

(* _run_source() and _process_capture(): frames leave the pipeline in the  *)
(* order of their capture, only the full queue loses one, and each goes    *)
(* where its tier says.                                                    *)
THEOREM Ordering == Spec => []CaptureOrder
<1>1. Inv => CaptureOrder
  <2> SUFFICES ASSUME Inv PROVE CaptureOrder
    OBVIOUS
  <2>1. DOMAIN handled = 1 .. Len(handled)
    BY DEF Inv, FlowInv, FrameType
  <2>2. InCaptureOrder
    BY <2>1 DEF Inv, FlowInv, Ordered, Increasing, InCaptureOrder
  <2>3. QED
    BY <2>2 DEF CaptureOrder, Inv, FlowInv
<1>2. QED
  BY <1>1, Invariance, PTL

(* _store_packet() may fail without costing a message its other consumers, *)
(* and stop() closes the database only after its last use.                 *)
THEOREM Storage == Spec => []StorageGuarded
<1>1. Inv => StorageGuarded
  <2> SUFFICES ASSUME Inv PROVE StorageGuarded
    OBVIOUS
  <2>1. DbOpenWhenUsed
    BY DEF Inv, DbScoped, LifeType, DbOpenWhenUsed
  <2>2. QED
    BY <2>1 DEF StorageGuarded, Inv, FlowInv
<1>2. QED
  BY <1>1, Invariance, PTL
=============================================================================
