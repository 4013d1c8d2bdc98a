---------------------------- MODULE UpstreamClient ---------------------------
(***************************************************************************)
(* The cloud uplink, src/api/upstream_client.py, with the accumulator its  *)
(* heartbeat ships, src/analytics/stats_reporter.py.                       *)
(*                                                                         *)
(* Three coroutines share one websocket under a lock: the connection loop, *)
(* which registers and then flushes the packet buffer; the heartbeat loop; *)
(* and the listener that answers commands.  The pipeline appends packets   *)
(* and records statistics whenever one of them awaits.  The client is the  *)
(* enabled one; a disabled client does nothing.                            *)
(*                                                                         *)
(* The websocket library and the network are external: a link is "open",   *)
(* "dead" (the peer is gone, the keepalive has not noticed) or "closed"    *)
(* (the library knows; a send raises ConnectionClosed).                    *)
(***************************************************************************)
EXTENDS Integers, Sequences, FiniteSets

CONSTANTS
    MaxBuffer,        \* buffer_max_size
    ReconnectDelay,   \* reconnect_interval_seconds
    MaxBackoff,       \* the cap of the backoff, 60
    MaxMessages,      \* bound: packets accepted by send_packet
    MaxRecorded,      \* bound: packets recorded in the statistics
    MaxDrops          \* bound: links that are lost

ASSUME UpstreamAssumption ==
    /\ MaxBuffer \in Nat \ {0}
    /\ ReconnectDelay \in Nat \ {0} /\ MaxBackoff \in Nat /\ ReconnectDelay <= MaxBackoff
    /\ MaxMessages \in Nat /\ MaxRecorded \in Nat /\ MaxDrops \in Nat

Tasks == {"loop", "heartbeat", "listener"}

VARIABLES
    running, connected,   \* _running, _connected
    link,                 \* the websocket, or "none"
    loop,                 \* where _connection_loop is suspended
    backoff,              \* its local variable
    heartbeat, listener,  \* where the two child tasks are
    sends,                \* each task's position inside _send
    buffer,               \* _buffer; messages are numbered as accepted
    inHand,               \* the message _flush_buffer is sending, or 0
    pending,              \* _total_packets of the statistics
    report,               \* the total in the heartbeat being sent
    \* history: messages accepted, evicted from the full buffer, whose send
    \* returned; messages the server got; totals recorded and reported
    accepted, overflows, returned, received, recorded, reported, drops

link_ == << link, drops >>
stats == << pending, report, recorded, reported >>
queue == << buffer, accepted, overflows >>
vars == << running, connected, link_, loop, backoff, heartbeat, listener, sends,
           queue, inHand, returned, received, stats >>

Init ==
    /\ running = FALSE /\ connected = FALSE
    /\ link = "none" /\ drops = 0
    /\ loop = "new" /\ backoff = ReconnectDelay
    /\ heartbeat = "off" /\ listener = "off"
    /\ sends = [t \in Tasks |-> "out"]
    /\ buffer = << >> /\ inHand = 0
    /\ pending = 0 /\ report = 0 /\ recorded = 0 /\ reported = 0
    /\ accepted = 0 /\ overflows = 0 /\ returned = {} /\ received = << >>

-----------------------------------------------------------------------------
(* What the pipeline does between two steps of the client.                 *)

(* deque(maxlen).append(): the oldest message makes room.                  *)
Appended(buf, m) ==
    Append(IF Len(buf) = MaxBuffer THEN Tail(buf) ELSE buf, m)

(* send_packet() past the rate limiter (as in RelayManager): a packet that *)
(* is refused there only adds to a count for the log.                      *)
SendPacket ==
    /\ accepted < MaxMessages
    /\ accepted' = accepted + 1
    /\ buffer' = Appended(buffer, accepted + 1)
    /\ overflows' = overflows + (IF Len(buffer) = MaxBuffer THEN 1 ELSE 0)
    /\ UNCHANGED << running, connected, link_, loop, backoff, heartbeat, listener,
                    sends, inHand, returned, received, stats >>

RecordPacket ==
    /\ recorded < MaxRecorded
    /\ recorded' = recorded + 1
    /\ pending' = pending + 1
    /\ UNCHANGED << running, connected, link_, loop, backoff, heartbeat, listener,
                    sends, queue, inHand, returned, received, report, reported >>

-----------------------------------------------------------------------------
(* Start and stop.                                                         *)
Start ==
    /\ loop = "new"
    /\ running' = TRUE /\ loop' = "connecting"
    /\ UNCHANGED << connected, link_, backoff, heartbeat, listener, sends,
                    queue, inHand, returned, received, stats >>

(* stop() up to its first await: the websocket is being closed.            *)
Stop ==
    /\ running
    /\ running' = FALSE
    /\ link' = IF link = "none" THEN link ELSE "closed"
    /\ UNCHANGED << connected, drops, loop, backoff, heartbeat, listener, sends,
                    queue, inHand, returned, received, stats >>

(* A slip: only the heartbeat is cancelled.                               *)
ListenerLeft ==
    /\ heartbeat' = "off" /\ listener' = listener
    /\ sends' = [sends EXCEPT !["loop"] = "out", !["heartbeat"] = "out"]
    /\ report' = 0

(* "finally: task.cancel()" for the heartbeat and the listener; a cancelled *)
(* task lets go of the lock.                                               *)
ChildrenCancelled ==
    /\ heartbeat' = "off" /\ listener' = "off"
    /\ sends' = [t \in Tasks |-> "out"]
    /\ report' = 0

(* stop() cancels the connection loop wherever it is.                      *)
Cancelled ==
    /\ ~ running /\ loop \notin {"new", "ended"}
    /\ loop' = "ended" /\ link' = "none" /\ inHand' = 0
    /\ ChildrenCancelled
    /\ UNCHANGED << running, connected, drops, backoff, queue, returned, received,
                    pending, recorded, reported >>

-----------------------------------------------------------------------------
(* _connection_loop and _connect_and_run.                                  *)

(* What follows an attempt, however it ended.                              *)
AttemptOver ==
    /\ connected' = FALSE
    /\ loop' = IF running THEN "backoff" ELSE "ended"

Connect ==
    /\ loop = "connecting"
    /\ link' = "open" /\ connected' = TRUE
    /\ loop' = "registering"
    /\ sends' = [sends EXCEPT !["loop"] = "waiting"]
    /\ UNCHANGED << running, drops, backoff, heartbeat, listener, queue, inHand,
                    returned, received, stats >>

ConnectFails ==
    /\ loop = "connecting"
    /\ AttemptOver
    /\ UNCHANGED << running, link_, backoff, heartbeat, listener, sends, queue,
                    inHand, returned, received, stats >>

(* A slip: the delay has no cap.                                          *)
UncappedBackoff(delay) == (delay * 3) \div 2

(* asyncio.sleep(backoff) is over; the delay grows by half up to the cap   *)
(* (fractions are dropped here).                                           *)
Grown(delay) == LET grown == (delay * 3) \div 2
                IN  IF grown < MaxBackoff THEN grown ELSE MaxBackoff

BackoffOver ==
    /\ loop = "backoff"
    /\ backoff' = Grown(backoff)
    /\ loop' = IF running THEN "connecting" ELSE "ended"
    /\ UNCHANGED << running, connected, link_, heartbeat, listener, sends, queue,
                    inHand, returned, received, stats >>

(* The head of _flush_buffer's loop: take the oldest message without       *)
(* removing it and enter _send, or leave.                                  *)
FlushHead(buf) ==
    IF buf # << >>
    THEN /\ loop' = "flushing" /\ inHand' = Head(buf)
         /\ sends' = [sends EXCEPT !["loop"] = "waiting"]
    ELSE /\ loop' = "idle" /\ inHand' = 0
         /\ sends' = [sends EXCEPT !["loop"] = "out"]

(* The half-second sleep finds something to send ...                       *)
Flush ==
    /\ loop = "idle" /\ running /\ buffer # << >>
    /\ FlushHead(buffer)
    /\ UNCHANGED << running, connected, link_, backoff, heartbeat, listener, queue,
                    returned, received, stats >>

(* ... or finds that the client was stopped, and returns normally.         *)
Leave ==
    /\ loop = "idle" /\ ~ running
    /\ loop' = "closing" /\ backoff' = ReconnectDelay
    /\ ChildrenCancelled
    /\ UNCHANGED << running, connected, link_, queue, inHand, returned, received,
                    pending, recorded, reported >>

(* The "async with" has closed the websocket.                              *)
Closed ==
    /\ loop = "closing"
    /\ link' = "none"
    /\ AttemptOver
    /\ UNCHANGED << running, drops, backoff, heartbeat, listener, sends, queue,
                    inHand, returned, received, stats >>

-----------------------------------------------------------------------------
(***************************************************************************)
(* _send: wait for the lock, write, return or raise.  What a write does    *)
(* depends on the link; a send that is waiting for the write buffer to     *)
(* drain raises when the link closes although the message went out.        *)
(***************************************************************************)
InLock(t) == sends[t] \in {"writing", "written"}

Acquire(t) ==
    /\ sends[t] = "waiting"
    /\ \A u \in Tasks : ~ InLock(u)
    /\ sends' = [sends EXCEPT ![t] = "writing"]
    /\ UNCHANGED << running, connected, link_, loop, backoff, heartbeat, listener,
                    queue, inHand, returned, received, stats >>

Write(t) ==
    /\ sends[t] = "writing"
    /\ link \in {"open", "dead"}
    /\ sends' = [sends EXCEPT ![t] = "written"]
    /\ received' = IF t = "loop" /\ loop = "flushing" /\ link = "open"
                   THEN Append(received, inHand) ELSE received
    /\ reported' = IF t = "heartbeat" /\ link = "open"
                   THEN reported + report ELSE reported
    /\ UNCHANGED << running, connected, link_, loop, backoff, heartbeat, listener,
                    queue, inHand, returned, pending, report, recorded >>

Raises(t) == InLock(t) /\ link = "closed"

(* The registration is out: start the children, flush what is buffered.    *)
Registered ==
    /\ loop = "registering" /\ sends["loop"] = "written"
    /\ heartbeat' = "sleeping" /\ listener' = "listening"
    /\ FlushHead(buffer)
    /\ UNCHANGED << running, connected, link_, backoff, queue, returned, received, stats >>

RegistrationRaises ==
    /\ loop = "registering" /\ Raises("loop")
    /\ loop' = "closing"
    /\ sends' = [sends EXCEPT !["loop"] = "out"]
    /\ UNCHANGED << running, connected, link_, backoff, heartbeat, listener, queue,
                    inHand, returned, received, stats >>

(* The send returned: popleft() and on to the next message.                *)
Flushed ==
    /\ loop = "flushing" /\ sends["loop"] = "written"
    /\ returned' = returned \cup {inHand}
    /\ buffer' = Tail(buffer)
    /\ FlushHead(Tail(buffer))
    /\ UNCHANGED << running, connected, link_, backoff, heartbeat, listener,
                    accepted, overflows, received, stats >>

(* Slips: the message was taken out first and is put back at the end; the  *)
(* error is swallowed.                                                     *)
RequeueWhenRaised ==
    /\ loop = "flushing" /\ Raises("loop")
    /\ buffer' = Append(Tail(buffer), Head(buffer))
    /\ loop' = "closing" /\ connected' = FALSE /\ inHand' = 0
    /\ ChildrenCancelled
    /\ UNCHANGED << running, link_, backoff, accepted, overflows, returned,
                    received, pending, recorded, reported >>
SwallowClosed ==
    /\ loop = "flushing" /\ Raises("loop")
    /\ FlushHead(buffer)
    /\ UNCHANGED << running, connected, link_, backoff, heartbeat, listener, queue,
                    returned, received, stats >>

(* ConnectionClosed: the message stays, the children are cancelled.        *)
FlushRaises ==
    /\ loop = "flushing" /\ Raises("loop")
    /\ loop' = "closing" /\ connected' = FALSE /\ inHand' = 0
    /\ ChildrenCancelled
    /\ UNCHANGED << running, link_, backoff, queue, returned, received, pending,
                    recorded, reported >>

-----------------------------------------------------------------------------
(* _heartbeat_loop: build the report, send it, reset the accumulator.      *)
Beat ==
    /\ heartbeat = "sleeping"
    /\ heartbeat' = "sending" /\ report' = pending
    /\ sends' = [sends EXCEPT !["heartbeat"] = "waiting"]
    /\ UNCHANGED << running, connected, link_, loop, backoff, listener, queue,
                    inHand, returned, received, pending, recorded, reported >>

BeatSent ==
    /\ heartbeat = "sending" /\ sends["heartbeat"] = "written"
    /\ pending' = 0 /\ report' = 0
    /\ heartbeat' = IF running /\ connected THEN "sleeping" ELSE "ended"
    /\ sends' = [sends EXCEPT !["heartbeat"] = "out"]
    /\ UNCHANGED << running, connected, link_, loop, backoff, listener, queue,
                    inHand, returned, received, recorded, reported >>

BeatRaises ==
    /\ heartbeat = "sending" /\ Raises("heartbeat")
    /\ heartbeat' = "ended" /\ report' = 0
    /\ sends' = [sends EXCEPT !["heartbeat"] = "out"]
    /\ UNCHANGED << running, connected, link_, loop, backoff, listener, queue,
                    inHand, returned, received, pending, recorded, reported >>

(* _listener_loop: a command is handled and answered; a failed answer is   *)
(* logged; the iteration ends when the link is closed.                     *)
Command ==
    /\ listener = "listening" /\ link = "open"
    /\ listener' = "responding"
    /\ sends' = [sends EXCEPT !["listener"] = "waiting"]
    /\ UNCHANGED << running, connected, link_, loop, backoff, heartbeat, queue,
                    inHand, returned, received, stats >>

ResponseOver ==
    /\ listener = "responding"
    /\ sends["listener"] = "written" \/ Raises("listener")
    /\ listener' = "listening"
    /\ sends' = [sends EXCEPT !["listener"] = "out"]
    /\ UNCHANGED << running, connected, link_, loop, backoff, heartbeat, queue,
                    inHand, returned, received, stats >>

ListenerEnds ==
    /\ listener = "listening" /\ link = "closed"
    /\ listener' = "ended"
    /\ UNCHANGED << running, connected, link_, loop, backoff, heartbeat, sends, queue,
                    inHand, returned, received, stats >>

-----------------------------------------------------------------------------
(* The network: the server closes the link, or it dies and the keepalive   *)
(* (ping_interval, ping_timeout) finds out.                                *)
LinkLost ==
    /\ link = "open" /\ drops < MaxDrops
    /\ drops' = drops + 1
    /\ link' \in {"closed", "dead"}
    /\ UNCHANGED << running, connected, loop, backoff, heartbeat, listener, sends,
                    queue, inHand, returned, received, stats >>

PingTimeout ==
    /\ link = "dead"
    /\ link' = "closed"
    /\ UNCHANGED << running, connected, drops, loop, backoff, heartbeat, listener,
                    sends, queue, inHand, returned, received, stats >>

Next ==
    \/ SendPacket \/ RecordPacket
    \/ Start \/ Stop \/ Cancelled
    \/ Connect \/ ConnectFails \/ BackoffOver \/ Flush \/ Leave \/ Closed
    \/ \E t \in Tasks : Acquire(t) \/ Write(t)
    \/ Registered \/ RegistrationRaises \/ Flushed \/ FlushRaises
    \/ Beat \/ BeatSent \/ BeatRaises
    \/ Command \/ ResponseOver \/ ListenerEnds
    \/ LinkLost \/ PingTimeout

(***************************************************************************)
(* Every coroutine that can go on does, timers fire, the keepalive notices *)
(* a dead peer, the lock is granted in the order it was asked for (hence   *)
(* strong fairness) and the server is not unreachable for ever.            *)
(***************************************************************************)
Fairness ==
    /\ WF_vars(Start) /\ WF_vars(Cancelled) /\ WF_vars(BackoffOver)
    /\ WF_vars(Flush) /\ WF_vars(Leave) /\ WF_vars(Closed)
    /\ SF_vars(Connect)
    /\ \A t \in Tasks : SF_vars(Acquire(t)) /\ WF_vars(Write(t))
    /\ WF_vars(Registered \/ RegistrationRaises)
    /\ WF_vars(Flushed \/ FlushRaises)
    /\ WF_vars(Beat) /\ WF_vars(BeatSent \/ BeatRaises)
    /\ WF_vars(ResponseOver) /\ WF_vars(ListenerEnds)
    /\ WF_vars(PingTimeout)

Spec == Init /\ [][Next]_vars
FairSpec == Spec /\ Fairness

-----------------------------------------------------------------------------
Elements(seq) == {seq[i] : i \in DOMAIN seq}

TypeOK ==
    /\ running \in BOOLEAN /\ connected \in BOOLEAN
    /\ link \in {"none", "open", "dead", "closed"} /\ drops \in Nat
    /\ loop \in {"new", "connecting", "registering", "idle", "flushing",
                 "closing", "backoff", "ended"}
    /\ backoff \in ReconnectDelay .. MaxBackoff
    /\ heartbeat \in {"off", "sleeping", "sending", "ended"}
    /\ listener \in {"off", "listening", "responding", "ended"}
    /\ sends \in [Tasks -> {"out", "waiting", "writing", "written"}]
    /\ buffer \in Seq(1 .. accepted) /\ Len(buffer) <= MaxBuffer
    /\ inHand \in 0 .. accepted
    /\ {pending, report, recorded, reported} \subseteq Nat
    /\ {accepted, overflows} \subseteq Nat
    /\ returned \subseteq 1 .. accepted /\ received \in Seq(1 .. accepted)

(* Packets reach the server in the order in which they were captured, over *)
(* any number of reconnections; only the message that was being sent when  *)
(* a link closed may arrive twice.                                         *)
InOrder == \A i \in 1 .. Len(received) - 1 : received[i] <= received[i + 1]

(* No more packets go missing than the full buffer pushed out, whatever    *)
(* happens to the connection while they are sent: a packet is missing when *)
(* its send never returned and it is not in the buffer.                    *)
LossAccounted ==
    Cardinality((1 .. accepted) \ (returned \cup Elements(buffer))) <= overflows

(* What the server receives is in order and nothing is lost unseen.        *)
DeliveredInOrder == InOrder /\ LossAccounted

(* "Serialized sends via asyncio.Lock to prevent frame corruption": never  *)
(* two tasks between taking the lock and releasing it, also when tasks are *)
(* cancelled in the middle of a send.                                      *)
SerializedSends == Cardinality({t \in Tasks : InLock(t)}) <= 1

(* The heartbeat and the listener of a connection never outlive it: none   *)
(* is left when the next attempt starts or the client has ended.           *)
NoOrphanTasks ==
    loop \in {"connecting", "registering", "closing", "backoff", "ended"}
    => /\ heartbeat = "off" /\ listener = "off"
       /\ \A t \in Tasks \ {"loop"} : sends[t] = "out"

(* The tasks of a connection exclude each other and end with it.           *)
TasksBounded == SerializedSends /\ NoOrphanTasks

(* Whatever the connection goes through, what is buffered is sent in the   *)
(* end, unless the client is stopped.                                      *)
Drains == (running /\ buffer # << >>) ~> (buffer = << >> \/ ~ running)

(* stop() ends every task of the client.                                   *)
StopEnds == (loop # "new" /\ ~ running) ~> (loop = "ended" /\ heartbeat = "off" /\ listener = "off")

(* The two together: the client works its buffer off, and it ends.         *)
DrainsAndEnds == Drains /\ StopEnds

(* "Local buffer during disconnects (up to buffer_max_size)": a packet is  *)
(* given up only when MaxBuffer later ones were accepted.                  *)
NewestKept ==
    \A m \in 1 .. accepted :
        m \in returned \cup Elements(buffer) \cup {inHand} \/ m <= accepted - MaxBuffer

(* "The cloud heartbeat carries a stats summary", the packets since the    *)
(* last one (packets_since_last): as long as no link was lost, every       *)
(* recorded packet was reported or waits for the next report.              *)
StatsComplete == running /\ drops = 0 => recorded <= pending + reported

(* "Automatic reconnection": a link that closed is opened again unless the *)
(* client is stopped.                                                      *)
Reconnects == (running /\ link = "closed") ~> (link = "open" \/ ~ running)
=============================================================================
