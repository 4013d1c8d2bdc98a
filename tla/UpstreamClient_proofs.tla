------------------------ MODULE UpstreamClient_proofs ------------------------
(***************************************************************************)
(* Proofs about UpstreamClient, for every buffer size and every number of  *)
(* packets, losses of the link and reconnections.                          *)
(*                                                                         *)
(* The queue: the buffer always holds the newest packets, without a gap,   *)
(* so what has left it are the packets 1 .. Gone.  Each of them left by an *)
(* eviction or by a popleft() after a send that returned, and the message  *)
(* a send was about is never newer than the packet that popleft() removes; *)
(* hence no more packets are missing than were evicted, although the two   *)
(* may be different packets.  The tasks: the lock has one holder, and      *)
(* outside the two states in which the children run they do not exist.     *)
(***************************************************************************)
EXTENDS UpstreamClient, TLAPS, FiniteSetTheorems

(* The packets that have left the buffer are 1 .. Gone.                    *)
Gone == accepted - Len(buffer)

IsRun(seq, n) == \A i \in 1 .. Len(seq) : seq[i] = n + i

Contiguous == Gone \in Nat /\ IsRun(buffer, Gone)

(* Every pop was an eviction or belongs to a send that returned.           *)
PopsCounted ==
    /\ returned \subseteq 1 .. Gone
    /\ Cardinality(returned) + overflows = Gone

(* The message being sent is no newer than the head of the buffer, and it  *)
(* is newer than every message whose send returned.                        *)
InHandOldest ==
    loop = "flushing" =>
        /\ buffer # << >>
        /\ inHand \in 1 .. Gone + 1
        /\ \A m \in returned : m < inHand

(* The server has nothing newer than what is, or was last, being sent.     *)
ReceivedBehind ==
    /\ \A i \in 1 .. Len(received) : received[i] <= Gone + 1
    /\ loop = "flushing" => \A i \in 1 .. Len(received) : received[i] <= inHand

QueueInv == Contiguous /\ PopsCounted /\ InHandOldest /\ ReceivedBehind /\ InOrder

OneHolder == \A t, u \in Tasks : InLock(t) /\ InLock(u) => t = u

(* The children exist only between the registration and the end of the     *)
(* connection.                                                             *)
ChildrenScoped ==
    loop \notin {"idle", "flushing"} =>
        /\ heartbeat = "off" /\ listener = "off"
        /\ sends["heartbeat"] = "out" /\ sends["listener"] = "out"

TaskInv == OneHolder /\ ChildrenScoped

Inv == TypeOK /\ QueueInv /\ TaskInv

-----------------------------------------------------------------------------
(* Sequences: what Head, Tail and Append do to a contiguous buffer.        *)
LEMMA TailFacts ==
  ASSUME NEW T, NEW s \in Seq(T), s # << >>
  PROVE  /\ Tail(s) \in Seq(T) /\ Len(Tail(s)) = Len(s) - 1 /\ Len(s) >= 1
         /\ \A i \in 1 .. Len(s) - 1 : Tail(s)[i] = s[i + 1]
         /\ Head(s) = s[1] /\ Head(s) \in T
         /\ Tail(s) # << >> => Len(s) >= 2 /\ Head(Tail(s)) = s[2]
OBVIOUS

LEMMA AppendFacts ==
  ASSUME NEW T, NEW s \in Seq(T), NEW x \in T
  PROVE  /\ Append(s, x) \in Seq(T) /\ Len(Append(s, x)) = Len(s) + 1
         /\ \A i \in 1 .. Len(s) : Append(s, x)[i] = s[i]
         /\ Append(s, x)[Len(s) + 1] = x
OBVIOUS

(* A sequence is one over any set that holds its elements.                 *)
LEMMA SeqOver ==
  ASSUME NEW T, NEW U, NEW s \in Seq(T), \A i \in 1 .. Len(s) : s[i] \in U
  PROVE  s \in Seq(U)
OBVIOUS

(* Runs of integers that follow each other: popping the head, appending    *)
(* the next one, and the set of the elements.                              *)
LEMMA RunTail ==
  ASSUME NEW n \in Int, NEW s \in Seq(Int), s # << >>, IsRun(s, n)
  PROVE  /\ Tail(s) \in Seq(Int) /\ Len(Tail(s)) = Len(s) - 1
         /\ IsRun(Tail(s), n + 1) /\ Head(s) = n + 1 /\ Len(s) \in Nat \ {0}
<1>1. /\ Tail(s) \in Seq(Int) /\ Len(Tail(s)) = Len(s) - 1
      /\ \A i \in 1 .. Len(s) - 1 : Tail(s)[i] = s[i + 1]
      /\ Head(s) = s[1] /\ Len(s) \in Nat \ {0}
  OBVIOUS
<1>2. QED
  BY <1>1 DEF IsRun

LEMMA RunAppend ==
  ASSUME NEW n \in Int, NEW s \in Seq(Int), IsRun(s, n)
  PROVE  /\ Append(s, n + Len(s) + 1) \in Seq(Int)
         /\ Len(Append(s, n + Len(s) + 1)) = Len(s) + 1
         /\ IsRun(Append(s, n + Len(s) + 1), n)
<1> DEFINE x == n + Len(s) + 1
<1>1. x \in Int /\ Len(s) \in Nat
  OBVIOUS
<1>2. /\ Append(s, x) \in Seq(Int) /\ Len(Append(s, x)) = Len(s) + 1
      /\ \A i \in 1 .. Len(s) : Append(s, x)[i] = s[i]
      /\ Append(s, x)[Len(s) + 1] = x
  BY <1>1, AppendFacts
<1>3. QED
  BY <1>1, <1>2 DEF IsRun

LEMMA RunElements ==
  ASSUME NEW n \in Nat, NEW s \in Seq(Int), IsRun(s, n)
  PROVE  Elements(s) = n + 1 .. n + Len(s)
<1>1. ASSUME NEW m \in n + 1 .. n + Len(s) PROVE m \in Elements(s)
  <2>1. m - n \in 1 .. Len(s) /\ s[m - n] = m
    BY DEF IsRun
  <2>2. QED
    BY <2>1 DEF Elements
<1>2. ASSUME NEW m \in Elements(s) PROVE m \in n + 1 .. n + Len(s)
  <2>1. PICK i \in 1 .. Len(s) : m = s[i]
    BY DEF Elements
  <2>2. QED
    BY <2>1 DEF IsRun
<1>3. QED
  BY <1>1, <1>2

LEMMA RunOver ==
  ASSUME NEW n \in Nat, NEW s \in Seq(Int), IsRun(s, n)
  PROVE  s \in Seq(1 .. n + Len(s))
<1>1. \A i \in 1 .. Len(s) : s[i] \in 1 .. n + Len(s)
  BY DEF IsRun
<1>2. QED
  BY <1>1, SeqOver

(* A set of messages below a bound is finite.                              *)
LEMMA FiniteReturned ==
  ASSUME NEW n \in Nat, NEW S \in SUBSET (1 .. n)
  PROVE  IsFiniteSet(S) /\ Cardinality(S) \in Nat /\ Cardinality(1 .. n) = n
         /\ IsFiniteSet(1 .. n)
<1>1. IsFiniteSet(1 .. n) /\ Cardinality(1 .. n) = n
  <2>1. 1 \in Int /\ n \in Int
    OBVIOUS
  <2>2. QED
    BY <2>1, FS_Interval
<1>2. IsFiniteSet(S)
  BY <1>1, FS_Subset
<1>3. QED
  BY <1>1, <1>2, FS_CardinalityType

(* The backoff stays between its first value and its cap.                  *)
LEMMA GrownFacts ==
  ASSUME NEW delay \in ReconnectDelay .. MaxBackoff
  PROVE  Grown(delay) \in ReconnectDelay .. MaxBackoff
BY UpstreamAssumption DEF Grown

-----------------------------------------------------------------------------
(* The initial state.                                                      *)
LEMMA InitInv == Init => Inv
<1> SUFFICES ASSUME Init PROVE Inv
  OBVIOUS
<1>1. TypeOK
  <2>1. buffer \in Seq(1 .. accepted) /\ Len(buffer) <= MaxBuffer /\ received \in Seq(1 .. accepted)
    BY UpstreamAssumption DEF Init
  <2>2. returned \subseteq 1 .. accepted /\ inHand \in 0 .. accepted
    BY DEF Init
  <2>3. running \in BOOLEAN /\ connected \in BOOLEAN
    BY Zenon DEF Init
  <2>4. /\ sends \in [Tasks -> {"out", "waiting", "writing", "written"}]
        /\ backoff \in ReconnectDelay .. MaxBackoff
    BY UpstreamAssumption DEF Init, Tasks
  <2>5. /\ {pending, report, recorded, reported} \subseteq Nat
        /\ {accepted, overflows} \subseteq Nat /\ drops \in Nat
    BY DEF Init
  <2>6. /\ link \in {"none", "open", "dead", "closed"}
        /\ loop \in {"new", "connecting", "registering", "idle", "flushing",
                     "closing", "backoff", "ended"}
        /\ heartbeat \in {"off", "sleeping", "sending", "ended"}
        /\ listener \in {"off", "listening", "responding", "ended"}
    BY DEF Init
  <2>7. QED
    BY <2>1, <2>2, <2>3, <2>4, <2>5, <2>6 DEF TypeOK
<1>2. QueueInv
  <2>1. Cardinality(returned) = 0
    BY FS_EmptySet DEF Init
  <2>2. /\ buffer = << >> /\ received = << >> /\ Len(buffer) = 0 /\ Len(received) = 0
        /\ accepted = 0 /\ overflows = 0 /\ returned = {} /\ loop = "new"
    BY DEF Init
  <2>3. Gone = 0
    <3>1. accepted = 0 /\ Len(buffer) = 0
      BY <2>2
    <3>2. QED
      BY <3>1 DEF Gone
  <2>4. Contiguous /\ PopsCounted
    BY <2>1, <2>2, <2>3 DEF Contiguous, PopsCounted, IsRun
  <2>5. InHandOldest /\ ReceivedBehind /\ InOrder
    BY <2>2, <2>3 DEF InHandOldest, ReceivedBehind, InOrder
  <2>6. QED
    BY <2>4, <2>5 DEF QueueInv
<1>3. TaskInv
  BY DEF Init, TaskInv, OneHolder, ChildrenScoped, InLock, Tasks
<1>4. QED
  BY <1>1, <1>2, <1>3 DEF Inv

(* What _flush_buffer()'s head of the loop does to the loop's variables.   *)
LEMMA FlushHeadFacts ==
  ASSUME TypeOK, NEW buf \in Seq(Nat), FlushHead(buf)
  PROVE  /\ loop' \in {"flushing", "idle"}
         /\ sends' \in [Tasks -> {"out", "waiting", "writing", "written"}]
         /\ sends'["loop"] \in {"out", "waiting"}
         /\ \A t \in Tasks \ {"loop"} : sends'[t] = sends[t]
         /\ loop' = "flushing" => buf # << >> /\ inHand' = Head(buf)
         /\ loop' = "idle" => buf = << >> /\ inHand' = 0
BY DEF FlushHead, TypeOK, Tasks

-----------------------------------------------------------------------------
(* The queue.  Four kinds of step touch it: a packet is accepted, a flush  *)
(* begins, a message is written, a send returns.                           *)

(* send_packet(): the head of a full buffer makes room.                    *)
LEMMA AcceptStep ==
  ASSUME Inv, SendPacket
  PROVE  QueueInv' /\ buffer' \in Seq(1 .. accepted') /\ Len(buffer') <= MaxBuffer
<1> DEFINE cut == IF Len(buffer) = MaxBuffer THEN Tail(buffer) ELSE buffer
           d == IF Len(buffer) = MaxBuffer THEN 1 ELSE 0
<1>1. buffer \in Seq(Int) /\ received \in Seq(1 .. accepted) /\ IsRun(buffer, Gone)
  BY DEF Inv, TypeOK, QueueInv, Contiguous
<1>2. /\ Len(buffer) \in Nat /\ Len(buffer) <= MaxBuffer
      /\ accepted \in Nat /\ overflows \in Nat /\ MaxBuffer \in Nat /\ MaxBuffer > 0
      /\ Gone \in Nat /\ Gone = accepted - Len(buffer)
  BY UpstreamAssumption DEF Inv, TypeOK, QueueInv, Contiguous, Gone
<1>3. accepted' = accepted + 1 /\ overflows' = overflows + d
  BY DEF SendPacket
<1>4. buffer' = Append(cut, accepted + 1)
  BY DEF SendPacket, Appended
<1>5. UNCHANGED << loop, inHand, returned, received >>
  BY DEF SendPacket
<1>6. d \in {0, 1} /\ Gone + d \in Nat
  BY <1>2
<1>7. cut \in Seq(Int) /\ IsRun(cut, Gone + d) /\ Len(cut) = Len(buffer) - d
  <2>1. CASE Len(buffer) = MaxBuffer
    <3>1. buffer # << >>
      BY <1>2, <2>1
    <3>2. cut = Tail(buffer) /\ d = 1
      BY <2>1
    <3> HIDE DEF cut, d
    <3>3. QED
      BY <1>1, <1>2, <3>1, <3>2, RunTail
  <2>2. CASE Len(buffer) # MaxBuffer
    BY <1>1, <1>2, <2>2
  <2>3. QED
    BY <2>1, <2>2
<1>8. Len(cut) \in Nat /\ Len(cut) = Len(buffer) - d /\ Len(cut) < MaxBuffer
  <2>1. Len(cut) \in Nat /\ Len(cut) = Len(buffer) - d
    BY <1>7
  <2>2. CASE Len(buffer) = MaxBuffer
    BY <1>2, <2>1, <2>2
  <2>3. CASE Len(buffer) # MaxBuffer
    BY <1>2, <2>1, <2>3
  <2>4. QED
    BY <2>1, <2>2, <2>3
<1> HIDE DEF cut, d
<1>9. /\ buffer' \in Seq(Int) /\ Len(buffer') = Len(cut) + 1
      /\ IsRun(buffer', Gone + d)
  <2>1. accepted + 1 = (Gone + d) + Len(cut) + 1
    BY <1>2, <1>6, <1>8
  <2>2. Gone + d \in Int
    BY <1>6
  <2>3. buffer' = Append(cut, (Gone + d) + Len(cut) + 1)
    BY <1>4, <2>1
  <2>4. QED
    BY <1>7, <2>2, <2>3, RunAppend
<1>10. Len(buffer') = Len(cut) + 1
  BY <1>9
<1>11. Gone' = Gone + d
  BY <1>2, <1>3, <1>6, <1>8, <1>10 DEF Gone
<1>12. Contiguous'
  BY <1>6, <1>9, <1>11 DEF Contiguous, IsRun
<1>13. PopsCounted'
  <2>1. returned \subseteq 1 .. Gone /\ Cardinality(returned) + overflows = Gone
    BY DEF Inv, QueueInv, PopsCounted
  <2>2. Cardinality(returned) \in Nat
    BY <1>2, <2>1, FiniteReturned
  <2>3. QED
    BY <1>2, <1>3, <1>5, <1>6, <1>11, <2>1, <2>2 DEF PopsCounted
<1>14. InHandOldest'
  <2>1. buffer' # << >>
    BY <1>8, <1>10
  <2>2. QED
    BY <1>2, <1>5, <1>6, <1>11, <2>1 DEF Inv, QueueInv, InHandOldest
<1>15. ReceivedBehind' /\ InOrder'
  BY <1>1, <1>2, <1>5, <1>6, <1>11 DEF Inv, QueueInv, ReceivedBehind, InOrder
<1>16. buffer' \in Seq(1 .. accepted') /\ Len(buffer') <= MaxBuffer
  <2>1. accepted' = Gone + d + Len(buffer')
    BY <1>2, <1>3, <1>6, <1>8, <1>10
  <2>2. Len(buffer') <= MaxBuffer
    BY <1>2, <1>8, <1>10
  <2>3. QED
    BY <1>6, <1>9, <2>1, <2>2, RunOver
<1>17. QED
  BY <1>12, <1>13, <1>14, <1>15, <1>16 DEF QueueInv

(* A step that leaves the queue and its histories alone, and either leaves *)
(* the message in hand or leaves the flush.                                *)
LEMMA IdleStep ==
  ASSUME QueueInv, UNCHANGED << queue, returned, received >>,
         loop' # "flushing" \/ (loop' = loop /\ inHand' = inHand)
  PROVE  QueueInv'
<1>1. UNCHANGED << buffer, accepted, overflows, returned, received, Gone >>
  BY DEF queue, Gone
<1>2. Contiguous' /\ PopsCounted' /\ InOrder'
  BY <1>1 DEF QueueInv, Contiguous, PopsCounted, InOrder, IsRun
<1>3. InHandOldest' /\ ReceivedBehind'
  BY <1>1 DEF QueueInv, InHandOldest, ReceivedBehind
<1>4. QED
  BY <1>2, <1>3 DEF QueueInv

(* The head of the flush loop takes the oldest message of the buffer.      *)
LEMMA FlushHeadStep ==
  ASSUME Inv, FlushHead(buffer), UNCHANGED << queue, returned, received >>
  PROVE  QueueInv' /\ inHand' \in 0 .. accepted
<1>1. buffer \in Seq(Int) /\ IsRun(buffer, Gone)
  BY DEF Inv, TypeOK, QueueInv, Contiguous
<1>2. Gone \in Nat /\ Gone = accepted - Len(buffer) /\ accepted \in Nat
  BY DEF Inv, TypeOK, QueueInv, Contiguous, Gone
<1>3. CASE buffer # << >>
  <2>1. inHand' = Gone + 1 /\ Len(buffer) \in Nat \ {0}
    BY <1>1, <1>2, <1>3, RunTail DEF FlushHead
  <2>2. UNCHANGED << buffer, accepted, overflows, returned, received, Gone >>
    BY DEF queue, Gone
  <2>3. Contiguous' /\ PopsCounted' /\ InOrder'
    BY <2>2 DEF Inv, QueueInv, Contiguous, PopsCounted, InOrder, IsRun
  <2>4. InHandOldest'
    BY <1>2, <1>3, <2>1, <2>2 DEF Inv, QueueInv, InHandOldest, PopsCounted
  <2>5. ReceivedBehind'
    BY <2>1, <2>2 DEF Inv, QueueInv, ReceivedBehind
  <2>6. inHand' \in 0 .. accepted
    BY <1>2, <2>1
  <2>7. QED
    BY <2>3, <2>4, <2>5, <2>6 DEF QueueInv
<1>4. CASE buffer = << >>
  <2>1. loop' = "idle" /\ inHand' = 0
    BY <1>4 DEF FlushHead
  <2>2. QED
    BY <1>2, <2>1, IdleStep DEF Inv
<1>5. QED
  BY <1>3, <1>4

(* A write reaches the server: the message in hand is newer than, or the   *)
(* same as, everything the server has.                                     *)
LEMMA WriteStep ==
  ASSUME Inv, NEW t \in Tasks, Write(t)
  PROVE  QueueInv' /\ received' \in Seq(1 .. accepted)
<1>1. UNCHANGED << queue, returned, loop, inHand >>
  BY DEF Write
<1>2. received \in Seq(1 .. accepted) /\ accepted \in Nat /\ inHand \in 0 .. accepted
  BY DEF Inv, TypeOK
<1>3. CASE received' = received
  BY <1>1, <1>2, <1>3, IdleStep DEF Inv
<1>4. CASE received' = Append(received, inHand) /\ loop = "flushing"
  <2>1. UNCHANGED << buffer, accepted, overflows, returned, Gone >>
    BY <1>1 DEF queue, Gone
  <2>2. Contiguous' /\ PopsCounted' /\ InHandOldest'
    BY <1>1, <2>1 DEF Inv, QueueInv, Contiguous, PopsCounted, InHandOldest, IsRun
  <2>3. inHand \in 1 .. Gone + 1 /\ Gone \in Nat
    BY <1>4 DEF Inv, QueueInv, InHandOldest, Contiguous
  <2>4. inHand \in 1 .. accepted
    BY <1>2, <2>3
  <2>5. /\ received' \in Seq(1 .. accepted) /\ Len(received') = Len(received) + 1
        /\ \A i \in 1 .. Len(received) : received'[i] = received[i]
        /\ received'[Len(received) + 1] = inHand
    BY <1>2, <1>4, <2>4, AppendFacts
  <2>6. \A i \in 1 .. Len(received) : received[i] <= inHand /\ received[i] \in Int
    BY <1>2, <1>4 DEF Inv, QueueInv, ReceivedBehind
  <2>7. Len(received) \in Nat
    BY <1>2
  <2>8. \A i \in 1 .. Len(received') : received'[i] <= inHand
    BY <2>3, <2>5, <2>6, <2>7
  <2>9. ReceivedBehind'
    <3>1. \A i \in 1 .. Len(received') : received'[i] \in Int
      BY <1>2, <2>5
    <3>2. QED
      BY <1>1, <2>1, <2>3, <2>8, <3>1 DEF ReceivedBehind
  <2>10. InOrder'
    BY <2>5, <2>6, <2>7 DEF Inv, QueueInv, InOrder
  <2>11. QED
    BY <2>2, <2>5, <2>9, <2>10 DEF QueueInv
<1>5. QED
  BY <1>3, <1>4 DEF Write

(* The send returned.  popleft() removes the head of the buffer, which is  *)
(* the message that was sent unless that one was evicted in the meantime.  *)
LEMMA PopStep ==
  ASSUME Inv, Flushed
  PROVE  /\ QueueInv' /\ buffer' \in Seq(1 .. accepted) /\ Len(buffer') <= MaxBuffer
         /\ inHand' \in 0 .. accepted /\ returned' \subseteq 1 .. accepted
<1>1. loop = "flushing" /\ buffer # << >>
  BY DEF Flushed, Inv, QueueInv, InHandOldest
<1>2. buffer \in Seq(Int) /\ IsRun(buffer, Gone)
  BY DEF Inv, TypeOK, QueueInv, Contiguous
<1>3. /\ Gone \in Nat /\ Gone = accepted - Len(buffer) /\ accepted \in Nat
      /\ overflows \in Nat /\ Len(buffer) <= MaxBuffer /\ MaxBuffer \in Nat
  BY UpstreamAssumption DEF Inv, TypeOK, QueueInv, Contiguous, Gone
<1>4. /\ buffer' = Tail(buffer) /\ returned' = returned \cup {inHand}
      /\ UNCHANGED << accepted, overflows, received >>
  BY DEF Flushed
<1>5. /\ buffer' \in Seq(Int) /\ IsRun(buffer', Gone + 1)
      /\ Len(buffer') = Len(buffer) - 1 /\ Len(buffer) \in Nat \ {0}
  BY <1>1, <1>2, <1>3, <1>4, RunTail
<1>6. Len(buffer') = Len(buffer) - 1 /\ Len(buffer) \in Nat /\ Len(buffer) > 0
  BY <1>5
<1>7. Gone' = Gone + 1
  <2>1. accepted' = accepted
    BY <1>4
  <2>2. QED
    BY <1>3, <1>6, <2>1 DEF Gone
<1>8. Contiguous'
  BY <1>3, <1>5, <1>7 DEF Contiguous, IsRun
<1>9. /\ inHand \in 1 .. Gone + 1 /\ \A m \in returned : m < inHand
      /\ returned \subseteq 1 .. Gone
  BY <1>1 DEF Inv, QueueInv, InHandOldest, PopsCounted
<1>10. PopsCounted'
  <2>1. IsFiniteSet(returned) /\ Cardinality(returned) \in Nat
    BY <1>3, <1>9, FiniteReturned
  <2>2. inHand \notin returned
    BY <1>9
  <2>3. Cardinality(returned') = Cardinality(returned) + 1
    BY <1>4, <2>1, <2>2, FS_AddElement
  <2>4. Cardinality(returned) + overflows = Gone
    BY DEF Inv, QueueInv, PopsCounted
  <2>5. returned' \subseteq 1 .. Gone'
    BY <1>3, <1>4, <1>7, <1>9
  <2>6. QED
    BY <1>3, <1>4, <1>7, <2>1, <2>3, <2>4, <2>5 DEF PopsCounted
<1>11. /\ loop' = "flushing" => buffer' # << >> /\ inHand' = Gone' + 1
       /\ loop' # "flushing" => inHand' = 0
  <2>1. FlushHead(buffer')
    BY <1>4 DEF Flushed
  <2>2. CASE buffer' # << >>
    <3>1. Head(buffer') = Gone + 1 + 1
      <4>1. Gone + 1 \in Int
        BY <1>3
      <4>2. QED
        BY <1>5, <2>2, <4>1, RunTail
    <3>2. QED
      BY <1>3, <1>7, <2>1, <2>2, <3>1 DEF FlushHead
  <2>3. CASE buffer' = << >>
    BY <2>1, <2>3 DEF FlushHead
  <2>4. QED
    BY <2>2, <2>3
<1>12. InHandOldest'
  <2>1. returned' \subseteq 1 .. Gone'
    BY <1>10 DEF PopsCounted
  <2>2. QED
    BY <1>3, <1>7, <1>11, <2>1 DEF InHandOldest
<1>13. ReceivedBehind' /\ InOrder'
  <2>1. \A i \in 1 .. Len(received) : received[i] <= Gone + 1 /\ received[i] \in Int
    BY DEF Inv, TypeOK, QueueInv, ReceivedBehind
  <2>2. ReceivedBehind'
    BY <1>3, <1>4, <1>7, <1>11, <2>1 DEF ReceivedBehind
  <2>3. InOrder'
    BY <1>4 DEF Inv, QueueInv, InOrder
  <2>4. QED
    BY <2>2, <2>3
<1>14. buffer' \in Seq(1 .. accepted) /\ Len(buffer') <= MaxBuffer
  <2>1. accepted = Gone + 1 + Len(buffer') /\ Gone + 1 \in Nat
    BY <1>3, <1>6
  <2>2. Len(buffer') <= MaxBuffer
    BY <1>3, <1>6
  <2>3. QED
    BY <1>5, <2>1, <2>2, RunOver
<1>15. inHand' \in 0 .. accepted /\ returned' \subseteq 1 .. accepted
  <2>1. Gone + 1 <= accepted
    BY <1>3, <1>6
  <2>2. returned' \subseteq 1 .. accepted
    BY <1>3, <1>4, <1>9, <2>1
  <2>3. buffer' # << >> => Len(buffer') > 0
    BY <1>5
  <2>4. inHand' \in 0 .. accepted
    BY <1>3, <1>6, <1>7, <1>11, <2>3
  <2>5. QED
    BY <2>2, <2>4
<1>16. QED
  BY <1>8, <1>10, <1>12, <1>13, <1>14, <1>15 DEF QueueInv

-----------------------------------------------------------------------------
(* The type invariant in four parts, by what the provers need for each.    *)
Flags == running \in BOOLEAN /\ connected \in BOOLEAN

Positions ==
    /\ link \in {"none", "open", "dead", "closed"}
    /\ loop \in {"new", "connecting", "registering", "idle", "flushing",
                 "closing", "backoff", "ended"}
    /\ heartbeat \in {"off", "sleeping", "sending", "ended"}
    /\ listener \in {"off", "listening", "responding", "ended"}
    /\ sends \in [Tasks -> {"out", "waiting", "writing", "written"}]

Counters ==
    /\ drops \in Nat /\ backoff \in ReconnectDelay .. MaxBackoff
    /\ pending \in Nat /\ report \in Nat /\ recorded \in Nat /\ reported \in Nat

Queued ==
    /\ accepted \in Nat /\ overflows \in Nat
    /\ buffer \in Seq(1 .. accepted) /\ Len(buffer) <= MaxBuffer
    /\ inHand \in 0 .. accepted
    /\ returned \subseteq 1 .. accepted /\ received \in Seq(1 .. accepted)

LEMMA TypeParts == TypeOK <=> Flags /\ Positions /\ Counters /\ Queued
BY DEF TypeOK, Flags, Positions, Counters, Queued

LEMMA FlagsStep == Flags /\ [Next]_vars => Flags'
<1> SUFFICES ASSUME Flags, [Next]_vars PROVE Flags'
  OBVIOUS
<1>1. running' = running \/ running' = TRUE \/ running' = FALSE
  BY Zenon DEF Next, vars, link_, queue, stats, SendPacket, RecordPacket, Start, Stop, Cancelled,
     Connect, ConnectFails, BackoffOver, Flush, Leave, Closed, Acquire, Write,
     Registered, RegistrationRaises, Flushed, FlushRaises, Beat, BeatSent, BeatRaises,
     Command, ResponseOver, ListenerEnds, LinkLost, PingTimeout
<1>2. connected' = connected \/ connected' = TRUE \/ connected' = FALSE
  BY Zenon DEF Next, vars, link_, queue, stats, AttemptOver, SendPacket, RecordPacket, Start, Stop, Cancelled,
     Connect, ConnectFails, BackoffOver, Flush, Leave, Closed, Acquire, Write,
     Registered, RegistrationRaises, Flushed, FlushRaises, Beat, BeatSent, BeatRaises,
     Command, ResponseOver, ListenerEnds, LinkLost, PingTimeout
<1>3. QED
  BY <1>1, <1>2, Zenon DEF Flags

LEMMA PositionsStep == Positions /\ [Next]_vars => Positions'
  BY DEF Positions, Tasks, Next, vars, link_, queue, stats, AttemptOver, ChildrenCancelled, FlushHead,
     SendPacket, RecordPacket, Start, Stop, Cancelled,
     Connect, ConnectFails, BackoffOver, Flush, Leave, Closed, Acquire, Write,
     Registered, RegistrationRaises, Flushed, FlushRaises, Beat, BeatSent, BeatRaises,
     Command, ResponseOver, ListenerEnds, LinkLost, PingTimeout

LEMMA CountersStep == Counters /\ [Next]_vars => Counters'
<1> SUFFICES ASSUME Counters, [Next]_vars PROVE Counters'
  OBVIOUS
<1>1. CASE BackoffOver
  <2>1. backoff' \in ReconnectDelay .. MaxBackoff
    BY <1>1, GrownFacts DEF Counters, BackoffOver
  <2>2. QED
    BY <1>1, <2>1 DEF Counters, BackoffOver, link_, stats
<1>2. CASE ~ BackoffOver
  <2>1. backoff' = backoff \/ backoff' = ReconnectDelay
    BY <1>2 DEF Next, vars, AttemptOver, ChildrenCancelled, SendPacket, RecordPacket,
     Start, Stop, Cancelled, Connect, ConnectFails, Flush, Leave, Closed, Acquire, Write,
     Registered, RegistrationRaises, Flushed, FlushRaises, Beat, BeatSent, BeatRaises,
     Command, ResponseOver, ListenerEnds, LinkLost, PingTimeout
  <2>2. backoff' \in ReconnectDelay .. MaxBackoff
    BY <2>1, UpstreamAssumption DEF Counters
  <2>3. /\ drops' \in Nat /\ pending' \in Nat /\ report' \in Nat
        /\ recorded' \in Nat /\ reported' \in Nat
    BY <1>2 DEF Counters, Next, vars, link_, queue, stats, AttemptOver, ChildrenCancelled,
     SendPacket, RecordPacket, Start, Stop, Cancelled, Connect, ConnectFails, Flush, Leave,
     Closed, Acquire, Write, Registered, RegistrationRaises, Flushed, FlushRaises, Beat,
     BeatSent, BeatRaises, Command, ResponseOver, ListenerEnds, LinkLost, PingTimeout
  <2>4. QED
    BY <2>2, <2>3 DEF Counters
<1>3. QED
  BY <1>1, <1>2

(* The queue and its type over a step of the client.                       *)
LEMMA QueueStep ==
  ASSUME Inv, [Next]_vars
  PROVE  QueueInv' /\ Queued'
<1>1. Queued /\ QueueInv /\ Positions
  BY TypeParts DEF Inv
<1>2. CASE SendPacket
  <2>1. /\ accepted \in Nat /\ overflows \in Nat /\ inHand \in 0 .. accepted
        /\ returned \subseteq 1 .. accepted /\ received \in Seq(1 .. accepted)
    BY <1>1 DEF Queued
  <2>2. accepted' = accepted + 1 /\ UNCHANGED << inHand, returned, received >>
    BY <1>2 DEF SendPacket
  <2>3. accepted' \in Nat /\ overflows' \in Nat
    BY <1>2, <2>1 DEF SendPacket
  <2>4. inHand' \in 0 .. accepted' /\ returned' \subseteq 1 .. accepted'
    BY <2>1, <2>2
  <2>5. received' \in Seq(1 .. accepted')
    <3>1. \A i \in 1 .. Len(received) : received[i] \in 1 .. accepted'
      BY <2>1, <2>2
    <3>2. QED
      BY <2>1, <2>2, <3>1, SeqOver
  <2>6. QED
    BY <1>2, <2>3, <2>4, <2>5, AcceptStep DEF Queued
<1>3. CASE Flush \/ Registered
  <2>1. FlushHead(buffer) /\ UNCHANGED << queue, returned, received >>
    BY <1>3 DEF Flush, Registered
  <2>2. QED
    BY <1>1, <2>1, FlushHeadStep DEF Queued, queue
<1>4. ASSUME NEW t \in Tasks, Write(t)
      PROVE  QueueInv' /\ Queued'
  BY <1>1, <1>4, WriteStep DEF Queued, Write, queue
<1>5. CASE Flushed
  BY <1>1, <1>5, PopStep DEF Queued, Flushed
<1>6. ASSUME UNCHANGED << queue, returned, received >>,
             loop' # "flushing" \/ (loop' = loop /\ inHand' = inHand),
             inHand' \in {0, inHand}
      PROVE  QueueInv' /\ Queued'
  <2>1. QueueInv'
    BY <1>1, <1>6, IdleStep
  <2>2. UNCHANGED << buffer, accepted, overflows, returned, received >>
    BY <1>6 DEF queue
  <2>3. QED
    BY <1>1, <1>6, <2>1, <2>2 DEF Queued
<1>7. CASE ~ (SendPacket \/ Flush \/ Registered \/ Flushed \/ \E t \in Tasks : Write(t))
  <2>1. UNCHANGED << queue, returned, received >>
    BY <1>7 DEF Next, vars, RecordPacket, Start, Stop, Cancelled, Connect, ConnectFails,
       BackoffOver, Leave, Closed, Acquire, RegistrationRaises, FlushRaises, Beat,
       BeatSent, BeatRaises, Command, ResponseOver, ListenerEnds, LinkLost, PingTimeout
  <2>2. /\ loop' # "flushing" \/ (loop' = loop /\ inHand' = inHand)
        /\ inHand' \in {0, inHand}
    BY <1>7 DEF Next, vars, AttemptOver, RecordPacket, Start, Stop, Cancelled, Connect,
       ConnectFails, BackoffOver, Leave, Closed, Acquire, RegistrationRaises, FlushRaises,
       Beat, BeatSent, BeatRaises, Command, ResponseOver, ListenerEnds, LinkLost, PingTimeout
  <2>3. QED
    BY <2>1, <2>2, <1>6
<1>8. QED
  BY <1>2, <1>3, <1>4, <1>5, <1>7

(* The tasks: only Acquire takes the lock, and only when nobody has it;    *)
(* the connection loop leaves "idle" and "flushing" with no child left.    *)
LEMMA TaskStep ==
  ASSUME Positions, TaskInv, [Next]_vars
  PROVE  TaskInv'
<1>1. OneHolder'
  BY DEF Positions, TaskInv, OneHolder, InLock, Tasks, Next, vars, link_, AttemptOver,
     ChildrenCancelled, FlushHead, Raises, SendPacket, RecordPacket, Start, Stop, Cancelled,
     Connect, ConnectFails, BackoffOver, Flush, Leave, Closed, Acquire, Write,
     Registered, RegistrationRaises, Flushed, FlushRaises, Beat, BeatSent, BeatRaises,
     Command, ResponseOver, ListenerEnds, LinkLost, PingTimeout
<1>2. ChildrenScoped'
  BY DEF Positions, TaskInv, ChildrenScoped, Tasks, Next, vars, AttemptOver,
     ChildrenCancelled, FlushHead, SendPacket, RecordPacket, Start, Stop, Cancelled,
     Connect, ConnectFails, BackoffOver, Flush, Leave, Closed, Acquire, Write,
     Registered, RegistrationRaises, Flushed, FlushRaises, Beat, BeatSent, BeatRaises,
     Command, ResponseOver, ListenerEnds, LinkLost, PingTimeout
<1>3. QED
  BY <1>1, <1>2 DEF TaskInv

-----------------------------------------------------------------------------
(* The inductive invariant holds in every state of the client.             *)
THEOREM Invariance == Spec => []Inv
<1>1. Inv /\ [Next]_vars => Inv'
  <2> SUFFICES ASSUME Inv, [Next]_vars PROVE Inv'
    OBVIOUS
  <2>1. Flags' /\ Positions' /\ Counters'
    BY TypeParts, FlagsStep, PositionsStep, CountersStep DEF Inv
  <2>2. QueueInv' /\ Queued'
    BY QueueStep
  <2>3. TaskInv'
    BY TypeParts, TaskStep DEF Inv
  <2>4. TypeOK'
    BY <2>1, <2>2 DEF TypeOK, Flags, Positions, Counters, Queued
  <2>5. QED
    BY <2>2, <2>3, <2>4 DEF Inv
<1>2. QED
  BY <1>1, InitInv, PTL DEF Spec

(* Every variable of the client keeps its type: the buffer never exceeds   *)
(* buffer_max_size and the backoff stays between the configured delay and  *)
(* its cap.                                                                *)
THEOREM TypeCorrect == Spec => []TypeOK
<1>1. Inv => TypeOK
  BY DEF Inv
<1>2. QED
  BY <1>1, Invariance, PTL

(* _flush_buffer() and the reconnections: the server gets the packets in   *)
(* the order of their capture, and no more packets are missing than the    *)
(* full buffer evicted.                                                    *)
THEOREM Delivery == Spec => []DeliveredInOrder
<1>1. Inv => DeliveredInOrder
  <2> SUFFICES ASSUME Inv PROVE DeliveredInOrder
    OBVIOUS
  <2>1. buffer \in Seq(Int) /\ IsRun(buffer, Gone)
    BY DEF Inv, TypeOK, QueueInv, Contiguous
  <2>2. /\ Gone \in Nat /\ accepted \in Nat /\ overflows \in Nat
        /\ accepted = Gone + Len(buffer) /\ Len(buffer) \in Nat
    BY DEF Inv, TypeOK, QueueInv, Contiguous, Gone
  <2>3. Elements(buffer) = Gone + 1 .. accepted
    BY <2>1, <2>2, RunElements
  <2>4. (1 .. accepted) \ (returned \cup Elements(buffer)) = (1 .. Gone) \ returned
    BY <2>2, <2>3
  <2>5. returned \subseteq 1 .. Gone /\ Cardinality(returned) + overflows = Gone
    BY DEF Inv, QueueInv, PopsCounted
  <2>6. /\ IsFiniteSet(1 .. Gone) /\ Cardinality(1 .. Gone) = Gone
        /\ IsFiniteSet(returned) /\ Cardinality(returned) \in Nat
    BY <2>2, <2>5, FiniteReturned
  <2>7. Cardinality((1 .. Gone) \ returned) = Gone - Cardinality(returned)
    <3>1. (1 .. Gone) \cap returned = returned
      BY <2>5
    <3>2. Cardinality((1 .. Gone) \ returned)
             = Cardinality(1 .. Gone) - Cardinality((1 .. Gone) \cap returned)
      BY <2>6, FS_Difference, Zenon
    <3>3. QED
      BY <2>6, <3>1, <3>2
  <2>8. LossAccounted
    <3>1. Gone - Cardinality(returned) = overflows
      BY <2>2, <2>5, <2>6
    <3>2. Cardinality((1 .. accepted) \ (returned \cup Elements(buffer))) = overflows
      BY <2>4, <2>7, <3>1
    <3>3. QED
      BY <2>2, <3>2 DEF LossAccounted
  <2>9. QED
    BY <2>8 DEF DeliveredInOrder, Inv, QueueInv
<1>2. QED
  BY <1>1, Invariance, PTL

(* _send()'s lock has at most one holder although tasks are cancelled in   *)
(* the middle of a send, and no child task outlives its connection.        *)
THEOREM TasksExclusive == Spec => []TasksBounded
<1>1. Inv => TasksBounded
  <2> SUFFICES ASSUME Inv PROVE TasksBounded
    OBVIOUS
  <2>1. SerializedSends
    <3>1. CASE {t \in Tasks : InLock(t)} = {}
      BY <3>1, FS_EmptySet DEF SerializedSends
    <3>2. CASE {t \in Tasks : InLock(t)} # {}
      <4>1. PICK t \in Tasks : InLock(t)
        BY <3>2
      <4>2. {u \in Tasks : InLock(u)} = {t}
        BY <4>1 DEF Inv, TaskInv, OneHolder
      <4>3. Cardinality({t}) = 1
        BY FS_Singleton
      <4>4. QED
        BY <4>2, <4>3 DEF SerializedSends
    <3>3. QED
      BY <3>1, <3>2
  <2>2. NoOrphanTasks
    BY DEF Inv, TaskInv, ChildrenScoped, NoOrphanTasks, Tasks
  <2>3. QED
    BY <2>1, <2>2 DEF TasksBounded
<1>2. QED
  BY <1>1, Invariance, PTL
=============================================================================
