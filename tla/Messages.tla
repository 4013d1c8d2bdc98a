------------------------------ MODULE Messages ------------------------------
(***************************************************************************)
(* The chat: text packets filed into conversations by on_text_packet of    *)
(* src/api/server.py, the messages table of                                *)
(* src/storage/message_repository.py, the sends, reads and deletions of    *)
(* src/api/routes/messages.py and the channel maps of                      *)
(* src/api/channel_hash_resolver.py.  Every packet is saved by a task of   *)
(* its own; the SELECT for an earlier copy and the INSERT or UPDATE after  *)
(* it are two awaits, so they are two steps here.                          *)
(***************************************************************************)
EXTENDS Integers, Sequences, FiniteSets

CONSTANTS
    Primary,    \* the primary channel, always index 0
    Extra,      \* channels the operator can configure
    Lists,      \* lists of them the operator can save
    FirstList,  \* the one the service starts with
    Twin,       \* the one of them whose one-byte hash is the primary's
    Foreign,    \* a channel we have the key of under another name
    Peers,      \* other nodes
    PeerIds,    \* packet ids they use
    OurIds,     \* packet ids we use, perhaps the same
    MaxTasks,   \* bound: tasks saving a packet at the same time
    MaxHeard,   \* bound: text packets received
    MaxChannelEdits  \* bound: saves of the channel list

VARIABLES
    configured,  \* config.meshtastic.channel_keys, in order
    hashMap,     \* ChannelHashResolver._hash_to_index
    nameMap,     \* name_to_channel_index, computed at start
    rows,        \* the messages table
    task,        \* what each _save_and_notify task holds and where it is
    sending,     \* the operator's send_message request
    \* history: how many packets were heard and channel lists saved; the
    \* messages heard; those two tasks saved at the same time; those a row
    \* of which was deleted; what is on the air from us
    heardCount, listEdits, known, met, wiped, aired

vars == << configured, hashMap, nameMap, rows, task, sending,
           heardCount, listEdits, known, met, wiped, aired >>

IndexOf(list, c) == CHOOSE i \in DOMAIN list : list[i] = c
Listed(list) == {list[i] : i \in DOMAIN list}

(* The header's channel hash is one byte: two names can share it.          *)
HashOf(c) == IF c = Twin THEN Primary ELSE c

Savers == 1 .. MaxTasks
Ours == "us"
Idle == [at |-> "idle"]

-----------------------------------------------------------------------------
(* The channel maps.                                                       *)

(* rebuild(): the primary first, then every configured channel; the later  *)
(* index wins a shared hash.                                               *)
Rebuild(list) ==
    [h \in {Primary} \cup {HashOf(c) : c \in Listed(list)} |->
        LET same == {i \in DOMAIN list : HashOf(list[i]) = h}
        IN  IF same = {} THEN 0 ELSE CHOOSE i \in same : \A j \in same : j <= i]

Names(list) ==
    [c \in {Primary} \cup Listed(list) |->
        IF c = Primary THEN 0 ELSE IndexOf(list, c)]

LookupOrPrimary(h) == IF h \in DOMAIN hashMap THEN << "channel", hashMap[h] >>
                      ELSE << "channel", 0 >>

(* A hash that is not in the map has a conversation of its own, named      *)
(* after the key that opened the packet.                                   *)
Lookup(h) == IF h \in DOMAIN hashMap THEN << "channel", hashMap[h] >>
             ELSE << "keyed", h >>

(* What a stick decoded is filed by the name the stick gives.              *)
ByName(c) == IF c \in DOMAIN nameMap THEN << "channel", nameMap[c] >>
             ELSE << "named", c >>

(* A message is a sender, a packet id and a destination.                   *)
Conversation(msg, stick) ==
    IF msg.to \in {Ours} \cup Peers
    THEN << "direct", IF msg.from = Ours THEN msg.to ELSE msg.from >>
    ELSE IF stick THEN ByName(msg.to) ELSE Lookup(HashOf(msg.to))

(* Text that can be heard: direct messages to us and our own ones repeated *)
(* by others, and channel messages, which the radio reads only with a key  *)
(* and a stick on any channel of its own.  Copies differ in nothing.       *)
Direct == [from : Peers, id : PeerIds, to : {Ours}]
          \cup aired
OnRadio == [from : Peers, id : PeerIds,
            to : {Primary, Foreign} \cup Listed(configured)]
OnStick == [from : Peers, id : PeerIds, to : {Primary} \cup Extra]
Audible(stick) ==
    {msg \in IF stick THEN OnStick ELSE Direct \cup OnRadio :
        \A k \in known : (k.from = msg.from /\ k.id = msg.id) => k = msg}

-----------------------------------------------------------------------------
Init ==
    /\ configured = FirstList
    /\ hashMap = Rebuild(configured) /\ nameMap = Names(configured)
    /\ rows = {} /\ task = [t \in Savers |-> Idle] /\ sending = Idle
    /\ heardCount = 0 /\ listEdits = 0 /\ known = {}
    /\ met = {} /\ wiped = {} /\ aired = {}

(* The messages that are being saved right now.                            *)
Saving == {task[t].msg : t \in {u \in Savers : task[u].at # "idle"}}
          \cup (IF sending.at = "save" THEN {sending.msg} ELSE {})

(* on_text_packet files the packet and leaves the saving to a new task.    *)
Receive(t, msg, stick) ==
    /\ task[t].at = "idle" /\ \A u \in 1 .. t - 1 : task[u].at # "idle"
    /\ heardCount < MaxHeard
    /\ heardCount' = heardCount + 1 /\ known' = known \cup {msg}
    /\ task' = [task EXCEPT ![t] =
                   [at |-> "select", msg |-> msg, stick |-> stick,
                    conv |-> Conversation(msg, stick),
                    found |-> {}, when |-> listEdits]]
    /\ met' = IF msg \in Saving THEN met \cup {msg} ELSE met
    /\ UNCHANGED << configured, hashMap, nameMap, rows, sending, listEdits,
                    wiped, aired >>

(* save_received: is there a row with this packet id, whoever sent it?     *)
Select(t) ==
    /\ task[t].at = "select"
    /\ LET same == {r \in rows : r.msg.id = task[t].msg.id}
       IN  IF same = {}
           THEN task' = [task EXCEPT ![t].at = "insert"]
           ELSE \E r \in same : task' = [task EXCEPT ![t].at = "bump",
                                                     ![t].found = {r}]
    /\ UNCHANGED << configured, hashMap, nameMap, rows, sending, heardCount,
                    listEdits, known, met, wiped, aired >>

(* A new row; copies of one message differ by their place in the table.    *)
NewRow(msg, conv, stick, when) ==
    [n |-> Cardinality({r \in rows : r.msg = msg}), msg |-> msg,
     conv |-> conv, stick |-> stick, when |-> when, count |-> 1]

Insert(t) ==
    /\ task[t].at = "insert"
    /\ rows' = rows \cup {NewRow(task[t].msg, task[t].conv, task[t].stick,
                                 task[t].when)}
    /\ task' = [task EXCEPT ![t] = Idle]
    /\ UNCHANGED << configured, hashMap, nameMap, sending, heardCount,
                    listEdits, known, met, wiped, aired >>

(* The count read by the SELECT, plus one, is written to the row if it is  *)
(* still there.                                                            *)
Bump(t) ==
    /\ task[t].at = "bump"
    /\ LET old == CHOOSE r \in task[t].found : TRUE
           now == {r \in rows : r.n = old.n /\ r.msg = old.msg}
       IN  rows' = (rows \ now) \cup
                   {[r EXCEPT !.count = old.count + 1] : r \in now}
    /\ task' = [task EXCEPT ![t] = Idle]
    /\ UNCHANGED << configured, hashMap, nameMap, sending, heardCount,
                    listEdits, known, met, wiped, aired >>

-----------------------------------------------------------------------------
(* The operator.                                                           *)

(* send_message: the radio, then the name lookup, then save_sent.          *)
SendText(peer) ==
    /\ sending.at = "idle" /\ aired = {}
    /\ \E id \in OurIds : sending' =
          [at |-> "radio", msg |-> [from |-> Ours, id |-> id, to |-> peer]]
    /\ UNCHANGED << configured, hashMap, nameMap, rows, task, heardCount,
                    listEdits, known, met, wiped, aired >>

(* The packet leaves while send_text still polls the radio's status.       *)
OnAir ==
    /\ sending.at = "radio"
    /\ aired' = {sending.msg} /\ known' = known \cup {sending.msg}
    /\ sending' = [sending EXCEPT !.at = "save"]
    /\ UNCHANGED << configured, hashMap, nameMap, rows, task, heardCount,
                    listEdits, met, wiped >>

(* A refused message is not recorded.                                      *)
SendFails ==
    /\ sending.at = "radio"
    /\ sending' = Idle
    /\ UNCHANGED << configured, hashMap, nameMap, rows, task, heardCount,
                    listEdits, known, met, wiped, aired >>

SaveSent ==
    /\ sending.at = "save"
    /\ sending' = Idle
    /\ rows' = rows \cup {NewRow(sending.msg, << "direct", sending.msg.to >>,
                                 FALSE, listEdits)}
    /\ UNCHANGED << configured, hashMap, nameMap, task, heardCount, listEdits,
                    known, met, wiped, aired >>

DeleteConversation(conv) ==
    /\ \E r \in rows : r.conv = conv
    /\ wiped' = wiped \cup {r.msg : r \in {q \in rows : q.conv = conv}}
    /\ rows' = {r \in rows : r.conv # conv}
    /\ UNCHANGED << configured, hashMap, nameMap, task, sending, heardCount,
                    listEdits, known, met, aired >>

(* PUT channels: the resolver is rebuilt, the name map is not.             *)
SaveChannels(list) ==
    /\ listEdits < MaxChannelEdits /\ list # configured
    /\ configured' = list /\ hashMap' = Rebuild(list)
    /\ listEdits' = listEdits + 1
    /\ UNCHANGED << nameMap, rows, task, sending, heardCount, known, met,
                    wiped, aired >>

Next ==
    \/ \E t \in Savers :
          \/ \E stick \in BOOLEAN : \E msg \in Audible(stick) :
                Receive(t, msg, stick)
          \/ Select(t) \/ Insert(t) \/ Bump(t)
    \/ \E peer \in Peers : SendText(peer)
    \/ OnAir \/ SendFails \/ SaveSent
    \/ \E r \in rows : DeleteConversation(r.conv)
    \/ \E list \in Lists : SaveChannels(list)

Spec == Init /\ [][Next]_vars

-----------------------------------------------------------------------------
(* Types of the table, the tasks and the maps.                             *)
TypeOK ==
    /\ configured \in Lists
    /\ DOMAIN hashMap \subseteq {Primary} \cup Extra
    /\ DOMAIN nameMap \subseteq {Primary} \cup Extra
    /\ \A t \in Savers : task[t].at \in {"idle", "select", "insert", "bump"}
    /\ sending.at \in {"idle", "radio", "save"}
    /\ {r.msg : r \in rows} \cup Saving \cup met \cup wiped \subseteq known
    /\ \A r \in rows : r.count \in 1 .. MaxHeard + 1

(* The chat shows a message once however many copies are heard             *)
(* (save_received deduplicates by packet id), unless two of its savers     *)
(* met: both find no row and both insert.  That includes our own message   *)
(* repeated by a neighbour before send_message has saved it.               *)
ShownOnce ==
    \A r, s \in rows : (r.msg = s.msg /\ r.msg \notin met \cup wiped) => r = s

(* A message that was heard or sent is shown once its task is done, unless *)
(* the operator deleted it.  A row with the same packet id, from whoever,  *)
(* counts as its copy, which is what the code takes it for.                *)
HeardIsShown ==
    \A msg \in known \ Saving :
        \E shown \in wiped \cup {r.msg : r \in rows} : shown.id = msg.id

(* A channel message is shown under the channel it was sent on, or under a *)
(* conversation of its own, never under another channel.  Named: rows from *)
(* before the channel list was last saved, whose index may now be another  *)
(* channel's; a stick's messages after any save, since name_to_channel_    *)
(* index is not rebuilt; two configured channels with one hash.            *)
FiledRight ==
    \A r \in rows :
        (/\ r.conv[1] = "channel"
         /\ r.when = listEdits /\ (r.stick => listEdits = 0)
         /\ ~(Twin \in Listed(configured) /\ HashOf(r.msg.to) = Primary))
            => IF r.conv[2] = 0 THEN r.msg.to = Primary
               ELSE r.msg.to = configured[r.conv[2]]

(* The chat shows no message of ours that did not leave.                   *)
SentIsAired == \A r \in rows : r.msg.from = Ours => r.msg \in aired
=============================================================================
