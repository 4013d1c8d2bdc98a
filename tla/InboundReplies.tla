--------------------------- MODULE InboundReplies ---------------------------
(***************************************************************************)
(* Automatic replies to Meshtastic requests under a channel key            *)
(* (meshtastic_inbound_handler.py, reply_hop_policy.py and the reply       *)
(* senders of tx_service.py): acknowledgements, traceroutes, telemetry.    *)
(* Every copy of a request that is heard is answered by a task of its own, *)
(* and the channel list and the hop limit may be edited in between.        *)
(*                                                                         *)
(* A channel is known by its name and has a key of its own; a hash is the  *)
(* pair of the name and the key it was computed from, except that all the  *)
(* channels in Clashing have the same one.                                 *)
(***************************************************************************)
EXTENDS Integers, Sequences, SequencesExt, FiniteSetsExt

CONSTANTS
    Primary, Names,   \* the primary channel and the others
    Clashing,         \* channels with equal hashes
    HopMax,           \* the greatest hop limit of a header
    MaxCopies,        \* bound on copies of requests
    MaxEdits          \* bound on edits of the channel list and the hop limit

VARIABLES
    default,          \* there is a default key
    list,             \* the other channels, in their order
    configured,       \* transmit.hop_limit
    tasks,            \* copies of requests whose reply is due
    reply,            \* the last reply: how it was sent, and what it answers
    copies, edits

vars == << default, list, configured, tasks, reply, copies, edits >>

None == "none"
NoReply == [limit |-> 0, key |-> None, taken |-> 0, channel |-> None, known |-> FALSE]
Lists == UNION {{ l \in [1 .. n -> Names] : IsInjective(l) } : n \in 0 .. Cardinality(Names)}

TypeOK ==
    /\ default \in BOOLEAN /\ list \in Lists /\ configured \in 0 .. HopMax
    /\ \A t \in tasks : t.limit <= t.start /\ t.start <= HopMax
    /\ reply.limit \in 0 .. HopMax /\ reply.key \in Names \cup {Primary, None}
    /\ copies \in 0 .. MaxCopies /\ edits \in 0 .. MaxEdits

Init ==
    /\ default \in BOOLEAN /\ list \in Lists /\ configured \in 0 .. HopMax
    /\ tasks = {} /\ reply = NoReply
    /\ copies = 0 /\ edits = 0

-----------------------------------------------------------------------------
Hash(name, key) == IF name = key /\ name \in Clashing THEN << "clash" >> ELSE << name, key >>

(* get_all_keys.                                                           *)
AllKeys == (IF default THEN << Primary >> ELSE << >>) \o list

(* A copy that took some of its hops is heard, and is decrypted with one   *)
(* of the keys.  The decoder drops a header whose limit is above its start.*)
Hear(channel, start, taken) ==
    /\ copies < MaxCopies /\ copies' = copies + 1
    /\ taken <= start /\ channel \in ToSet(AllKeys)
    /\ tasks' = tasks \cup {[id |-> copies, channel |-> channel, start |-> start, limit |-> start - taken]}
    /\ UNCHANGED << default, list, configured, reply, edits >>

EditList(l) ==
    /\ edits < MaxEdits /\ edits' = edits + 1
    /\ l # list /\ list' = l
    /\ UNCHANGED << default, configured, tasks, reply, copies >>

EditHopLimit(h) ==
    /\ edits < MaxEdits /\ edits' = edits + 1
    /\ h # configured /\ configured' = h
    /\ UNCHANGED << default, list, tasks, reply, copies >>

-----------------------------------------------------------------------------
(* _resolve_channel_by_hash: the primary, the channels against the key at  *)
(* their index, or else the first key.                                     *)
KeyFor(hash) ==
    LET fits == {i \in DOMAIN list : i < Len(AllKeys) /\ Hash(list[i], AllKeys[i + 1]) = hash}
    IN  IF AllKeys = << >> THEN None
        ELSE IF Hash(Primary, AllKeys[1]) = hash \/ fits = {} THEN AllKeys[1]
        ELSE AllKeys[Min(fits) + 1]

HopLimitTwoMore(limit, start) == start - limit + 2
(* hop_limit_for_response; limit <= start.                                 *)
HopLimitForResponse(limit, start) ==
    LET used == start - limit
    IN  CASE used > configured -> used
          [] used <= configured /\ start = 0 -> 0
          [] used + 2 < configured /\ start # 0 -> used + 2
          [] OTHER -> configured

Distinct(channel) == {n \in ToSet(AllKeys) : Hash(n, n) = Hash(channel, channel)} = {channel}

Reply(t) ==
    /\ tasks' = tasks \ {t}
    /\ reply' = [limit |-> HopLimitForResponse(t.limit, t.start), key |-> KeyFor(Hash(t.channel, t.channel)),
                 taken |-> t.start - t.limit, channel |-> t.channel, known |-> default /\ Distinct(t.channel)]
    /\ UNCHANGED << default, list, configured, copies, edits >>

(* No transmitter, no airtime left, or the packet could not be built.      *)
Unanswered(t) ==
    /\ tasks' = tasks \ {t}
    /\ UNCHANGED << default, list, configured, reply, copies, edits >>

Next ==
    \/ \E channel \in Names \cup {Primary}, start, taken \in 0 .. HopMax : Hear(channel, start, taken)
    \/ \E l \in Lists : EditList(l)
    \/ \E h \in 0 .. HopMax : EditHopLimit(h)
    \/ \E t \in tasks : Reply(t) \/ Unanswered(t)

Spec == Init /\ [][Next]_vars

-----------------------------------------------------------------------------
(* A reply may take as many hops back as the copy it answers took, for     *)
(* every limit that is configured meanwhile, and at most two more: it is   *)
(* neither lost half-way nor flooded further than it has to go.            *)
ReplyReaches ==
    reply.key # None => reply.limit \in reply.taken .. reply.taken + 2

(* A reply is encrypted with the key of the request it answers, even when  *)
(* channels were added, removed or reordered since the request was heard.  *)
(* Left out are channels whose hash another one shares or that were        *)
(* removed meanwhile, and a service without a default key, whose channels  *)
(* are compared with the key of the next one.                              *)
ReplyReadable ==
    (reply.key # None /\ reply.known) => reply.key = reply.channel
=============================================================================
