----------------------------- MODULE WireFormat -----------------------------
(***************************************************************************)
(* A Meshtastic frame from the builder over relays to the decoders: what   *)
(* MeshtasticPacketBuilder puts in it, what a relay changes, what the      *)
(* concentrator or a USB stick hands to PacketRouter, what the decoder     *)
(* makes of it and what reaches the nodes and telemetry tables; and the    *)
(* events of a MeshCore companion.  A ciphertext is its key, its nonce and *)
(* its content; under another key or nonce it is noise, which may happen   *)
(* to parse.  Field values are numbers, 0 being protobuf's default.        *)
(***************************************************************************)
EXTENDS Integers, Sequences, FiniteSetsExt

CONSTANTS
    Keys,           \* channel keys in use on the mesh
    Ours,           \* CryptoService.get_all_keys(), the default key first
    StickKeys,      \* the channel table of the stick, by its own index from 0
    HashOf,         \* channel hash of each key
    Ports,          \* portnums of the run
    HopLimits,      \* hop limits of the sending nodes, within the field's 0 .. 7
    Relays,         \* other nodes that relay
    MaxFrames,      \* bound on frames that are originated
    MaxPassed,      \* bound on relays of a frame
    MaxPackets      \* bound on captures

VARIABLES
    air,            \* the frames on the air
    frames,         \* frames originated so far
    packet,         \* the last Packet, with the frame it was decoded from
    row,            \* the peer's row of the nodes table
    battery,        \* the last battery level stored for the peer
    stray,          \* frames in the StrayFrameLog
    packets,        \* captures so far
    known           \* history: what the peer has told, and whether of an empty position

vars == << air, frames, packet, row, battery, stray, packets, known >>

None == -1
OrNone(x) == IF x = 0 THEN None ELSE x
Pki == "pki"
NoPacket == [is |-> "none"]
StrayCap == 2       \* 500 in the code

-----------------------------------------------------------------------------
(* Contents: a portnum, its fields and the id of the request it answers.   *)

Text == [port |-> "text", fields |-> [text |-> 1], request |-> 0]
Ack(id) == [port |-> "routing", fields |-> << >>, request |-> id]
NodeInfo(name) == [port |-> "nodeinfo", fields |-> [name |-> name], request |-> 0]
Position(lat, alt) == [port |-> "position", fields |-> [lat |-> lat, alt |-> alt], request |-> 0]
Telemetry(variant, level, id) ==
    [port |-> "telemetry", fields |-> [variant |-> variant, level |-> level], request |-> id]
Traceroute(route, snr, id) == [port |-> "traceroute", fields |-> [route |-> route, snr |-> snr], request |-> id]
Waypoint == [port |-> "waypoint", fields |-> [icon |-> 1], request |-> 0]

Numbers == {"text", "name", "lat", "alt", "level", "icon"}

Broadcasts == {NodeInfo(0), NodeInfo(1), Position(0, 0), Position(3, 0), Position(3, 4),
               Telemetry("device", 0, 0), Telemetry("device", 7, 0), Waypoint}
Unicasts == {Text, Ack(1), Telemetry("local", 7, 1), Traceroute(<< >>, << >>, 0)}

Some(set) == {c \in set : c.port \in Ports}

-----------------------------------------------------------------------------
(* The builder.                                                            *)

\* _serialize_data: the request id is written when there is one.
SerializeData(c) == [c EXCEPT !.request = IF @ # 0 THEN @ ELSE 0]

\* _build_meshtastic_nonce
Nonce(id, from) == << id, from >>

Encrypt(key, id, from, c) == [key |-> key, nonce |-> Nonce(id, from), content |-> SerializeData(c)]

\* _build_header: three bits each for the hop limit and the hop start.
BuildHeader(to, from, id, hops, hash) ==
    [to |-> to, from |-> from, id |-> id, limit |-> hops % 8, start |-> hops % 8, hash |-> hash, relay |-> "none"]

Framed(header, body) ==
    [to |-> header.to, from |-> header.from, id |-> header.id, limit |-> header.limit,
     start |-> header.start, hash |-> header.hash, relay |-> header.relay, body |-> body, passed |-> << >>]

\* build_text_message, build_routing_ack, build_telemetry_reply, build_traceroute_reply: with the
\* recipient's public key the hash is 0 and the channel key is not used.
BuildUnicast(c, to, from, id, hops, key) ==
    Framed(BuildHeader(to, from, id, hops, IF key = Pki THEN 0 ELSE HashOf[key]), Encrypt(key, id, from, c))

\* build_nodeinfo, build_telemetry, build_position: to everyone, under a channel key.
BuildBroadcast(c, from, id, hops, key) ==
    Framed(BuildHeader("all", from, id, hops, HashOf[key]), Encrypt(key, id, from, c))

-----------------------------------------------------------------------------
(* The portnum handlers.                                                   *)

PacketType(port) == IF port \in {"text", "routing", "nodeinfo", "position", "telemetry", "traceroute", "waypoint"}
                      THEN port ELSE "unknown"

\* _decode_telemetry: "or None" on every reading.
DecodeTelemetry(f) == [variant |-> f.variant, level |-> OrNone(f.level)]

\* _decode_position: the coordinates are taken as they are.
DecodePosition(f) == [lat |-> f.lat, alt |-> OrNone(f.alt)]

DecodeNodeinfo(f) == [name |-> OrNone(f.name)]

\* dispatch_portnum
DispatchPortnum(port, f) ==
    CASE port = "telemetry" -> DecodeTelemetry(f)
      [] port = "position" -> DecodePosition(f)
      [] port = "nodeinfo" -> DecodeNodeinfo(f)
      [] OTHER -> f

-----------------------------------------------------------------------------
(* The decoder.                                                            *)

\* is_pki_packet; only an acknowledgement is as short as PKC_OVERHEAD.
IsPkiPacket(f) == f.hash = 0 /\ f.to = "us" /\ f.body.content.port # "routing"

Decrypts(f, key) == f.body.key = key /\ f.body.nonce = Nonce(f.id, f.from)

\* The keys in their order; under a wrong one noise, that parses for the keys in luck.
Matches(f, luck) == {i \in DOMAIN Ours : Decrypts(f, Ours[i]) \/ Ours[i] \in luck}

Header(f) == [from |-> f.from, to |-> f.to, id |-> f.id, limit |-> f.limit, start |-> f.start,
              hash |-> f.hash, relay |-> f.relay]

Read(f, how, c, index) ==
    [is |-> "packet", of |-> f, protocol |-> "meshtastic", how |-> how, header |-> Header(f),
     type |-> PacketType(c.port), fields |-> DispatchPortnum(c.port, c.fields), request |-> c.request,
     index |-> index]

Closed(f) ==
    [is |-> "packet", of |-> f, protocol |-> "meshtastic", how |-> "closed", header |-> Header(f),
     type |-> IF f.body.key # "empty" THEN "encrypted" ELSE "unknown", fields |-> << >>, request |-> 0,
     index |-> None]

\* _parse_header: more hops left than at the start cannot be.
Plausible(f) == f.limit <= f.start

\* decode() without pre_decoded: as a PKI message, then with the channel keys.
DecodeFrame(f, luck) ==
    LET hits == Matches(f, luck)
        first == Min(hits)
    IN CASE ~ Plausible(f) -> NoPacket
         [] Plausible(f) /\ IsPkiPacket(f) /\ f.body.key = Pki -> Read(f, "pki", f.body.content, None)
         [] Plausible(f) /\ ~ (IsPkiPacket(f) /\ f.body.key = Pki) /\ hits = {} -> Closed(f)
         [] OTHER -> IF Decrypts(f, Ours[first])
                       THEN Read(f, "key", f.body.content, first - 1)
                       ELSE Read(f, "noise", [port |-> "none", fields |-> << >>, request |-> 0], first - 1)

\* MeshcoreDecoder.decode: an eight byte header is always found; the body is noise under the
\* default key, whose first byte may be the number of a message type.
DecodeMeshcore(f, luck) ==
    [is |-> "packet", of |-> f, protocol |-> "meshcore", how |-> IF "core" \in luck THEN "noise" ELSE "closed",
     header |-> Header(f), type |-> "unknown", fields |-> << >>, request |-> 0, index |-> None]

\* PacketRouter.decode without a hint: Meshtastic, then MeshCore, then whichever gave a packet.
Route(meshtastic, core) ==
    IF meshtastic # NoPacket /\ meshtastic.how # "closed" THEN meshtastic
    ELSE IF core.how # "closed" THEN core
    ELSE IF meshtastic # NoPacket THEN meshtastic ELSE core

-----------------------------------------------------------------------------
(* The stick.                                                              *)

\* The library leaves out of its dict what is 0.
Get(x, default) == IF x = 0 THEN default ELSE x

\* The stick's own index of the key that opens a frame.
StickIndexes(f) == {i \in DOMAIN StickKeys : Decrypts(f, StickKeys[i])}

\* _reconstruct_raw: the body is empty when the stick has decrypted it.
ReconstructRaw(f, open) ==
    [f EXCEPT !.limit = Get(@, 3), !.start = Get(@, 3), !.relay = "none",
              !.hash = IF open THEN Min(StickIndexes(f)) - 1 ELSE @,
              !.body = IF open THEN [@ EXCEPT !.key = "empty"] ELSE @]

\* decode() with pre_decoded.
DecodePre(f, c) == IF Plausible(f) THEN Read(f, "stick", c, None) ELSE NoPacket

\* _packet_to_raw_capture drops what the stick itself originates, but for texts.
Dropped(f) == f.from = "stick" /\ f.body.content.port # "text"

FromStick(f, luck) ==
    LET open == StickIndexes(f) # {}
        raw == ReconstructRaw(f, open)
        p == Route(IF open THEN DecodePre(raw, f.body.content) ELSE DecodeFrame(raw, luck), DecodeMeshcore(raw, luck))
    IN IF p = NoPacket THEN p ELSE [p EXCEPT !.of = f]

-----------------------------------------------------------------------------
(* What is stored.                                                         *)

HopCount(p) == IF p.header.start > 0 THEN p.header.start - p.header.limit ELSE 0

\* extract_node_update and NodeRepository.upsert: COALESCE(excluded, nodes).
Coalesce(new, old) == IF new = None THEN old ELSE new

ExtractNodeUpdate(p) ==
    [name |-> IF p.type = "nodeinfo" THEN p.fields.name ELSE None,
     lat |-> IF p.type = "position" THEN p.fields.lat ELSE None,
     alt |-> IF p.type = "position" THEN p.fields.alt ELSE None]

UpdateNode(p) ==
    LET n == ExtractNodeUpdate(p)
    IN row' = IF p.header.from = "peer" /\ p.protocol = "meshtastic"
                THEN [f \in DOMAIN row |-> Coalesce(n[f], row[f])] ELSE row

\* extract_telemetry: the local statistics have other names and are not taken.
StoreTelemetry(p) ==
    battery' = IF p.header.from = "peer" /\ p.protocol = "meshtastic" /\ p.type = "telemetry"
                 THEN IF p.fields.variant = "device" THEN p.fields.level ELSE None
                 ELSE battery

\* _process_capture: no packet goes to the ring of stray frames.
Process(p) ==
    /\ packets < MaxPackets /\ packets' = packets + 1
    /\ packet' = p
    /\ IF p = NoPacket
         THEN /\ stray' = Min({stray + 1, StrayCap})
              /\ UNCHANGED << row, battery >>
         ELSE /\ UpdateNode(p) /\ StoreTelemetry(p)
              /\ UNCHANGED stray

-----------------------------------------------------------------------------
(* The events of a MeshCore companion (meshcore_event_adapter.py).  An     *)
(* empty string stands for what an event does not carry.                   *)

\* _first_payload_value and _find_payload_name: the event's own field, then the nested ones.
FindPayloadName(e) == IF e.name # "" THEN e.name ELSE e.nested

\* _find_payload_type: a value outside 0 .. 15 is passed over.
FindPayloadType(e) == IF e.type \in 0 .. 15 THEN e.type ELSE IF e.inner \in 0 .. 15 THEN e.inner ELSE None

\* _looks_like_identifier: the node's own id, or eight and more hexadecimal digits.
LooksLikeIdentifier(name) == name \in {"own id", "eight digits"}

\* _hop_start_from_payload, and hop_count with a hop limit of 0.
HopStart(path) == IF path \in {None, 255} THEN 0 ELSE path

\* _build_contact_message
ContactMessage(e) ==
    [source |-> IF e.key # "" THEN e.key ELSE "unknown", text |-> e.text,
     name |-> e.sender, hops |-> HopStart(e.path), lat |-> None]

\* _build_channel_message: the sender's name may only be in front of the text.
ChannelMessage(e) ==
    LET sender == IF e.sender # "" THEN e.sender ELSE e.prefix
    IN [source |-> IF e.key # "" THEN << "key", e.key >> ELSE IF sender # "" THEN << "mc", sender >> ELSE << "mc", "channel" >>,
        text |-> IF e.sender = "" \/ e.prefix = "" THEN e.text ELSE << e.prefix, e.text >>,
        name |-> sender, hops |-> HopStart(e.path), lat |-> None]

\* _build_advertisement: a coordinate of 0 counts as none.
Advertisement(e) ==
    [source |-> IF e.key # "" THEN e.key ELSE "unknown", type |-> FindPayloadType(e),
     name |-> IF LooksLikeIdentifier(FindPayloadName(e)) THEN "" ELSE FindPayloadName(e),
     lat |-> IF e.lat # 0 THEN e.lat ELSE None]

\* MeshcoreDecoder.extract_node_update: name, role and, when the packet has one, the position.
CompanionRow(old, p) ==
    [name |-> IF p.name = "" THEN old.name ELSE p.name, lat |-> Coalesce(p.lat, old.lat)]

-----------------------------------------------------------------------------

Init ==
    /\ air = {} /\ frames = 0 /\ packet = NoPacket
    /\ row = [name |-> None, lat |-> None, alt |-> None]
    /\ battery = None /\ stray = 0 /\ packets = 0
    /\ known = [name |-> None, lat |-> None, nowhere |-> FALSE]

Originate(f) ==
    /\ frames < MaxFrames /\ frames' = frames + 1
    /\ air' = air \cup {f}
    /\ UNCHANGED << packet, row, battery, stray, packets, known >>

\* TxService sends through the builder; the peer's firmware builds the same, an old one without a
\* hop start; what the stick originates is seen by the stick only.
Send ==
    \E from \in {"us", "peer", "stick"}, hops \in HopLimits, key \in Keys, c \in Some(Broadcasts) :
        Originate(BuildBroadcast(c, from, frames + 1, hops, key))

SendDirect ==
    \E ends \in {<< "us", "peer" >>, << "peer", "us" >>, << "stick", "peer" >>}, hops \in HopLimits,
       key \in Keys \cup {Pki}, c \in Some(Unicasts) :
        Originate(BuildUnicast(c, ends[2], ends[1], frames + 1, hops, key))

OldFirmwareSends ==
    \E key \in Keys : Originate([BuildBroadcast(NodeInfo(1), "peer", frames + 1, 3, key) EXCEPT !.start = 0])

\* send_raw_relay: the frame as it was heard, with one hop less.
SendRawRelay(f) ==
    /\ f.limit > 0 /\ Len(f.passed) < MaxPassed /\ f.from # "stick"
    /\ air' = air \cup {[f EXCEPT !.limit = @ - 1, !.passed = Append(@, "us")]}
    /\ UNCHANGED << frames, packet, row, battery, stray, packets, known >>

\* Another node relays; it adds itself to the route of a traceroute.
OtherRelays(f, r) ==
    /\ f.limit > 0 /\ Len(f.passed) < MaxPassed /\ f.from # "stick"
    /\ \A i \in DOMAIN f.passed : f.passed[i] # r
    /\ LET noted == IF f.body.content.port = "traceroute" /\ f.body.content.request = 0
                      THEN [f EXCEPT !.body.content.fields.route = Append(@, r),
                                     !.body.content.fields.snr = Append(@, 5)]
                      ELSE f
       IN air' = air \cup {[noted EXCEPT !.limit = @ - 1, !.relay = r, !.passed = Append(@, r)]}
    /\ UNCHANGED << frames, packet, row, battery, stray, packets, known >>

\* What the peer has told in a packet that was read.
Told(p) ==
    IF p = NoPacket \/ p.header.from # "peer" \/ p.how \in {"closed", "noise"} THEN known
    ELSE LET c == p.of.body.content
         IN [name |-> IF c.port = "nodeinfo" /\ c.fields.name # 0 THEN c.fields.name ELSE known.name,
             lat |-> IF c.port = "position" /\ c.fields.lat # 0 THEN c.fields.lat ELSE known.lat,
             nowhere |-> known.nowhere \/ (c.port = "position" /\ c.fields.lat = 0)]

\* The concentrator hears it, with the hint Protocol.MESHTASTIC.
Hear(f, luck) ==
    /\ f.from # "stick"
    /\ LET p == DecodeFrame(f, luck) IN Process(p) /\ known' = Told(p)
    /\ UNCHANGED << air, frames >>

\* The stick hears it, without a hint.
StickHears(f, luck) ==
    /\ ~ Dropped(f)
    /\ LET p == FromStick(f, luck) IN Process(p) /\ known' = Told(p)
    /\ UNCHANGED << air, frames >>

\* reply_to_traceroute and _build_traceroute_reply_data: the route as it came, and one more SNR.
ReplyTraceroute ==
    /\ packet # NoPacket /\ packet.type = "traceroute" /\ packet.request = 0 /\ packet.header.to = "us"
    /\ \E key \in Keys : Originate(BuildUnicast(
           Traceroute(packet.fields.route, Append(packet.fields.snr, 6), packet.header.id),
           packet.header.from, "us", frames + 1, 3, key))

\* Noise that parses: under no key, under one, or as the first byte of a MeshCore message.
Luck == {{}, {"core"}} \cup {{Ours[i]} : i \in DOMAIN Ours}

Next ==
    \/ Send \/ SendDirect \/ OldFirmwareSends \/ ReplyTraceroute
    \/ \E f \in air : \/ SendRawRelay(f)
                      \/ \E r \in Relays : OtherRelays(f, r)
                      \/ \E luck \in Luck : Hear(f, luck) \/ StickHears(f, luck)

Spec == Init /\ [][Next]_vars

-----------------------------------------------------------------------------

TypeOK ==
    /\ frames \in 0 .. MaxFrames /\ packets \in 0 .. MaxPackets /\ stray \in 0 .. StrayCap
    /\ \A f \in air : f.limit \in 0 .. 7 /\ f.start \in 0 .. 7 /\ Len(f.passed) <= MaxPassed
    /\ packet # NoPacket => packet.how \in {"pki", "key", "stick", "noise", "closed"}
    /\ row \in [{"name", "lat", "alt"} -> Nat \cup {None}]

\* A packet that was read says what was sent, over whatever relays and radio it came: its type, its
\* ends, its id, the request it answers and every field that was set.
ReadAsSent ==
    packet # NoPacket /\ packet.how \notin {"noise", "closed"} =>
        LET c == packet.of.body.content
        IN /\ packet.type = c.port /\ packet.request = c.request
           /\ packet.header.from = packet.of.from /\ packet.header.to = packet.of.to
           /\ packet.header.id = packet.of.id
           /\ \A f \in DOMAIN c.fields : (f \in Numbers => c.fields[f] # 0) => packet.fields[f] = c.fields[f]

\* A frame under one of our keys is read.  The exceptions are noise that parses under a key tried
\* before, a hop count that the stick's dict or an old firmware makes impossible, and what only
\* the other one of the two radios can open.
KeyKnownIsRead ==
    packet # NoPacket /\ packet.how = "closed" /\ packet.protocol = "meshtastic" =>
        ~ \E i \in DOMAIN Ours : Ours[i] = packet.of.body.key

\* The hop count of a packet is the number of relays it passed.  A hop limit of 0 is missing from
\* the stick's dict and read as 3, and an old firmware gives no start to count from.
HopsCounted ==
    packet # NoPacket /\ packet.protocol = "meshtastic" /\ packet.header.limit = packet.of.limit
        /\ packet.header.start = packet.of.start =>
        HopCount(packet) = Len(packet.of.passed)

\* The row of a node keeps the last name and position the node told, whatever was heard since; a
\* position without coordinates, which is read as 0/0, is the exception.
RowKept == row.name = known.name /\ (row.lat = known.lat \/ known.nowhere)

\* The answer to a traceroute lists the nodes that passed the request on, in their order and with
\* one signal value more, whichever of them this service's own relay came between.
RouteTrue ==
    \A f \in air : f.from = "us" /\ f.body.content.port = "traceroute" /\ f.body.content.request # 0 =>
        LET c == f.body.content
            asked == {g \in air : g.id = c.request /\ g.from = f.to}
        IN \E g \in asked : /\ c.fields.route = SelectSeq(g.passed, LAMBDA r : r # "us")
                            /\ Len(c.fields.snr) = Len(c.fields.route) + 1

\* What the events of a companion say survives the adapter: a message that passed n relays has n
\* hops, a direct one none; messages of two senders on a channel are never filed under one; an
\* identifier is not taken for a name; a known name and position outlive an advertisement without.
EventsAdapted ==
    /\ \A relays \in 0 .. 3, direct \in BOOLEAN :
         LET p == ContactMessage([key |-> "k", sender |-> "ann", text |-> "hi", path |-> IF direct THEN 255 ELSE relays])
         IN p.hops = (IF direct THEN 0 ELSE relays) /\ p.source = "k" /\ p.name = "ann"
    /\ \A a, b \in {"", "ann", "bob"}, c, d \in BOOLEAN :
         LET Message(who, field) ==
                 [key |-> "", sender |-> IF field THEN who ELSE "", prefix |-> IF field THEN "" ELSE who, text |-> "hi", path |-> 1]
             p == ChannelMessage(Message(a, c))
             q == ChannelMessage(Message(b, d))
         IN (p.source = q.source <=> a = b) /\ p.text = "hi" /\ p.name = a
    /\ \A n, m \in {"", "ann", "own id", "eight digits"}, lat \in 0 .. 1, type, inner \in {None, 2, 99} :
         LET p == Advertisement([key |-> "k", name |-> n, nested |-> m, lat |-> lat, type |-> type, inner |-> inner])
             r == CompanionRow([name |-> "old", lat |-> 5], p)
         IN /\ r.name \in {"old", "ann"} /\ (n = "ann" => r.name = "ann")
            /\ r.lat = (IF lat = 1 THEN 1 ELSE 5)
            /\ p.type \in {None, 2} /\ (2 \in {type, inner} => p.type = 2)
=============================================================================
