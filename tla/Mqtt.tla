------------------------------- MODULE Mqtt -------------------------------
(***************************************************************************)
(* The MQTT publisher (mqtt_publisher.py) as the coordinator drives it:    *)
(* the packets it lets out, the location it leaves in them, and the topics *)
(* it keeps retained at the broker for Home Assistant. The paho client     *)
(* calls back on its own thread and resends what was not acknowledged; the *)
(* settings are edited under it by PUT /mqtt, which changes the same       *)
(* object the publisher reads and answers that a restart is required.      *)
(***************************************************************************)
EXTENDS Integers, Sequences, FiniteSets

CONSTANTS
    Nodes,
    Chans,          \* the configured channels, "LongFast" among them
    HashOf,         \* the one-byte hash a packet carries of its channel
    FirstConf,      \* the mqtt sections the service may start with
    Updates,        \* the sections an operator may save
    MaxHeard, MaxUpdates, MaxStarts, MaxDrops

Policies == {"none", "approximate", "exact"}
Rank == [empty |-> 0, none |-> 0, approximate |-> 1, exact |-> 2]

\* Coordinates that parse, coordinates that do not, telemetry with and without a
\* reading that has a sensor (battery stands for temperature too), a text.
Kinds == {"position", "nowhere", "battery", "bare", "text"}
Packets == [node : Nodes, kind : Kinds, dest : {"all", "one"}, chan : Chans, readable : BOOLEAN]
Topics == {"position", "telemetry", "tracker config", "battery config"}

VARIABLES
    conf, disk,     \* config.mqtt in memory, and in local.yaml
    active,         \* the coordinator has a publisher
    allowed,        \* _allowed_channels
    link,           \* the broker has the connection
    connected,      \* _connected
    discovery,      \* _ha_discovery exists
    announced,      \* its _announced_nodes
    outbox,         \* what paho holds unacknowledged, oldest first
    retained,       \* what the broker keeps
    heard, updates, starts, drops,
    sent,           \* history: where the packets let out since the start came from and went
    listed,         \* history: the channels published according to the file at the start
    outdated,       \* history: positions from before the policy, not heard of since
    partial         \* history: nodes announced without a sensor they later reported

vars == << conf, disk, active, allowed, link, connected, discovery, announced, outbox, retained,
           heard, updates, starts, drops, sent, listed, outdated, partial >>
clientVars == << active, allowed, link, connected, discovery, announced >>

Settings == [enabled : BOOLEAN, precision : Policies \cup {"typo"}, channels : SUBSET Chans,
             json : BOOLEAN, ha : BOOLEAN]

TypeOK ==
    /\ {conf, disk} \subseteq Settings
    /\ {active, link, connected, discovery} \subseteq BOOLEAN
    /\ allowed \subseteq Chans
    /\ announced \subseteq Nodes /\ outdated \subseteq Nodes /\ partial \subseteq Nodes
    /\ \A i \in DOMAIN outbox :
          outbox[i] \in [node : Nodes, topic : Topics, value : {"empty", "set", "bare"} \cup Policies]
    /\ \A n \in Nodes : \A t \in Topics :
          retained[n][t] \in {"empty", "set", "bare"} \cup Policies
    /\ sent \subseteq [chan : Chans, dest : {"all", "one"}]

-----------------------------------------------------------------------------
(* MqttPublisher.connect, from _setup_mqtt: a broker that does not answer  *)
(* leaves the service without a publisher until it is started again.       *)
Setup(c, answers) ==
    /\ active' = (c.enabled /\ answers)
    /\ link' = active'
    /\ allowed' = c.channels
    /\ connected' = FALSE
    /\ discovery' = FALSE
    /\ announced' = {}

Init ==
    /\ conf \in FirstConf /\ disk = conf
    /\ active = conf.enabled /\ link = active
    /\ allowed = conf.channels /\ listed = allowed
    /\ connected = FALSE /\ discovery = FALSE /\ announced = {}
    /\ outbox = << >>
    /\ retained = [n \in Nodes |-> [t \in Topics |-> "empty"]]
    /\ heard = 0 /\ updates = 0 /\ starts = 0 /\ drops = 0
    /\ sent = {} /\ outdated = {} /\ partial = {}

\* What a reader of the broker gets of n in the end: the last that is on its way.
Effective(topics, out, n, t) ==
    LET late == { i \in DOMAIN out : out[i].node = n /\ out[i].topic = t }
    IN  IF late = {} THEN topics[n][t]
        ELSE out[CHOOSE i \in late : \A j \in late : j <= i].value

\* prepare_packet: a policy that is not one of the three shows nothing.
Policy(c) == IF c.precision \in Policies THEN c.precision ELSE "none"

OverPolicy(c, out) ==
    { n \in Nodes : Rank[Effective(retained, out, n, "position")] > Rank[Policy(c)] }

-----------------------------------------------------------------------------
(* ChannelResolver.resolve.                                                *)
ResolveName(h) ==
    IF h = 0 THEN "LongFast"
    ELSE LET of == { c \in Chans : HashOf[c] = h }
         IN  IF of = {} THEN "none" ELSE CHOOSE c \in of : TRUE

(* _passes_safety_gates.                                                   *)
PassesSafetyGates(p) ==
    /\ conf.enabled
    /\ p.dest = "all"
    /\ p.readable
    /\ ResolveName(HashOf[p.chan]) \in allowed

\* The location prepare_packet leaves in the copy.
Located(p) == IF p.kind = "position" THEN Policy(conf) ELSE "none"
IsPosition(p) == p.kind \in {"position", "nowhere"}

\* _format_packet: a position without coordinates has no protobuf form.
HasMessage(p) == conf.json \/ ~IsPosition(p) \/ Located(p) # "none"

\* The sensors a payload has a reading for.
SensorsOf(p) ==
    IF p.kind = "battery" THEN {"battery config"}
    ELSE IF Located(p) # "none" THEN {"tracker config"} ELSE {}

Entry(p, t, v) == << [node |-> p.node, topic |-> t, value |-> v] >>

(* HomeAssistantDiscovery.announce_node: once for a node and a connection. *)
Announce(p) ==
    IF p.node \in announced \/ SensorsOf(p) = {} THEN << >>
    ELSE Entry(p, CHOOSE s \in SensorsOf(p) : TRUE, "set")

RememberAll(p) == {p.node}

\* It remembers the nodes it published a sensor for.
Remembered(p) == IF SensorsOf(p) # {} THEN {p.node} ELSE {}

(* publish_state.                                                          *)
State(p) ==
    CASE p.kind = "battery" -> Entry(p, "telemetry", "set")
      [] p.kind = "bare" -> Entry(p, "telemetry", "bare")
      [] Located(p) # "none" -> Entry(p, "position", Located(p))
      [] OTHER -> << >>

(* clear_position: a position that was suppressed takes the old one along. *)
Clear(p) ==
    IF IsPosition(p) /\ Located(p) = "none" THEN Entry(p, "position", "empty") ELSE << >>

HasEntity(n) ==
    \E t \in {"tracker config", "battery config"} : Effective(retained, outbox, n, t) = "set"

(* MqttPublisher.publish. Without the connection paho keeps the messages   *)
(* and answers an error, which only means that the discovery topics are    *)
(* not touched.                                                            *)
Hear(p) ==
    /\ heard < MaxHeard /\ heard' = heard + 1
    /\ IF active /\ connected /\ PassesSafetyGates(p)
         THEN LET published == HasMessage(p) /\ link
                  shown == discovery /\ published
              IN  /\ sent' = IF HasMessage(p) THEN sent \cup {[chan |-> p.chan, dest |-> p.dest]}
                             ELSE sent
                  /\ outbox' = outbox
                        \o (IF shown THEN Announce(p) \o State(p) ELSE << >>)
                        \o (IF discovery THEN Clear(p) ELSE << >>)
                  /\ announced' = IF shown THEN announced \cup Remembered(p) ELSE announced
                  /\ partial' = IF shown /\ p.node \in announced /\ HasEntity(p.node)
                                  THEN partial \cup {p.node} ELSE partial
                  /\ outdated' = IF IsPosition(p) /\ discovery /\ link
                                   THEN outdated \ {p.node} ELSE outdated
         ELSE UNCHANGED << sent, outbox, announced, partial, outdated >>
    /\ UNCHANGED << conf, disk, active, allowed, link, connected, discovery, retained,
                    updates, starts, drops, listed >>

-----------------------------------------------------------------------------
(* _on_connect, on paho's thread; a refusal (rc # 0) ends the connection.  *)
OnConnect ==
    /\ active /\ link /\ ~connected
    /\ connected' = TRUE
    /\ IF conf.ha THEN discovery' = TRUE /\ announced' = {}
       ELSE UNCHANGED << discovery, announced >>
    /\ UNCHANGED << conf, disk, active, allowed, link, outbox, retained, heard, updates, starts,
                    drops, sent, listed, outdated, partial >>

LinkDrops ==
    /\ active /\ link /\ drops < MaxDrops
    /\ link' = FALSE /\ drops' = drops + 1
    /\ UNCHANGED << conf, disk, active, allowed, connected, discovery, announced, outbox, retained,
                    heard, updates, starts, sent, listed, outdated, partial >>

(* _on_disconnect, some time after the connection is gone.                 *)
OnDisconnect ==
    /\ active /\ ~link /\ connected
    /\ connected' = FALSE
    /\ UNCHANGED << conf, disk, active, allowed, link, discovery, announced, outbox, retained,
                    heard, updates, starts, drops, sent, listed, outdated, partial >>

LinkReturns ==
    /\ active /\ ~link /\ ~connected
    /\ link' = TRUE
    /\ UNCHANGED << conf, disk, active, allowed, connected, discovery, announced, outbox, retained,
                    heard, updates, starts, drops, sent, listed, outdated, partial >>

(* The broker keeps the value; without its acknowledgement paho sends the  *)
(* message again, with those after it, over the next connection.           *)
Deliver(acked) ==
    /\ link /\ outbox # << >>
    /\ LET e == Head(outbox) IN retained' = [retained EXCEPT ![e.node][e.topic] = e.value]
    /\ outbox' = IF acked THEN Tail(outbox) ELSE outbox
    /\ UNCHANGED << conf, disk, clientVars, heard, updates, starts, drops, sent, listed, outdated,
                    partial >>

-----------------------------------------------------------------------------
(* PUT /mqtt: memory first; a file that cannot be written is answered 403. *)
UpdateMqtt(u, saved) ==
    /\ updates < MaxUpdates /\ updates' = updates + 1
    /\ conf' = u
    /\ disk' = IF saved THEN u ELSE disk
    /\ outdated' = outdated \cup OverPolicy(u, outbox)
    /\ UNCHANGED << clientVars, outbox, retained, heard, starts, drops, sent, listed, partial >>

(* coordinator.stop and start: disconnect() ends paho's loop before what   *)
(* it still holds is sent.                                                 *)
Restart(answers) ==
    /\ starts < MaxStarts /\ starts' = starts + 1
    /\ conf' = disk
    /\ Setup(disk, answers)
    /\ outbox' = << >>
    /\ sent' = {} /\ listed' = disk.channels
    /\ outdated' = outdated \cup OverPolicy(disk, << >>)
    /\ UNCHANGED << disk, retained, heard, updates, drops, partial >>

Next ==
    \/ \E p \in Packets : Hear(p)
    \/ OnConnect \/ LinkDrops \/ OnDisconnect \/ LinkReturns
    \/ \E acked \in BOOLEAN : Deliver(acked)
    \/ \E u \in Updates, saved \in BOOLEAN : UpdateMqtt(u, saved)
    \/ \E answers \in BOOLEAN : Restart(answers)

Spec == Init /\ [][Next]_vars

-----------------------------------------------------------------------------
(* Only broadcasts leave the house, and only those of a channel that the   *)
(* list named when the service was started. What tells channels apart is   *)
(* one byte: a channel that shares it with another one, or whose hash is   *)
(* the zero that is read as LongFast, goes by the other's entry.           *)
PublicOnly ==
    \A p \in sent :
        /\ p.dest = "all"
        /\ \/ p.chan \in listed
           \/ HashOf[p.chan] = 0
           \/ \E c \in Chans \ {p.chan} : HashOf[c] = HashOf[p.chan]

(* The location the broker keeps of a node is not finer than the policy in *)
(* force, however packets, edits and lost connections follow each other.   *)
(* The exception is a location from before the policy was tightened, of a  *)
(* node not heard over a live connection since.                            *)
RetainedWithinPolicy == OverPolicy(conf, outbox) \subseteq outdated

(* Home Assistant has an entity for every reading it is sent, after any    *)
(* number of connections, but for a node that was announced before with    *)
(* other sensors: announce_node looks at a node once in a connection.      *)
EntityForReading ==
    \A n \in Nodes \ partial :
        /\ Effective(retained, outbox, n, "position") \in {"approximate", "exact"} =>
              Effective(retained, outbox, n, "tracker config") = "set"
        /\ Effective(retained, outbox, n, "telemetry") = "set" =>
              Effective(retained, outbox, n, "battery config") = "set"
=============================================================================
