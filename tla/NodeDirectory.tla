--------------------------- MODULE NodeDirectory ---------------------------
(***************************************************************************)
(* The nodes table and those who write it: the packet pipeline, messages   *)
(* that carry their sender's name, the companion's contact list, reports   *)
(* of polled repeaters, retention, the dangerous actions of the settings   *)
(* page, the clean-up at start-up and the import script, which stops the   *)
(* service while it works.                                                 *)
(*                                                                         *)
(* The service shares one database connection between its tasks, so one    *)
(* commit writes what all of them have changed (saved) and a stop loses    *)
(* what nobody has committed.                                              *)
(*                                                                         *)
(* A node has one name of its own, written as the node itself; Hex is its  *)
(* identifier used as a name.  The contacts' identifiers share their first *)
(* eight characters, which alone are the identifier Short.                 *)
(***************************************************************************)
EXTENDS Integers, FiniteSets, FiniteSetsExt

CONSTANTS
    Contacts,      \* MeshCore nodes whose identifiers share eight characters
    Short,         \* those eight characters
    MaxStamp,      \* bound on time stamps
    MaxPackets,    \* bound on the packets received
    MaxEvents      \* bound on reports, imports, wipes and restarts

VARIABLES
    running,       \* the service runs
    rows,          \* the nodes table as the service's connection sees it
    saved,         \* both tables as committed
    stamps,        \* time stamps of the stored packets of each node
    packet,        \* the packet between its two statements, or NoPacket
    todo,          \* contacts each sync still has to apply
    changed,       \* whether each sync has changed a row
    clearing,      \* the packets are deleted and the nodes not yet
    received,      \* packets received
    events,        \* reports, imports, wipes and restarts so far
    applied,       \* packets counted into each row since it exists
    crossed        \* rows named by the import after an ambiguous prefix

vars == << running, rows, saved, stamps, packet, todo, changed, clearing, received, events, applied, crossed >>

Nodes == Contacts \cup {Short}
Stamps == 1 .. MaxStamp
None == "none"
Hex == "hex"
NoRow == [name |-> "absent", heard |-> 0, count |-> 0]
NoPacket == [node |-> Short, name |-> None, stamp |-> 0, decoded |-> FALSE]
Syncs == {"startup", "packet"}
RowName == {None, Hex} \cup Contacts
Rows == [name : RowName, heard : Stamps, count : 0 .. MaxPackets]
Latest(n) == IF stamps[n] = {} THEN 0 ELSE Max(stamps[n])
Larger(a, b) == IF a > b THEN a ELSE b
\* Written last in an action, when both tables are known.
Commit == saved' = [nodes |-> rows', stamps |-> stamps']
Bounded == events < MaxEvents /\ events' = events + 1

TypeOK ==
    /\ running \in BOOLEAN /\ clearing \in BOOLEAN
    /\ rows \in [Nodes -> Rows \cup {NoRow}]
    /\ saved \in [nodes : [Nodes -> Rows \cup {NoRow}], stamps : [Nodes -> SUBSET Stamps]]
    /\ stamps \in [Nodes -> SUBSET Stamps]
    /\ packet \in {NoPacket} \cup [node : Contacts, name : RowName, stamp : Stamps, decoded : BOOLEAN]
    /\ todo \in [Syncs -> SUBSET Contacts]
    /\ changed \in [Syncs -> BOOLEAN]
    /\ received \in 0 .. MaxPackets /\ events \in 0 .. MaxEvents
    /\ applied \in [Nodes -> 0 .. MaxPackets]
    /\ crossed \subseteq Nodes

Init ==
    /\ running = TRUE /\ clearing = FALSE
    /\ rows = [n \in Nodes |-> NoRow]
    /\ stamps = [n \in Nodes |-> {}]
    /\ saved = [nodes |-> rows, stamps |-> stamps]
    /\ packet = NoPacket
    /\ todo = [s \in Syncs |-> {}] /\ changed = [s \in Syncs |-> FALSE]
    /\ received = 0 /\ events = 0
    /\ applied = [n \in Nodes |-> 0]
    /\ crossed = {}

-----------------------------------------------------------------------------
(* One packet through the pipeline: its row, then its node.                *)

(* PacketRepository.insert; the time stamp is the sender's when the event  *)
(* carries one, so it need not be the latest.                              *)
Insert(n, t, name, decoded) ==
    /\ running /\ packet = NoPacket /\ received < MaxPackets
    /\ received' = received + 1
    /\ packet' = [node |-> n, name |-> name, stamp |-> t, decoded |-> decoded]
    /\ stamps' = [stamps EXCEPT ![n] = @ \cup {t}]
    /\ UNCHANGED << running, rows, todo, changed, clearing, events, applied, crossed >>
    /\ Commit

(* long_name in NodeRepository.upsert, for a MeshCore update.              *)
MergedName(old, new) ==
    IF new # None /\ old \in {None, Hex} THEN new ELSE old

(* NodeRepository.upsert: a new row takes the update's packet_count, which *)
(* is the default of Node, zero.                                           *)
Upserted(row, p) ==
    IF row = NoRow THEN [name |-> p.name, heard |-> p.stamp, count |-> 0]
    ELSE [name |-> MergedName(row.name, p.name), heard |-> p.stamp, count |-> row.count + 1]

(* NodeRepository.increment_packet_count: now, and only a row that exists. *)
Incremented(row, now) ==
    IF row = NoRow THEN NoRow ELSE [row EXCEPT !.heard = now, !.count = @ + 1]

(* PipelineCoordinator._update_node for MeshCore.                          *)
UpdateNode(now) ==
    /\ running /\ packet # NoPacket
    /\ LET n == packet.node
           row == IF packet.decoded THEN Upserted(rows[n], packet) ELSE Incremented(rows[n], now)
       IN /\ rows' = [rows EXCEPT ![n] = row]
          /\ applied' = [applied EXCEPT ![n] = IF row = NoRow THEN 0 ELSE @ + 1]
    /\ packet' = NoPacket
    /\ UNCHANGED << running, stamps, todo, changed, clearing, received, events, crossed >>
    /\ Commit

(* _store_packet logs an exception of the statement and goes on.           *)
UpdateFails ==
    /\ running /\ packet # NoPacket
    /\ packet' = NoPacket
    /\ UNCHANGED << running, rows, saved, stamps, todo, changed, clearing, received, events, applied, crossed >>

(* A stored text message names its sender's row (server.on_message).       *)
NameFromMessage(n) ==
    /\ running /\ rows[n] # NoRow
    /\ rows' = [rows EXCEPT ![n].name = n]
    /\ UNCHANGED << running, stamps, packet, todo, changed, clearing, received, events, applied, crossed >>
    /\ Commit

-----------------------------------------------------------------------------
(* The companion's contacts.  A packet starts a sync unless one is in      *)
(* flight; the one at start-up asks nobody.                                *)

SyncStart(s, listed) ==
    /\ running /\ todo[s] = {} /\ listed # {}
    /\ Bounded
    /\ todo' = [todo EXCEPT ![s] = listed]
    /\ UNCHANGED << running, rows, saved, stamps, packet, changed, clearing, received, applied, crossed >>

(* The rows whose node_id is the contact's first twelve characters.        *)
ContactRows(c) == {n \in {c} : rows[n] # NoRow}

(* One contact of sync_meshcore_contacts_to_nodes: an UPDATE, no commit.   *)
SyncContact(s, c) ==
    /\ running /\ c \in todo[s] /\ todo[s] # {c}
    /\ rows' = [n \in Nodes |-> IF n \in ContactRows(c) THEN [rows[n] EXCEPT !.name = c] ELSE rows[n]]
    /\ todo' = [todo EXCEPT ![s] = @ \ {c}]
    /\ changed' = [changed EXCEPT ![s] = @ \/ ContactRows(c) # {}]
    /\ UNCHANGED << running, saved, stamps, packet, clearing, received, events, applied, crossed >>

(* The last one, followed by the commit if any row was changed.            *)
SyncLast(s, c) ==
    /\ running /\ todo[s] = {c}
    /\ rows' = [n \in Nodes |-> IF n \in ContactRows(c) THEN [rows[n] EXCEPT !.name = c] ELSE rows[n]]
    /\ todo' = [todo EXCEPT ![s] = {}]
    /\ changed' = [changed EXCEPT ![s] = FALSE]
    /\ UNCHANGED << running, stamps, packet, clearing, received, events, applied, crossed >>
    /\ IF changed[s] \/ ContactRows(c) # {} THEN Commit ELSE UNCHANGED saved

-----------------------------------------------------------------------------
(* Second-hand knowledge.                                                  *)

ReportedHeardAsReported(n, t) == t

(* last_heard of both neighbour upserts: never below a stored packet of    *)
(* the node itself.                                                        *)
ReportedHeard(n, t) == Larger(t, Latest(n))

(* A slip: a report counts as a packet.                                    *)
ReportedRowCounts(n, t) ==
    IF rows[n] = NoRow THEN [name |-> Hex, heard |-> t, count |-> 0]
    ELSE [name |-> IF rows[n].name \in {None, Hex} THEN Hex ELSE rows[n].name,
          heard |-> ReportedHeard(n, t),
          count |-> IF rows[n].count < MaxPackets THEN rows[n].count + 1 ELSE rows[n].count]

(* NodeRepository.upsert_from_neighbour_report: the identifier stands in   *)
(* for a name the row does not have.                                       *)
ReportedRow(n, t) ==
    IF rows[n] = NoRow THEN [name |-> Hex, heard |-> t, count |-> 0]
    ELSE [rows[n] EXCEPT !.name = IF @ \in {None, Hex} THEN Hex ELSE @, !.heard = ReportedHeard(n, t)]

NeighbourReport(n, t) ==
    /\ running /\ Bounded
    /\ rows' = [rows EXCEPT ![n] = ReportedRow(n, t)]
    /\ UNCHANGED << running, stamps, packet, todo, changed, clearing, received, applied, crossed >>
    /\ Commit

(* import_contacts: what the file says counts only where it is newer.      *)
ImportContact(n, t) ==
    /\ ~ running /\ Bounded
    /\ rows' = [rows EXCEPT ![n] =
                  IF @ = NoRow THEN [name |-> n, heard |-> t, count |-> 0]
                  ELSE IF t > @.heard THEN [@ EXCEPT !.name = n, !.heard = t] ELSE @]
    /\ UNCHANGED << running, stamps, packet, todo, changed, clearing, received, applied, crossed >>
    /\ Commit

(* import_neighbours: the file's eight characters are looked up among the  *)
(* existing rows, and one of several matches is taken.                     *)
ImportNeighbour(n, row, t) ==
    /\ ~ running /\ Bounded
    /\ IF \E x \in Nodes : rows[x] # NoRow THEN rows[row] # NoRow ELSE row = Short
    /\ rows' = [rows EXCEPT ![row] =
                  IF @ = NoRow THEN [name |-> n, heard |-> t, count |-> 0]
                  ELSE [@ EXCEPT !.name = n, !.heard = ReportedHeard(row, t)]]
    /\ crossed' = crossed \cup ({row} \ {n})
    /\ UNCHANGED << running, stamps, packet, todo, changed, clearing, received, applied >>
    /\ Commit

-----------------------------------------------------------------------------
(* Deletions.                                                              *)

(* PacketRepository.cleanup_old removes the oldest packets.                *)
Cleanup(n) ==
    /\ running /\ stamps[n] # {}
    /\ \A m \in Nodes : stamps[m] # {} => Min(stamps[n]) <= Min(stamps[m])
    /\ stamps' = [stamps EXCEPT ![n] = @ \ {Min(@)}]
    /\ UNCHANGED << running, rows, packet, todo, changed, clearing, received, events, applied, crossed >>
    /\ Commit

(* PHANTOM_ROW_PREDICATE.                                                  *)
Phantom(row) == row # NoRow /\ row.count = 0 /\ row.name = None

(* delete_phantom_rows, from the dangerous actions.                        *)
WipePhantoms ==
    /\ running /\ Bounded
    /\ rows' = [n \in Nodes |-> IF Phantom(rows[n]) THEN NoRow ELSE rows[n]]
    /\ applied' = [n \in Nodes |-> IF rows'[n] = NoRow THEN 0 ELSE applied[n]]
    /\ crossed' = {n \in crossed : rows'[n] # NoRow}
    /\ UNCHANGED << running, stamps, packet, todo, changed, clearing, received >>
    /\ Commit

(* _clear_database_coro: one statement per table, one commit.              *)
ClearPackets ==
    /\ running /\ ~ clearing /\ Bounded
    /\ clearing' = TRUE
    /\ stamps' = [n \in Nodes |-> {}]
    /\ UNCHANGED << running, rows, saved, packet, todo, changed, received, applied, crossed >>

ClearNodes ==
    /\ running /\ clearing
    /\ clearing' = FALSE
    /\ rows' = [n \in Nodes |-> NoRow]
    /\ applied' = [n \in Nodes |-> 0]
    /\ crossed' = {}
    /\ UNCHANGED << running, stamps, packet, todo, changed, received, events >>
    /\ Commit

-----------------------------------------------------------------------------
(* The service stops, losing what is not committed, and starts again.      *)

Stop ==
    /\ running /\ Bounded
    /\ running' = FALSE
    /\ rows' = saved.nodes /\ stamps' = saved.stamps
    /\ packet' = NoPacket
    /\ todo' = [s \in Syncs |-> {}] /\ changed' = [s \in Syncs |-> FALSE]
    /\ clearing' = FALSE
    /\ UNCHANGED << saved, received, applied, crossed >>

(* _cleanup_meshcore_placeholder_names.                                    *)
StartName(row) == IF row.name = Hex THEN None ELSE row.name

Start ==
    /\ ~ running
    /\ running' = TRUE
    /\ rows' = [n \in Nodes |-> IF rows[n] = NoRow THEN NoRow ELSE [rows[n] EXCEPT !.name = StartName(rows[n])]]
    /\ UNCHANGED << stamps, packet, todo, changed, clearing, received, events, applied, crossed >>
    /\ Commit

Next ==
    \/ \E n \in Contacts, t \in Stamps :
         \/ \E name \in {None, n} : Insert(n, t, name, TRUE)
         \/ Insert(n, t, None, FALSE)
         \/ NeighbourReport(n, t)
         \/ ImportContact(n, t)
         \/ \E row \in Nodes : ImportNeighbour(n, row, t)
    \/ \E now \in Stamps : UpdateNode(now)
    \/ UpdateFails
    \/ \E n \in Contacts : NameFromMessage(n)
    \/ \E s \in Syncs, listed \in SUBSET Contacts : SyncStart(s, listed)
    \/ \E s \in Syncs, c \in Contacts : SyncContact(s, c) \/ SyncLast(s, c)
    \/ \E n \in Nodes : Cleanup(n)
    \/ WipePhantoms \/ ClearPackets \/ ClearNodes
    \/ Stop \/ Start

Spec == Init /\ [][Next]_vars

-----------------------------------------------------------------------------
(* A row the import has not named by an ambiguous prefix carries its own   *)
(* node's name or none: syncs and messages never name a node after another *)
(* whose identifier merely begins alike, in whatever order they come.      *)
NamesOwn ==
    \A n \in Contacts \ crossed : rows[n] # NoRow => rows[n].name \in {None, Hex, n}

(* A node's name is lost only with its row or with a stop that comes       *)
(* before the commit: no advert without a name, report, import or start-up *)
(* puts an identifier or nothing in its place.                             *)
NameStays ==
    [][\A n \in Contacts :
         (rows[n] # NoRow /\ rows[n].name \in Contacts /\ rows'[n] # NoRow)
             => rows'[n].name \in Contacts \/ rows'[n] = saved.nodes[n]]_vars

(* The count of a row is what the service itself received from the node,   *)
(* less the packet that created it if one did: hearsay, imports and names  *)
(* never count, whatever row they find or create.                          *)
CountsOwnPackets ==
    \A n \in Nodes : rows[n] # NoRow => rows[n].count \in {applied[n], applied[n] - 1}

(* Nothing but the node's own packet takes its last_heard below a packet   *)
(* of it that is stored: a repeater's or a file's older observation does   *)
(* not make a node heard more recently look silent.                        *)
NotUnfreshened ==
    [][\A n \in Nodes :
         (rows[n] # NoRow /\ rows'[n] # NoRow /\ rows'[n].heard < rows[n].heard /\ applied'[n] = applied[n])
             => \A t \in stamps[n] : rows'[n].heard >= t]_vars

(* Wiping phantoms never removes a node that was heard twice or has a name. *)
WipeSparesHeard ==
    [][\A n \in Nodes :
         (rows[n] # NoRow /\ rows'[n] = NoRow /\ ~ clearing /\ running')
             => applied[n] <= 1 /\ rows[n].name = None]_vars
=============================================================================
