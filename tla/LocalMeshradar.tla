------------------------- MODULE LocalMeshradar -------------------------
(***************************************************************************)
(* The collector extra/local_meshradar/server.py, seen from one node of    *)
(* one Meshpoint: packets and heartbeat rosters of that Meshpoint are      *)
(* merged into the node's row, and a dashboard tab shows the row from what *)
(* it loads and from what is pushed to it. A Meshpoint that reconnects may *)
(* have two connections whose messages are handled in threads of their     *)
(* own. Older versions wrote a second row under the id with a leading "!", *)
(* which merge_duplicate_nodes.py takes back, and the text "null" where    *)
(* telemetry was missing.                                                  *)
(***************************************************************************)
EXTENDS Integers, FiniteSets

CONSTANTS
    Connections,        \* of the one Meshpoint
    FirstRows,          \* the rows an earlier version may have left
    MaxMessages, MaxLoads, MaxRestarts, MaxMerges

Missing == {"NULL", "null"}         \* no telemetry, as a value and as a text
NoRow == [is |-> "none"]
RowOf(name, tele, count) == [is |-> "row", name |-> name, tele |-> tele, count |-> count]
Rows == {NoRow} \cup [is : {"row"}, name : {"", "known"}, tele : {"known"} \cup Missing, count : Nat]

VARIABLES
    row, twin,          \* the node's row, and the one under its id with the "!"
    stored,             \* a telemetry packet of it is in the packets table
    conn,               \* per connection: what its handler has left to do
    tab,                \* the dashboard: subscribed, the row it shows, a load under way
    messages, loads, restarts, merges,
    named,              \* history: a name was received
    behind,             \* history: the tab missed a change, or a load crossed one
    merged              \* history: since the start, the rows were merged, or the row begun
                        \* beside an older one that packets were counted in

vars == << row, twin, stored, conn, tab, messages, loads, restarts, merges, named, behind, merged >>

Idle == [at |-> "idle"]
Busy == { c \in Connections : conn[c] # Idle }

TypeOK ==
    /\ row \in Rows /\ twin \in Rows
    /\ {stored, named, behind, merged} \subseteq BOOLEAN
    /\ \A c \in Connections : conn[c] \in {Idle, [at |-> "written"]} \cup [at : {"selected"}, row : Rows]
    /\ tab \in [live : BOOLEAN, shown : Rows, load : {Idle} \cup [at : {"read"}, row : Rows]]

Backfill(r, packet) ==
    IF r # NoRow /\ r.tele \in Missing /\ packet THEN [r EXCEPT !.tele = "known"] ELSE r

Init ==
    /\ \E old \in FirstRows :
          /\ row = Backfill(old.row, old.stored) /\ twin = Backfill(old.twin, old.stored)
          /\ stored = old.stored
          /\ named = \E r \in {old.row, old.twin} : r # NoRow /\ r.name # ""
    /\ conn = [c \in Connections |-> Idle]
    /\ tab = [live |-> FALSE, shown |-> NoRow, load |-> Idle]
    /\ messages = 0 /\ loads = 0 /\ restarts = 0 /\ merges = 0
    /\ behind = TRUE /\ merged = FALSE

\* COALESCE(NULLIF(excluded.x, ''), nodes.x)
Coalesce(new, old, none) == IF new \in none THEN old ELSE new

(* _touch_node_from_packet, after the packet itself was inserted, in one   *)
(* transaction. Only a NODEINFO names the node, only a telemetry packet    *)
(* has telemetry.                                                          *)
TouchNode(kind, r) ==
    LET name == IF kind = "nodeinfo" THEN "known" ELSE ""
        tele == IF kind = "telemetry" THEN "known" ELSE "NULL"
    IN  IF r = NoRow THEN RowOf(name, tele, 1)
        ELSE RowOf(Coalesce(name, r.name, {""}), Coalesce(tele, r.tele, {"NULL"}), r.count + 1)

\* What json.dumps leaves in the column: the value, or NULL.
BoundTelemetry(entry) == IF entry.tele THEN "known" ELSE "NULL"

(* _upsert_node, for the node's entry in a heartbeat: the count is the     *)
(* roster's.                                                               *)
UpsertNode(entry, r) ==
    LET tele == BoundTelemetry(entry)
    IN  IF r = NoRow THEN RowOf(entry.name, tele, entry.count)
        ELSE RowOf(Coalesce(entry.name, r.name, {""}), Coalesce(tele, r.tele, {"NULL"}), entry.count)

Entries == [name : {"", "known"}, tele : BOOLEAN, count : {1}]

\* A change of the row is pushed to the tabs that are there, unless another
\* handler or a load is between its read and its effect.
Unseen(c) == ~tab.live \/ Busy \ {c} # {} \/ tab.load # Idle

Write(c, newRow) ==
    /\ conn[c] = Idle
    /\ messages < MaxMessages /\ messages' = messages + 1
    /\ row' = newRow
    /\ conn' = [conn EXCEPT ![c] = [at |-> "written"]]
    /\ behind' = (behind \/ Unseen(c))
    /\ merged' = (merged \/ (row = NoRow /\ stored))
    /\ UNCHANGED << twin, tab, loads, restarts, merges >>

HandlePacket(c, kind) ==
    /\ Write(c, TouchNode(kind, row))
    /\ stored' = (stored \/ kind = "telemetry")
    /\ named' = (named \/ kind = "nodeinfo")

HandleHeartbeat(c, entry) ==
    /\ Write(c, UpsertNode(entry, row))
    /\ named' = (named \/ entry.name # "")
    /\ UNCHANGED stored

(* The row is read again after the commit, and pushed from the event loop. *)
Reselect(c) ==
    /\ conn[c] = [at |-> "written"]
    /\ conn' = [conn EXCEPT ![c] = [at |-> "selected", row |-> row]]
    /\ UNCHANGED << row, twin, stored, tab, messages, loads, restarts, merges, named, behind, merged >>

BroadcastUpdate(c) ==
    /\ conn[c].at = "selected"
    /\ tab' = IF tab.live THEN [tab EXCEPT !.shown = conn[c].row] ELSE tab
    /\ conn' = [conn EXCEPT ![c] = Idle]
    /\ UNCHANGED << row, twin, stored, messages, loads, restarts, merges, named, behind, merged >>

-----------------------------------------------------------------------------
(* The tab subscribes on its own; loadAll() reads the rows at the start,   *)
(* every 30 seconds and on demand, and shows them when they are there.     *)
Subscribe ==
    /\ ~tab.live
    /\ tab' = [tab EXCEPT !.live = TRUE]
    /\ behind' = (behind \/ Busy # {})
    /\ UNCHANGED << row, twin, stored, conn, messages, loads, restarts, merges, named, merged >>

TabLeaves ==
    /\ tab.live
    /\ tab' = [tab EXCEPT !.live = FALSE]
    /\ behind' = (behind \/ Busy # {})
    /\ UNCHANGED << row, twin, stored, conn, messages, loads, restarts, merges, named, merged >>

LoadRead ==
    /\ tab.load = Idle /\ loads < MaxLoads /\ loads' = loads + 1
    /\ tab' = [tab EXCEPT !.load = [at |-> "read", row |-> row]]
    /\ behind' = (Busy # {})
    /\ UNCHANGED << row, twin, stored, conn, messages, restarts, merges, named, merged >>

LoadShown ==
    /\ tab.load # Idle
    /\ tab' = [tab EXCEPT !.load = Idle, !.shown = tab.load.row]
    /\ UNCHANGED << row, twin, stored, conn, messages, loads, restarts, merges, named, behind, merged >>

-----------------------------------------------------------------------------
(* A restart: init_db and _backfill_node_telemetry over what is stored.    *)
Restart ==
    /\ restarts < MaxRestarts /\ restarts' = restarts + 1
    /\ row' = Backfill(row, stored) /\ twin' = Backfill(twin, stored)
    /\ conn' = [c \in Connections |-> Idle]
    /\ tab' = [tab EXCEPT !.live = FALSE, !.load = Idle]
    /\ behind' = TRUE /\ merged' = FALSE
    /\ UNCHANGED << stored, messages, loads, merges, named >>

Pick(a, b, none) == IF a \in none THEN b ELSE a

(* merge_duplicates, run by hand beside the server. The text "null" counts *)
(* as a value, and the old row's values win.                               *)
MergeDuplicates ==
    /\ merges < MaxMerges /\ merges' = merges + 1
    /\ twin # NoRow
    /\ row' = IF row = NoRow THEN twin
              ELSE RowOf(Pick(twin.name, row.name, {""}), Pick(twin.tele, row.tele, {"NULL"}),
                         twin.count + row.count)
    /\ twin' = NoRow
    /\ behind' = TRUE /\ merged' = TRUE
    /\ UNCHANGED << stored, conn, tab, messages, loads, restarts, named >>

Next ==
    \/ \E c \in Connections :
          \/ \E kind \in {"nodeinfo", "telemetry", "text"} : HandlePacket(c, kind)
          \/ \E entry \in Entries : HandleHeartbeat(c, entry)
          \/ Reselect(c) \/ BroadcastUpdate(c)
    \/ Subscribe \/ TabLeaves \/ LoadRead \/ LoadShown
    \/ Restart \/ MergeDuplicates

Spec == Init /\ [][Next]_vars

-----------------------------------------------------------------------------
(* A name that was received stays known: through nameless packets and      *)
(* roster entries, a merge of the two rows, and restarts.                  *)
NameKept == named => \E r \in {row, twin} : r # NoRow /\ r.name # ""

(* A node whose telemetry is stored shows telemetry: what a roster entry   *)
(* without it must not take away is there again after a restart at the     *)
(* latest. A merge may bring back the old row's "null" until then, and a   *)
(* row begun beside an older version's lacks what was stored before it.    *)
TelemetryShown == stored /\ row # NoRow /\ ~merged => row.tele = "known"

(* A tab that is subscribed and loaded shows the row as it is stored when  *)
(* nothing is under way. The exceptions: two connections of the Meshpoint  *)
(* crossed, or a change fell between a load's read and its answer or into  *)
(* the time without a subscription.                                        *)
ViewCurrent ==
    tab.live /\ tab.load = Idle /\ Busy = {} /\ ~behind => tab.shown = row
=============================================================================
