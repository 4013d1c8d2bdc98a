---------------------------- MODULE EmergencyPager ---------------------------
(***************************************************************************)
(* Pages and their acknowledgements: send_pager_message() of               *)
(* src/api/routes/emergency_pager_routes.py, the acknowledgement branch of *)
(* PipelineCoordinator._process_capture, and the packets table they meet   *)
(* in (src/storage/packet_repository.py, src/storage/database.py).         *)
(*                                                                         *)
(* The service has one database connection, and a statement that writes    *)
(* opens a transaction which the next commit() ends, whoever calls it.     *)
(* update_pager_status() does not call it: an acknowledgement is durable   *)
(* only once some other writer commits.                                    *)
(***************************************************************************)
EXTENDS Integers, FiniteSets

CONSTANTS
    Pages,        \* pages an operator may send
    MaxRestarts   \* bound: restarts of the service

VARIABLES
    send,         \* where the request of each page is
    table,        \* status of each page's outbox row, as the connection sees it
    disk,         \* the same, as committed
    heard,        \* pages a pager accepted
    acks,         \* acknowledgements on the air or in the capture queue
    matching,     \* the page whose row update_pager_status() has fetched
    handled,      \* pages an acknowledgement of which was processed
    early, pruned, undone, \* why such a page may still not show it
    restarts

pvars == << send, table, disk, heard, acks, matching, handled, early, pruned, undone, restarts >>

NoPage == "no page"
Row == {"none", "sent", "acked"}

Init ==
    /\ send = [p \in Pages |-> "idle"]
    /\ table = [p \in Pages |-> "none"] /\ disk = [p \in Pages |-> "none"]
    /\ heard = {} /\ acks = {} /\ matching = NoPage /\ handled = {}
    /\ early = {} /\ pruned = {} /\ undone = {} /\ restarts = 0

-----------------------------------------------------------------------------
(* send_pager_message() up to the insert: the radio takes the frame or     *)
(* refuses it.  The duty-cycle tracker is not asked.                       *)
Transmit(p) ==
    /\ send[p] = "idle"
    /\ \/ send' = [send EXCEPT ![p] = "aired"]
       \/ send' = [send EXCEPT ![p] = "refused"]
    /\ UNCHANGED << table, disk, heard, acks, matching, handled, early, pruned, undone, restarts >>

(* A slip: the row is written whatever the radio answered.                 *)
InsertAnyway(p) ==
    /\ send[p] \in {"aired", "refused"} /\ table[p] = "none"
    /\ table' = [table EXCEPT ![p] = "sent"]
    /\ send' = [send EXCEPT ![p] = IF @ = "aired" THEN "inserted" ELSE @]
    /\ UNCHANGED << disk, heard, acks, matching, handled, early, pruned, undone, restarts >>

InsertRow(p) ==
    /\ send[p] = "aired"
    /\ table' = [table EXCEPT ![p] = "sent"]
    /\ send' = [send EXCEPT ![p] = "inserted"]
    /\ UNCHANGED << disk, heard, acks, matching, handled, early, pruned, undone, restarts >>

CommitRow(p) ==
    /\ send[p] = "inserted"
    /\ disk' = table
    /\ send' = [send EXCEPT ![p] = "done"]
    /\ UNCHANGED << table, heard, acks, matching, handled, early, pruned, undone, restarts >>

(* The pagers: one that listens on the capcode accepts the page and sends  *)
(* an acknowledgement with the page's id, which may be lost; several       *)
(* pagers may answer one page.                                             *)
PagerAccepts(p) ==
    /\ send[p] \notin {"idle", "refused"} /\ p \notin acks
    /\ heard' = heard \cup {p}
    /\ acks' \in {acks, acks \cup {p}}
    /\ UNCHANGED << send, table, disk, matching, handled, early, pruned, undone, restarts >>

-----------------------------------------------------------------------------
(* A slip: only committed rows are found.                                  *)
CommittedRow(p) == disk[p] # "none"

(* "SELECT ... WHERE packet_id = ?": on the connection that wrote it, an   *)
(* uncommitted row is found.                                               *)
RowFound(p) == table[p] # "none"

(* The pipeline takes the acknowledgement of p and looks for its row; it   *)
(* takes nothing else until the update returned.                           *)
FetchRow(p) ==
    /\ p \in acks /\ matching = NoPage
    /\ acks' = acks \ {p} /\ handled' = handled \cup {p}
    /\ IF RowFound(p) THEN matching' = p /\ UNCHANGED early
       ELSE /\ UNCHANGED matching
            /\ early' = early \cup (IF send[p] = "aired" THEN {p} ELSE {})
    /\ UNCHANGED << send, table, disk, heard, pruned, undone, restarts >>

(* The UPDATE; the row may have been pruned since it was fetched.          *)
UpdateStatus ==
    /\ matching # NoPage
    /\ table' = [table EXCEPT ![matching] = IF @ = "none" THEN "none" ELSE "acked"]
    /\ matching' = NoPage
    /\ UNCHANGED << send, disk, heard, acks, handled, early, pruned, undone, restarts >>

(* Any other writer of the service, such as the next stored packet.        *)
OtherCommit ==
    /\ disk # table
    /\ disk' = table
    /\ UNCHANGED << send, table, heard, acks, matching, handled, early, pruned, undone, restarts >>

(* cleanup_old() deletes the oldest rows; a row being inserted is not one. *)
Cleanup(p) ==
    /\ table[p] # "none" /\ send[p] # "inserted"
    /\ table' = [table EXCEPT ![p] = "none"]
    /\ disk' = table'
    /\ pruned' = pruned \cup {p}
    /\ UNCHANGED << send, heard, acks, matching, handled, early, undone, restarts >>

(* The service stops or dies: what nobody committed is rolled back, what   *)
(* was in the queue or in hand is gone.                                    *)
Restart ==
    /\ restarts < MaxRestarts /\ restarts' = restarts + 1
    /\ table' = disk
    /\ undone' = undone \cup {p \in Pages : table[p] # disk[p] \/ matching = p \/ send[p] = "aired"}
    /\ matching' = NoPage
    /\ send' = [p \in Pages |-> IF send[p] \in {"aired", "inserted"} THEN "done" ELSE send[p]]
    /\ UNCHANGED << disk, heard, acks, handled, early, pruned >>

Next ==
    \/ \E p \in Pages : \/ Transmit(p) \/ InsertRow(p) \/ CommitRow(p) \/ PagerAccepts(p)
                        \/ FetchRow(p) \/ Cleanup(p)
    \/ UpdateStatus \/ OtherCommit \/ Restart

Spec == Init /\ [][Next]_pvars

-----------------------------------------------------------------------------
TypeOK ==
    /\ send \in [Pages -> {"idle", "aired", "inserted", "done", "refused"}]
    /\ table \in [Pages -> Row] /\ disk \in [Pages -> Row]
    /\ heard \subseteq Pages /\ acks \subseteq Pages /\ handled \subseteq Pages
    /\ matching \in Pages \cup {NoPage}
    /\ early \subseteq Pages /\ pruned \subseteq Pages /\ undone \subseteq Pages
    /\ restarts \in 0..MaxRestarts

(* The outbox shows "acked" only for a page a pager accepted, and a row    *)
(* only for a page that went on the air, before and after a restart.       *)
NoFalseAck ==
    \A p \in Pages :
        /\ table[p] = "acked" \/ disk[p] = "acked" => p \in heard
        /\ table[p] # "none" => send[p] \notin {"idle", "refused"}

(* An acknowledgement that was processed shows in the outbox, unless it    *)
(* came before the page's row was inserted (the page is on the air first), *)
(* the row was pruned, or a restart undid what nobody had committed.       *)
AckAccounted ==
    \A p \in handled :
        table[p] = "acked" \/ matching = p \/ p \in early \cup pruned \cup undone

(* No acknowledgement is shown that did not happen, and one that was       *)
(* processed shows, with the named exceptions.                             *)
PagesAccounted == NoFalseAck /\ AckAccounted
==============================================================================
