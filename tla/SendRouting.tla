---------------------------- MODULE SendRouting ----------------------------
(***************************************************************************)
(* Which radio a text leaves by (tx_service.py): a direct message goes out *)
(* where its addressee was heard last, a MeshCore channel message on every *)
(* connected companion.  The addressee listens on one band at a time, and  *)
(* each radio has a band of its own.                                       *)
(*                                                                         *)
(* kind is the protocol: MeshCore, with companions only, or Meshtastic,    *)
(* with the onboard radio and sticks.  The first radio is the one used     *)
(* when nothing else is known: the companion the client is bound to, or    *)
(* the onboard radio.  A stick numbers its channels by itself.             *)
(***************************************************************************)
EXTENDS Integers, Sequences, SequencesExt, FiniteSets

CONSTANTS
    First, Others,    \* the radios
    Primary, Extra,   \* names of the primary channel and of the others
    MaxHeard,         \* bound on packets of the addressee
    MaxSends,         \* bound on texts
    MaxChanges        \* bound on moves, lost cables, failures and edits

VARIABLES
    kind,             \* "meshcore" or "meshtastic"
    up,               \* the connected radios
    band,             \* the radio whose band the addressee is on
    rows,             \* stored packets of the addressee: [radio, stamp]
    clock,            \* the stamp of its next packet
    channels,         \* the configured names after the primary
    table, known,     \* a stick's channels: its own, and as read on connecting
    dm,               \* the direct message under way
    cast,             \* the channel message under way
    heard, sends, changes,
    set,              \* history: the clock was set back
    aired             \* history: the last direct message that left

vars == << kind, up, band, rows, clock, channels, table, known, dm, cast, heard, sends, changes, set, aired >>

None == "none"
Radios == {First} \cup Others
Tables == {<< Primary >>} \cup {<< Primary, n >> : n \in Extra} \cup {<< n, Primary >> : n \in Extra}
Idle == [at |-> "idle", index |-> 0, wanted |-> Primary, source |-> None, last |-> None]
NoCast == [at |-> "idle", todo |-> << >>, took |-> {}, steady |-> {}]
NotAired == [via |-> None]
Change == changes < MaxChanges /\ changes' = changes + 1

TypeOK ==
    /\ kind \in {"meshcore", "meshtastic"} /\ up \subseteq Radios /\ band \in Radios
    /\ \A i \in DOMAIN rows : rows[i].radio \in Radios /\ rows[i].stamp \in 0 .. 2 * MaxHeard + 1
    /\ channels \in Tables \cup {<< >>} \cup {<< n >> : n \in Extra}
    /\ table \in Tables /\ known \in Tables
    /\ dm.at \in {"idle", "asked", "found", "waiting"} /\ cast.at \in {"idle", "sending", "done"}
    /\ heard \in 0 .. MaxHeard /\ sends \in 0 .. MaxSends /\ changes \in 0 .. MaxChanges
    /\ set \in BOOLEAN /\ aired.via \in Radios \cup {None}

Init ==
    /\ kind \in {"meshcore", "meshtastic"} /\ up = Radios /\ band \in Radios
    /\ rows = << >> /\ clock = MaxHeard + 1
    /\ \E n \in Extra : channels = << n >>
    /\ table \in Tables /\ known = table
    /\ dm = Idle /\ cast = NoCast
    /\ heard = 0 /\ sends = 0 /\ changes = 0
    /\ set = FALSE /\ aired = NotAired

-----------------------------------------------------------------------------
(* The addressee and the radios.                                           *)

(* A packet is stored with the radio that heard it.  Its timestamp is the  *)
(* sender's for MeshCore and the time of reception for Meshtastic.         *)
Hear ==
    /\ heard < MaxHeard /\ heard' = heard + 1
    /\ band \in up
    /\ rows' = Append(rows, [radio |-> band, stamp |-> clock])
    /\ clock' = clock + 1
    /\ UNCHANGED << kind, up, band, channels, table, known, dm, cast, sends, changes, set, aired >>

Move(r) ==
    /\ r # band /\ Change
    /\ band' = r
    /\ UNCHANGED << kind, up, rows, clock, channels, table, known, dm, cast, heard, sends, set, aired >>

SetClockBack ==
    /\ kind = "meshcore" /\ ~ set /\ Change
    /\ clock' = 0 /\ set' = TRUE
    /\ UNCHANGED << kind, up, band, rows, channels, table, known, dm, cast, heard, sends, aired >>

(* Retention.                                                              *)
Prune ==
    /\ rows # << >> /\ Change
    /\ rows' = << >>
    /\ UNCHANGED << kind, up, band, clock, channels, table, known, dm, cast, heard, sends, set, aired >>

Disconnect(r) ==
    /\ r \in up /\ (kind = "meshtastic" => r # First) /\ Change
    /\ up' = up \ {r}
    /\ cast' = [cast EXCEPT !.steady = @ \ {r}]
    /\ UNCHANGED << kind, band, rows, clock, channels, table, known, dm, heard, sends, set, aired >>

Connect(r) ==
    /\ r \notin up
    /\ up' = up \cup {r} /\ known' = table
    /\ UNCHANGED << kind, band, rows, clock, channels, table, dm, cast, heard, sends, changes, set, aired >>

EditStick(t) ==
    /\ kind = "meshtastic" /\ t # table /\ Change
    /\ table' = t
    /\ UNCHANGED << kind, up, band, rows, clock, channels, known, dm, cast, heard, sends, set, aired >>

EditChannels(list) ==
    /\ list # channels /\ Change
    /\ channels' = list
    /\ UNCHANGED << kind, up, band, rows, clock, table, known, dm, cast, heard, sends, set, aired >>

-----------------------------------------------------------------------------
(* A direct message.                                                       *)

(* _channel_name_for_index: an index past the end means the primary.       *)
NameFor(index) == IF index \in DOMAIN channels THEN channels[index] ELSE Primary

(* meshcore_enabled asks the first companion only.                         *)
Ask(index) ==
    /\ dm.at = "idle"
    /\ sends < MaxSends /\ sends' = sends + 1
    /\ kind = "meshcore" => First \in up /\ index = 0
    /\ dm' = [Idle EXCEPT !.at = "asked", !.index = index, !.wanted = NameFor(index)]
    /\ aired' = NotAired
    /\ UNCHANGED << kind, up, band, rows, clock, channels, table, known, cast, heard, changes, set >>

(* get_latest_capture_source: the row with the greatest timestamp.         *)
Latest ==
    IF rows = << >> THEN None
    ELSE rows[SelectInSeq(rows, LAMBDA e : \A j \in DOMAIN rows : rows[j].stamp <= e.stamp)].radio

(* The database answers, or the lookup fails; the task resumes later.      *)
Look ==
    /\ dm.at = "asked"
    /\ \/ /\ dm' = [dm EXCEPT !.at = "found", !.source = Latest,
                               !.last = IF rows = << >> THEN None ELSE Last(rows).radio]
          /\ UNCHANGED changes
       \/ Change /\ dm' = [dm EXCEPT !.at = "found"]
    /\ UNCHANGED << kind, up, band, rows, clock, channels, table, known, cast, heard, sends, set, aired >>

(* _resolve_meshcore_send_source and _resolve_serial_send_source.          *)
Via == IF dm.source \in up THEN dm.source ELSE First

(* resolve_channel_index, and the channel the stick has at that index.     *)
OnStick(index) ==
    LET i == SelectInSeq(known, LAMBDA n : n = NameFor(index))
    IN  IF i \in DOMAIN table THEN table[i] ELSE None

OnChannel(index) == IF kind = "meshtastic" /\ Via # First THEN OnStick(index) ELSE NameFor(index)

(* The text goes to the radio; a companion is waited for.                  *)
Send ==
    /\ dm.at = "found" /\ Via \in up /\ OnChannel(dm.index) # None
    /\ aired' = [via |-> Via, on |-> OnChannel(dm.index), band |-> band, wanted |-> dm.wanted,
                 sure |-> band \in up /\ ~ set /\ dm.last = band,
                 same |-> NameFor(dm.index) = dm.wanted /\ table = known]
    /\ dm' = [dm EXCEPT !.at = IF kind = "meshcore" THEN "waiting" ELSE "idle"]
    /\ UNCHANGED << kind, up, band, rows, clock, channels, table, known, cast, heard, sends, changes, set >>

(* Not connected, no channel of that name on the stick, or an exception.   *)
SendRefused ==
    /\ dm.at = "found" /\ dm' = Idle
    /\ \/ (Via \notin up \/ OnChannel(dm.index) = None) /\ UNCHANGED changes
       \/ Change
    /\ UNCHANGED << kind, up, band, rows, clock, channels, table, known, cast, heard, sends, set, aired >>

Answered ==
    /\ dm.at = "waiting"
    /\ dm' = Idle
    /\ UNCHANGED << kind, up, band, rows, clock, channels, table, known, cast, heard, sends, changes, set, aired >>

(* No answer: a companion found by the lookup is connected anew, though    *)
(* the text may be out; the client of the first one does nothing.          *)
TimesOut ==
    /\ dm.at = "waiting" /\ Change
    /\ dm' = Idle
    /\ up' = up \ (IF dm.source = aired.via THEN {aired.via} ELSE {})
    /\ cast' = [cast EXCEPT !.steady = @ \cap up']
    /\ UNCHANGED << kind, band, rows, clock, channels, table, known, heard, sends, set, aired >>

-----------------------------------------------------------------------------
(* A MeshCore channel message: one companion after the other, over those   *)
(* that were connected at the beginning.                                   *)

CastBegins ==
    /\ kind = "meshcore" /\ First \in up /\ cast.at # "sending"
    /\ sends < MaxSends /\ sends' = sends + 1
    /\ cast' = [at |-> "sending", todo |-> SetToSeq(up), took |-> {}, steady |-> up]
    /\ UNCHANGED << kind, up, band, rows, clock, channels, table, known, dm, heard, changes, set, aired >>

CastTook ==
    /\ cast.at = "sending" /\ cast.todo # << >> /\ Head(cast.todo) \in up
    /\ cast' = [cast EXCEPT !.took = @ \cup {Head(cast.todo)}, !.todo = Tail(@)]
    /\ UNCHANGED << kind, up, band, rows, clock, channels, table, known, dm, heard, sends, changes, set, aired >>

AfterFailure(todo) == Tail(todo)

(* It is no longer connected, refuses, or does not answer: the next one.   *)
CastMissed ==
    /\ cast.at = "sending" /\ cast.todo # << >>
    /\ LET r == Head(cast.todo) IN
       /\ cast' = [cast EXCEPT !.todo = AfterFailure(@), !.steady = @ \ {r}]
       /\ \/ r \notin up /\ UNCHANGED << up, changes >>
          \/ r \in up /\ Change /\ up' \in {up, up \ {r}}
    /\ UNCHANGED << kind, band, rows, clock, channels, table, known, dm, heard, sends, set, aired >>

CastEnds ==
    /\ cast.at = "sending" /\ cast.todo = << >>
    /\ cast' = [cast EXCEPT !.at = "done"]
    /\ UNCHANGED << kind, up, band, rows, clock, channels, table, known, dm, heard, sends, changes, set, aired >>

Next ==
    \/ Hear \/ SetClockBack \/ Prune
    \/ \E r \in Radios : Move(r) \/ Disconnect(r) \/ Connect(r)
    \/ \E t \in Tables : EditStick(t)
    \/ \E list \in {<< >>} \cup {<< n >> : n \in Extra} : EditChannels(list)
    \/ \E index \in 0 .. 1 : Ask(index)
    \/ Look \/ Send \/ SendRefused \/ Answered \/ TimesOut
    \/ CastBegins \/ CastTook \/ CastMissed \/ CastEnds

Spec == Init /\ [][Next]_vars

-----------------------------------------------------------------------------
(* A direct message leaves on the band its addressee is on, whenever the   *)
(* addressee is where it had been heard last when the database answered    *)
(* and that radio is connected when the text leaves, whatever moved or was *)
(* unplugged in between.  Left out is one whose clock was set back,        *)
(* because MeshCore rows carry the sender's time.                          *)
LeavesWhereHeard ==
    (aired.via # None /\ aired.sure) => aired.via = aired.band

(* A text leaves on the channel it was written for, or not at all: a stick *)
(* whose channels are in another order is not sent the service's index.    *)
(* Left out are a list edited while the message was under way, and a stick *)
(* edited since it was connected.                                          *)
RightChannel ==
    (aired.via # None /\ aired.same) => aired.on = aired.wanted

(* A channel message that has ended was sent by every companion that was   *)
(* connected throughout and did not fail: one that hangs, or that is lost  *)
(* by a direct message timing out meanwhile, does not silence the others.  *)
CastReachesAll ==
    cast.at = "done" => cast.steady \subseteq cast.took
=============================================================================
