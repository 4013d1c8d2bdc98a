---------------------------- MODULE DeviceNames ----------------------------
(***************************************************************************)
(* The lists of attached radios and the names of the radios: MeshCore      *)
(* companions or Meshtastic sticks, as kind says.  A name is kept three    *)
(* times, in the radio's flash, in the configuration in memory and in      *)
(* local.yaml, and is written by the card that renames a radio, by the     *)
(* forms that replace the list or the first entry's port, and by the       *)
(* service itself when a radio connects.                                   *)
(*                                                                         *)
(* The sources are made from the list at start-up and not again.  An entry *)
(* and a source belong together by their label.                            *)
(***************************************************************************)
EXTENDS Integers, Sequences, SequencesExt, FiniteSets

CONSTANTS
    Labels,        \* labels of the entries
    Ports,         \* serial ports, each with a radio plugged in
    Names,         \* names an operator asks for
    Legacy,        \* the older, mesh-wide name: for the first companion only
    MaxRequests,   \* bound on renames and list changes
    MaxFaults,     \* bound on failed saves, refusals, lost cables and swapped radios
    MaxRestarts    \* bound on restarts

VARIABLES
    kind,          \* "companion" or "stick"
    list,          \* the list in memory: << [label, port, name], ... >>
    file,          \* the list in local.yaml
    sources,       \* the list the sources were made from
    at,            \* the port each source is connected at, or Nowhere
    wired,         \* the callbacks are set
    callback,      \* the callback of each source's connection
    rename,        \* the rename each source waits for, or NoRename
    flash,         \* the name in the radio at each port
    requests, faults, restarts,
    asked,         \* names asked for under each label
    behind,        \* sources a callback has not settled: none was set, it met a rename, or was refused
    refused        \* a list was taken into memory that could not be saved

vars == << kind, list, file, sources, at, wired, callback, rename, flash, requests, faults, restarts, asked, behind, refused >>

None == "none"
Auto == "auto"          \* a blank port: the library looks for a radio
Nowhere == "nowhere"
Factory == "factory"
NoRename == [name |-> None, took |-> FALSE]
Entries == [label : Labels, port : Ports \cup {Auto}, name : Names \cup {None}]

(* What an operator may submit: labels and ports are not repeated.         *)
Forms ==
    {<< >>} \cup {<< [label |-> l, port |-> p] >> : l \in Labels, p \in Ports \cup {Auto}}
    \cup {f \in [1 .. 2 -> [label : Labels, port : Ports \cup {Auto}]] :
            f[1].label # f[2].label /\ f[1].port # f[2].port}

LabelsOf(entries) == {entries[i].label : i \in DOMAIN entries}
EntryOf(entries, l) == SelectInSeq(entries, LAMBDA e : e.label = l)
NameOf(entries, l) == LET i == EntryOf(entries, l) IN IF i = 0 THEN None ELSE entries[i].name

(* Requests are served once the service has started.                       *)
Requested == wired /\ requests < MaxRequests /\ requests' = requests + 1

Fault == faults < MaxFaults /\ faults' = faults + 1

TypeOK ==
    /\ kind \in {"companion", "stick"}
    /\ \A entries \in {list, file, sources} : \A i \in DOMAIN entries : entries[i] \in Entries
    /\ at \in [Labels -> Ports \cup {Nowhere}]
    /\ wired \in BOOLEAN /\ callback \in [Labels -> {"idle", "due", "sent"}]
    /\ rename \in [Labels -> [name : Names \cup {None}, took : BOOLEAN]]
    /\ flash \in [Ports -> Names \cup {Factory, Legacy}]
    /\ requests \in 0 .. MaxRequests /\ faults \in 0 .. MaxFaults /\ restarts \in 0 .. MaxRestarts
    /\ asked \in [Labels -> SUBSET Names]
    /\ behind \subseteq Labels /\ refused \in BOOLEAN

Init ==
    /\ kind \in {"companion", "stick"}
    /\ \E f \in Forms :
         /\ \A i \in DOMAIN f : f[i].port # Auto
         /\ list = [i \in DOMAIN f |-> [label |-> f[i].label, port |-> f[i].port, name |-> None]]
    /\ file = list /\ sources = list
    /\ at = [l \in Labels |-> Nowhere]
    /\ wired = FALSE
    /\ callback = [l \in Labels |-> "idle"]
    /\ rename = [l \in Labels |-> NoRename]
    /\ flash = [p \in Ports |-> Factory]
    /\ requests = 0 /\ faults = 0 /\ restarts = 0
    /\ asked = [l \in Labels |-> {}]
    /\ behind = {} /\ refused = FALSE

(* save_section_to_yaml with the whole list, or its failure.               *)
Save(entries) ==
    \/ file' = entries /\ UNCHANGED faults
    \/ Fault /\ UNCHANGED file

-----------------------------------------------------------------------------
(* A source connects.  A stick is given the name it was made with; for a   *)
(* companion the callback is called, which looks the name up when it comes *)
(* to it, the channels having been synchronized first.  The sources start  *)
(* before the callbacks are set, so a companion that is there from the     *)
(* beginning connects without one.                                         *)

Connect(l, p) ==
    LET i == EntryOf(sources, l) IN
    /\ i # 0 /\ at[l] = Nowhere
    /\ p \in (IF sources[i].port = Auto THEN Ports ELSE {sources[i].port})
    /\ \A m \in Labels : at[m] # p
    /\ at' = [at EXCEPT ![l] = p]
    /\ IF kind = "companion"
       THEN /\ callback' = [callback EXCEPT ![l] = IF wired THEN "due" ELSE "idle"]
            /\ behind' = IF wired THEN behind ELSE behind \cup {l}
            /\ UNCHANGED flash
       ELSE /\ UNCHANGED << callback, behind >>
            /\ flash' = [flash EXCEPT ![p] = IF sources[i].name = None THEN @ ELSE sources[i].name]
    /\ UNCHANGED << kind, list, file, sources, wired, rename, requests, faults, restarts, asked, refused >>

(* _build_tx_service, after the pipeline has started.                      *)
Wire ==
    /\ ~ wired /\ wired' = TRUE
    /\ UNCHANGED << kind, list, file, sources, at, callback, rename, flash, requests, faults, restarts, asked, behind, refused >>

(* _desired_companion_name.                                                *)
Desired(l) ==
    IF NameOf(list, l) # None THEN NameOf(list, l)
    ELSE IF sources[1].label = l THEN Legacy ELSE None

(* _reapply_companion_name sends the name, if there is one.                *)
Reapply(l) ==
    /\ callback[l] = "due" /\ at[l] # Nowhere
    /\ IF Desired(l) = None
       THEN callback' = [callback EXCEPT ![l] = "idle"] /\ UNCHANGED << flash, behind >>
       ELSE /\ callback' = [callback EXCEPT ![l] = "sent"]
            /\ flash' = [flash EXCEPT ![at[l]] = Desired(l)]
            /\ behind' = IF rename[l] # NoRename THEN behind \cup {l} ELSE behind \ {l}
    /\ UNCHANGED << kind, wired, list, file, sources, at, rename, requests, faults, restarts, asked, refused >>

(* The companion refuses the name, which is logged and no more.            *)
ReapplyRefused(l) ==
    /\ callback[l] = "due" /\ at[l] # Nowhere /\ Desired(l) # None /\ Fault
    /\ callback' = [callback EXCEPT ![l] = "sent"]
    /\ behind' = behind \cup {l}
    /\ UNCHANGED << kind, wired, list, file, sources, at, rename, flash, requests, restarts, asked, refused >>

ReapplyAnswered(l) ==
    /\ callback[l] = "sent"
    /\ callback' = [callback EXCEPT ![l] = "idle"]
    /\ UNCHANGED << kind, wired, list, file, sources, at, rename, flash, requests, faults, restarts, asked, behind, refused >>

(* The cable, or a timeout that made the source connect anew: whatever was *)
(* waiting on the connection fails.                                        *)
Drops(l) ==
    /\ at' = [at EXCEPT ![l] = Nowhere]
    /\ callback' = [callback EXCEPT ![l] = "idle"]
    /\ rename' = [rename EXCEPT ![l] = NoRename]

Disconnect(l) ==
    /\ kind = "companion" /\ at[l] # Nowhere /\ Fault
    /\ Drops(l)
    /\ UNCHANGED << kind, wired, list, file, sources, flash, requests, restarts, asked, behind, refused >>

(* Another radio is plugged in where none is connected.                    *)
SwapRadio(p) ==
    /\ Fault /\ \A l \in Labels : at[l] # p
    /\ flash' = [flash EXCEPT ![p] = Factory]
    /\ UNCHANGED << kind, wired, list, file, sources, at, callback, rename, requests, restarts, asked, behind, refused >>

-----------------------------------------------------------------------------
(* Renaming one radio.                                                     *)

(* _persist_companion_name and _persist_serial_identity: the entry with    *)
(* the label, if the list still has one.                                   *)
Persisted(l, name) ==
    LET i == EntryOf(list, l) IN IF i = 0 THEN list ELSE [list EXCEPT ![i].name = name]

Persist(l, name) ==
    /\ list' = Persisted(l, name)
    /\ IF l \in LabelsOf(list) THEN Save(list') ELSE UNCHANGED << file, faults >>

(* update_serial_identity: set_owner does not wait for the stick.          *)
RenameStick(l, name) ==
    /\ kind = "stick" /\ at[l] # Nowhere /\ Requested
    /\ flash' = [flash EXCEPT ![at[l]] = name]
    /\ asked' = [asked EXCEPT ![l] = @ \cup {name}]
    /\ Persist(l, name)
    /\ UNCHANGED << kind, wired, sources, at, callback, rename, restarts, behind, refused >>

(* update_companion_name up to the await: the companion takes the name or  *)
(* not.                                                                    *)
RenameCompanion(l, name, took) ==
    /\ kind = "companion" /\ at[l] # Nowhere /\ rename[l] = NoRename /\ Requested
    /\ rename' = [rename EXCEPT ![l] = [name |-> name, took |-> took]]
    /\ flash' = IF took THEN [flash EXCEPT ![at[l]] = name] ELSE flash
    /\ asked' = [asked EXCEPT ![l] = @ \cup {name}]
    /\ UNCHANGED << kind, wired, list, file, sources, at, callback, faults, restarts, behind, refused >>

RenameAnswered(l) ==
    /\ rename[l].took
    /\ Persist(l, rename[l].name)
    /\ rename' = [rename EXCEPT ![l] = NoRename]
    /\ UNCHANGED << kind, wired, sources, at, callback, flash, requests, restarts, asked, behind, refused >>

RenameRejected(l) ==
    /\ rename[l] # NoRename /\ ~ rename[l].took
    /\ rename' = [rename EXCEPT ![l] = NoRename]
    /\ UNCHANGED << kind, wired, list, file, sources, at, callback, flash, requests, faults, restarts, asked, behind, refused >>

(* The answer does not come, though the companion may have the name.       *)
RenameTimesOut(l) ==
    /\ rename[l] # NoRename
    /\ Drops(l)
    /\ UNCHANGED << kind, wired, list, file, sources, flash, requests, faults, restarts, asked, behind, refused >>

-----------------------------------------------------------------------------
(* Changing the list.  Memory changes first; a save that fails answers 403 *)
(* and leaves it changed.                                                  *)

SavedList ==
    Save(list') /\ refused' = (refused \/ file' # list')

(* The names of the old list are kept by label.                            *)
NewList(form) == [i \in DOMAIN form |-> [label |-> form[i].label, port |-> form[i].port, name |-> NameOf(list, form[i].label)]]

(* update_serial_devices drops blank ports from a list of several; ports   *)
(* are not repeated, so of two entries at most one is dropped.             *)
Accepted(form) ==
    IF kind = "stick" /\ Len(form) > 1 /\ \E i \in DOMAIN form : form[i].port = Auto
      THEN [j \in 1 .. 1 |-> form[CHOOSE i \in DOMAIN form : form[i].port # Auto]]
      ELSE form

ReplaceList(form) ==
    /\ Requested
    /\ list' = NewList(Accepted(form))
    /\ SavedList
    /\ UNCHANGED << kind, wired, sources, at, callback, rename, flash, restarts, asked, behind >>

(* update_meshcore_usb: the port of the first entry.                       *)
UpdateFirst(port) ==
    /\ kind = "companion" /\ list # << >> /\ Requested
    /\ \A i \in DOMAIN list : list[i].port # port
    /\ list' = [list EXCEPT ![1].port = port]
    /\ SavedList
    /\ UNCHANGED << kind, wired, sources, at, callback, rename, flash, restarts, asked, behind >>

Restart ==
    /\ restarts < MaxRestarts /\ restarts' = restarts + 1
    /\ list' = file /\ sources' = file
    /\ at' = [l \in Labels |-> Nowhere]
    /\ wired' = FALSE
    /\ callback' = [l \in Labels |-> "idle"]
    /\ rename' = [l \in Labels |-> NoRename]
    /\ behind' = {} /\ refused' = FALSE
    /\ UNCHANGED << kind, file, flash, requests, faults, asked >>

Next ==
    \/ \E l \in Labels :
         \/ \E p \in Ports : Connect(l, p)
         \/ Reapply(l) \/ ReapplyRefused(l) \/ ReapplyAnswered(l) \/ Disconnect(l)
         \/ \E name \in Names :
              \/ RenameStick(l, name)
              \/ \E took \in BOOLEAN : RenameCompanion(l, name, took)
         \/ RenameAnswered(l) \/ RenameRejected(l) \/ RenameTimesOut(l)
    \/ \E p \in Ports : SwapRadio(p)
    \/ \E form \in Forms : ReplaceList(form)
    \/ \E p \in Ports \cup {Auto} : UpdateFirst(p)
    \/ Wire \/ Restart

Spec == Init /\ [][Next]_vars

-----------------------------------------------------------------------------
(* No entry, in memory or in local.yaml, carries a name that was not asked *)
(* for under its own label, however renames, new lists and restarts        *)
(* follow each other: renaming one radio never renames another's entry.    *)
NamesByLabel ==
    \A entries \in {list, file} : \A i \in DOMAIN entries :
        entries[i].name \in asked[entries[i].label] \cup {None}

(* A label that stays in local.yaml keeps a name there: neither form, which *)
(* know nothing of names, nor the rename of another radio wipes it, unless *)
(* memory has gone ahead of the file by a list that could not be saved.    *)
NamesKept ==
    [][~ refused =>
         \A l \in LabelsOf(file) \cap LabelsOf(file') : NameOf(file, l) # None => NameOf(file', l) # None]_file

(* A connected companion whose callback has run bears the name of its      *)
(* entry: one that was reflashed or swapped, or took a name whose answer   *)
(* was lost, is brought back to it.  Left out are a connection made before *)
(* the callbacks were set, a callback the companion refused, and one that  *)
(* overtook a rename in progress and left the older name behind.           *)
NameApplied ==
    kind = "companion" =>
        \A l \in Labels \ behind :
            (at[l] # Nowhere /\ callback[l] # "due" /\ rename[l] = NoRename /\ NameOf(list, l) # None)
                => flash[at[l]] = NameOf(list, l)
=============================================================================
