------------------------------- MODULE Plugins -------------------------------
(***************************************************************************)
(* App plugins: src/plugins/{loader,installer}.py and the routes that      *)
(* enable, delete and install them (src/api/routes/plugin_routes.py and    *)
(* plugin_source_routes.py).  A request is one step on the event loop but  *)
(* for an installation, whose files are moved by a worker thread.  The     *)
(* plugin folders and the plugins section of local.yaml survive a restart. *)
(***************************************************************************)
EXTENDS Integers, FiniteSets

CONSTANTS
    Apps,        \* plugin ids
    Builtin,     \* those shipped with Meshpoint
    Offered,     \* those a plugin source has in its catalog
    Requires,    \* what each needs enabled first (hook or requires), or None
    Installers,  \* installations, which may overlap
    Versions,    \* versions the source has had
    MaxChanges,  \* bound: requests other than installations
    MaxBoots,    \* bound: restarts
    MaxRefusals  \* bound: saves that fail

VARIABLES
    folder,    \* the version in an app's folder, None without one
    aside,     \* the version in <id>.replacing
    conf,      \* config.plugins
    confDisk,  \* the same in local.yaml
    install,   \* where each installation is
    changes, boots, refusals,
    \* history: apps the operator enabled since they were first installed;
    \* apps whose dependency was deleted, or disabled while an update had
    \* them aside; whether an enabling could not be saved; apps two
    \* installations met at; installations that were cut off; entries left
    \* in the file
    wanted, orphaned, refused, crossed, cutOff, stray

vars == << folder, aside, conf, confDisk, install, changes, boots,
           refusals, wanted, orphaned, refused, crossed, cutOff, stray >>

None == "none"
Idle == [at |-> "idle", app |-> None, version |-> None]
Over == [Idle EXCEPT !.at = "over"]

(* No entry: built-ins are enabled, drop-ins are not.                      *)
Unset(a) == [enabled |-> a \in Builtin, source |-> None]

Init ==
    /\ folder = [a \in Apps |-> "shipped"]
    /\ aside = [a \in Apps |-> None]
    /\ conf = [a \in Apps |-> Unset(a)] /\ confDisk = conf
    /\ install = [i \in Installers |-> Idle]
    /\ changes = 0 /\ boots = 0 /\ refusals = 0
    /\ wanted = {} /\ orphaned = {} /\ crossed = {} /\ cutOff = {}
    /\ stray = {} /\ refused = FALSE

Found == {a \in Apps : folder[a] # None}
IsEnabled(c, a) == c[a].enabled

(* What the dependency resolves to among the installed plugins.            *)
DependencyTarget(a) == Requires[a]

(* local.yaml can be written, or not.                                      *)
Save(ok) ==
    /\ ok \/ refusals < MaxRefusals
    /\ refusals' = IF ok THEN refusals ELSE refusals + 1

Request == changes < MaxChanges /\ changes' = changes + 1

-----------------------------------------------------------------------------
(* Enable and disable.                                                     *)

CascadeDirect(c, a) ==
    {a} \cup {b \in Found : c[b].enabled /\ Requires[b] = a}

(* A plugin and the enabled ones that depend on it, however far: the least *)
(* set with the plugin that the loop over the frontier does not extend.    *)
CascadeDisable(c, a) ==
    LET on == {b \in Found : c[b].enabled}
        Settled(S) == a \in S /\ \A b \in on : DependencyTarget(b) \in S => b \in S
    IN  {b \in Apps : \A S \in SUBSET Apps : Settled(S) => b \in S}

(* An enabled dependency is needed; memory first, then the file, which may *)
(* refuse: then 403 with memory changed.                                   *)
Enable(a, saved) ==
    /\ Request /\ Save(saved) /\ a \in Found
    /\ Requires[a] # None =>
          /\ DependencyTarget(a) \in Found
          /\ IsEnabled(conf, DependencyTarget(a))
    /\ conf' = [conf EXCEPT ![a].enabled = TRUE]
    /\ confDisk' = IF saved THEN [confDisk EXCEPT ![a] = conf'[a]]
                   ELSE confDisk
    /\ wanted' = wanted \cup {a}
    /\ orphaned' = orphaned \ {a}
    /\ refused' = (refused \/ ~saved)
    /\ UNCHANGED << folder, aside, install, boots, crossed, cutOff,
                    stray >>

(* Each one of the cascade is saved by itself; the first that cannot be    *)
(* saved is off in memory only, and those after it stay on.  A plugin that *)
(* an update has just set aside is not among those found, and stays on.    *)
Disable(a, saves) ==
    LET off == CascadeDisable(conf, a)
    IN  /\ Request /\ a \in Found
        /\ saves \subseteq off /\ Save(saves = off)
        /\ \E last \in off :
              LET touched == IF saves = off THEN off ELSE saves \cup {last}
              IN  /\ a \in touched
                  /\ conf' = [b \in Apps |->
                        IF b \in touched
                        THEN [conf[b] EXCEPT !.enabled = FALSE] ELSE conf[b]]
                  /\ confDisk' = [b \in Apps |->
                        IF b \in saves THEN conf'[b] ELSE confDisk[b]]
        /\ refused' = (refused \/ saves # off)
        /\ orphaned' = orphaned \cup
              {b \in Apps \ Found : conf[b].enabled /\ Requires[b] \in off}
        /\ UNCHANGED << folder, aside, install, boots, wanted,
                        crossed, cutOff, stray >>

-----------------------------------------------------------------------------
(* Delete and install.                                                     *)

(* The folder goes, and its entry; nothing happens to the plugins that     *)
(* need it.  A file that cannot be written keeps the entry.                *)
Delete(a, saved) ==
    /\ Request /\ Save(saved) /\ a \in Found \ Builtin
    /\ folder' = [folder EXCEPT ![a] = None]
    /\ conf' = [conf EXCEPT ![a] = Unset(a)]
    /\ confDisk' = IF saved THEN [confDisk EXCEPT ![a] = Unset(a)]
                   ELSE confDisk
    /\ stray' = IF saved THEN stray \ {a} ELSE stray \cup {a}
    /\ wanted' = wanted \ {a}
    /\ orphaned' = orphaned \cup {b \in Apps : Requires[b] = a}
    /\ UNCHANGED << aside, install, boots, refused, crossed, cutOff >>

(* The checks of the route, the download and the manifest's validation.    *)
InstallBegins(i, a, v) ==
    /\ install[i].at = "idle" /\ a \in Offered \ Builtin
    /\ install' = [install EXCEPT ![i] =
                      [at |-> "staged", app |-> a, version |-> v]]
    /\ crossed' = IF \E j \in Installers : install[j].app = a
                  THEN crossed \cup {a} ELSE crossed
    /\ UNCHANGED << refusals, folder, aside, conf, confDisk, changes, boots,
                    wanted, orphaned, refused, cutOff, stray >>

(* place: the folder in the way is renamed, over what an earlier one left. *)
MoveAside(i) ==
    LET a == install[i].app
    IN  /\ install[i].at = "staged"
        /\ IF folder[a] # None
           THEN /\ aside' = [aside EXCEPT ![a] = folder[a]]
                /\ folder' = [folder EXCEPT ![a] = None]
                /\ install' = [install EXCEPT ![i].at = "aside"]
           ELSE /\ install' = [install EXCEPT ![i].at = "clear"]
                /\ UNCHANGED << aside, folder >>
        /\ UNCHANGED << refusals, conf, confDisk, changes, boots, wanted,
                        orphaned, refused, crossed, cutOff, stray >>

(* The new folder is moved in, or into the one another installation has    *)
(* put there meanwhile.                                                    *)
MoveIn(i) ==
    LET a == install[i].app
    IN  /\ install[i].at \in {"aside", "clear"}
        /\ folder' = IF folder[a] = None
                     THEN [folder EXCEPT ![a] = install[i].version]
                     ELSE folder
        /\ aside' = IF install[i].at = "aside"
                    THEN [aside EXCEPT ![a] = None] ELSE aside
        /\ install' = [install EXCEPT ![i].at = "placed"]
        /\ UNCHANGED << refusals, conf, confDisk, changes, boots, wanted,
                        orphaned, refused, crossed, cutOff, stray >>

(* It cannot be moved: the folder set aside comes back, if the place is    *)
(* still free and it is still there.                                       *)
MoveFails(i) ==
    LET a == install[i].app
        back == install[i].at = "aside" /\ folder[a] = None
    IN  /\ install[i].at \in {"aside", "clear"}
        /\ folder' = IF back THEN [folder EXCEPT ![a] = aside[a]] ELSE folder
        /\ aside' = IF back THEN [aside EXCEPT ![a] = None] ELSE aside
        /\ install' = [install EXCEPT ![i] = Over]
        /\ UNCHANGED << refusals, conf, confDisk, changes, boots, wanted,
                        orphaned, refused, crossed, cutOff, stray >>

(* Back on the event loop: where the folder came from, in memory and, if   *)
(* it can be written, in the file.                                         *)
RecordProvenance(i, saved) ==
    LET a == install[i].app
    IN  /\ install[i].at = "placed" /\ Save(saved)
        /\ conf' = [conf EXCEPT ![a].source = install[i].version]
        /\ confDisk' = IF saved THEN [confDisk EXCEPT ![a] = conf'[a]]
                       ELSE confDisk
        /\ cutOff' = IF saved THEN cutOff ELSE cutOff \cup {a}
        /\ install' = [install EXCEPT ![i] = Over]
        /\ UNCHANGED << folder, aside, changes, boots, wanted,
                        orphaned, refused, crossed, stray >>

(* The service starts again from the file and the folders; installations   *)
(* under way end where they are.                                           *)
Restart ==
    /\ boots < MaxBoots /\ boots' = boots + 1
    /\ conf' = confDisk
    /\ cutOff' = cutOff \cup
          {install[i].app : i \in {j \in Installers :
                                install[j].at \in {"aside", "placed"}}}
    /\ install' = [i \in Installers |->
                    IF install[i] = Idle THEN Idle ELSE Over]
    /\ UNCHANGED << refusals, folder, aside, confDisk, changes, wanted,
                    orphaned, refused, crossed, stray >>

InstallStep(i) ==
    \/ MoveAside(i) \/ MoveIn(i) \/ MoveFails(i)
    \/ \E saved \in BOOLEAN : RecordProvenance(i, saved)

Next ==
    \/ \E a \in Apps, saved \in BOOLEAN : Enable(a, saved) \/ Delete(a, saved)
    \/ \E a \in Apps : \E saves \in SUBSET Apps : Disable(a, saves)
    \/ \E i \in Installers, a \in Apps, v \in Versions :
          InstallBegins(i, a, v)
    \/ \E i \in Installers : InstallStep(i)
    \/ Restart

Spec == Init /\ [][Next]_vars

-----------------------------------------------------------------------------
Contents == Versions \cup {"shipped"}
Entries == [enabled : BOOLEAN, source : Versions \cup {None}]

(* Types of the folders, the entries and the installations.                *)
TypeOK ==
    /\ folder \in [Apps -> Contents \cup {None}]
    /\ aside \in [Apps -> Contents \cup {None}]
    /\ conf \in [Apps -> Entries] /\ confDisk \in [Apps -> Entries]
    /\ \A i \in Installers :
          install[i].at \in
             {"idle", "over", "staged", "aside", "clear", "placed"}
    /\ changes \in 0 .. MaxChanges /\ boots \in 0 .. MaxBoots
    /\ refusals \in 0 .. MaxRefusals
    /\ refused \in BOOLEAN
    /\ {wanted, orphaned, crossed, cutOff, stray} \subseteq SUBSET Apps

(* An enabled plugin has what it requires, in memory and after a restart,  *)
(* unless that was deleted, was disabled while an update had the plugin    *)
(* aside, or a save failed on the way (a deleted entry's too).            *)
DependencyMet ==
    ~refused => \A a \in Found \ (orphaned \cup stray) :
        Requires[a] # None =>
            /\ conf[a].enabled => conf[Requires[a]].enabled
            /\ confDisk[a].enabled => confDisk[Requires[a]].enabled

(* An installed plugin stays disabled until the operator enables it, also  *)
(* one that was enabled before it was deleted, unless its entry could not  *)
(* be taken out of the file.                                               *)
StaysDisabled ==
    \A a \in Found \ (Builtin \cup stray) : conf[a].enabled => a \in wanted

(* A failed update leaves a plugin in place: its folder is missing only    *)
(* while an installation is between the two moves.  Exceptions: a restart  *)
(* in that moment, and two installations of it at once.                    *)
UpdateKeeps ==
    \A a \in Apps \ (crossed \cup cutOff) :
        (folder[a] = None /\ aside[a] # None) =>
            \E i \in Installers :
                install[i].at = "aside" /\ install[i].app = a

(* The source entry names the version in the folder, once an installation  *)
(* is over, with the same exceptions and that of an unwritable file.       *)
ProvenanceTrue ==
    \A a \in Found \ (crossed \cup cutOff \cup stray) :
        (conf[a].source # None /\ \A i \in Installers : install[i].app # a)
            => conf[a].source = folder[a]
=============================================================================
