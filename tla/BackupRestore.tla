---------------------------- MODULE BackupRestore ----------------------------
(***************************************************************************)
(* Backup and restore: BackupArchiveBuilder (src/backup/archive_builder.py)*)
(* which runs in a thread of the live service, the restore request         *)
(* (src/api/routes/backup_routes.py, src/backup/restore_service.py), and   *)
(* scripts/restore_finish.sh, which runs in a unit of its own.             *)
(*                                                                         *)
(* Nothing keeps two restores apart: each stops the service, stashes what  *)
(* is there, replaces it and starts the service.  The content of a file is *)
(* abstracted to the number of the write that made it.                     *)
(***************************************************************************)
EXTENDS Integers, FiniteSets

CONSTANTS
    Restores,     \* restore requests
    MaxWrites,    \* bound: writes of the running service
    MaxBackups    \* bound: archives built

VARIABLES
    live,         \* content of each file below config/ and data/
    journal,      \* the database has a journal next to it
    service,      \* the service runs
    build,        \* the archive being built, and how far
    archives,     \* archives an operator holds
    script,       \* per restore: where restore_finish.sh is
    input, stash, \* per restore: the archive, and the copy of what it replaced
    todo,         \* per restore: data files still to be copied
    crossed,      \* two scripts were under way together, or the stop failed
    failed,       \* a script ended in its error trap
    lost,         \* a file was deleted of which no stash has a copy
    writes, backups

bvars == << live, journal, service, build, archives, script, input, stash, todo, crossed,
            failed, lost, writes, backups >>

Data == {"database", "other"}
Files == {"config"} \cup Data
Gone == -1
Nothing == [f \in Files |-> Gone]

Init ==
    /\ live = [f \in Files |-> IF f = "other" THEN Gone ELSE 0]
    /\ journal = FALSE /\ service = TRUE
    /\ build = [stage |-> "idle", copy |-> Nothing] /\ archives = {}
    /\ script = [r \in Restores |-> "none"]
    /\ input = [r \in Restores |-> Nothing] /\ stash = [r \in Restores |-> Nothing]
    /\ todo = [r \in Restores |-> {}]
    /\ crossed = FALSE /\ failed = FALSE /\ lost = FALSE /\ writes = 0 /\ backups = 0

Running(r) == script[r] \notin {"none", "done"}

-----------------------------------------------------------------------------
(* The service saves its settings, its database or another file.           *)
ServiceWrites ==
    /\ service /\ writes < MaxWrites
    /\ writes' = writes + 1
    /\ \E f \in Files : /\ live' = [live EXCEPT ![f] = writes']
                        /\ journal' = (journal \/ f = "database")
    /\ UNCHANGED << service, build, archives, script, input, stash, todo, crossed, failed, lost,
                    backups >>

(* build(): the settings, then the files of data/ (the database as one     *)
(* consistent snapshot, its journal left out), then the archive.           *)
AddLocalConfig ==
    /\ service /\ build.stage = "idle" /\ backups < MaxBackups /\ live["config"] # Gone
    /\ build' = [stage |-> "data", copy |-> [Nothing EXCEPT !["config"] = live["config"]]]
    /\ UNCHANGED << live, journal, service, archives, script, input, stash, todo, crossed,
                    failed, lost, writes, backups >>

AddDataTree ==
    /\ build.stage = "data"
    /\ build' = [stage |-> "idle", copy |-> Nothing]
    /\ archives' = archives \cup {[f \in Files |-> IF f \in Data THEN live[f] ELSE build.copy[f]]}
    /\ backups' = backups + 1
    /\ UNCHANGED << live, journal, service, script, input, stash, todo, crossed, failed, lost,
                    writes >>

-----------------------------------------------------------------------------
(* restore_backup: an archive that passes validation is saved and the      *)
(* script launched.                                                        *)
LaunchRestore(r) ==
    /\ service /\ script[r] = "none"
    /\ \E a \in archives : input' = [input EXCEPT ![r] = a]
    /\ script' = [script EXCEPT ![r] = "stop"]
    /\ crossed' = (crossed \/ \E q \in Restores : Running(q))
    /\ UNCHANGED << live, journal, service, build, archives, stash, todo, failed, lost, writes,
                    backups >>

(* systemctl stop, which may fail and is not looked at; a build under way  *)
(* ends with the service.                                                  *)
StopService(r) ==
    /\ script[r] = "stop"
    /\ script' = [script EXCEPT ![r] = "stash"]
    /\ \/ /\ service' = FALSE
          /\ build' = [stage |-> "idle", copy |-> Nothing]
          /\ UNCHANGED crossed
       \/ /\ crossed' = TRUE
          /\ UNCHANGED << service, build >>
    /\ UNCHANGED << live, journal, archives, input, stash, todo, failed, lost, writes, backups >>

Stash(r) ==
    /\ script[r] = "stash"
    /\ stash' = [stash EXCEPT ![r] = live]
    /\ script' = [script EXCEPT ![r] = "config"]
    /\ UNCHANGED << live, journal, service, build, archives, input, todo, crossed, failed, lost,
                    writes, backups >>

(* A file is about to be replaced or removed.                              *)
Unstashed(f) == live[f] # Gone /\ \A r \in Restores : stash[r][f] # live[f] /\ input[r][f] # live[f]

ApplyConfig(r) ==
    /\ script[r] = "config"
    /\ live' = [live EXCEPT !["config"] = input[r]["config"]]
    /\ lost' = (lost \/ Unstashed("config"))
    /\ script' = [script EXCEPT ![r] = "clear"]
    /\ UNCHANGED << journal, service, build, archives, input, stash, todo, crossed, failed,
                    writes, backups >>

(* _clear_live_data_tree, the journal included.                            *)
ClearLiveDataTree(r) ==
    /\ script[r] = "clear"
    /\ live' = [f \in Files |-> IF f \in Data THEN Gone ELSE live[f]]
    /\ journal' = FALSE
    /\ lost' = (lost \/ \E f \in Data : Unstashed(f))
    /\ todo' = [todo EXCEPT ![r] = {f \in Data : input[r][f] # Gone}]
    /\ script' = [script EXCEPT ![r] = "copy"]
    /\ UNCHANGED << service, build, archives, input, stash, crossed, failed, writes, backups >>

(* Each file of the archive; a journal next to a database goes.            *)
CopyFile(r) ==
    /\ script[r] = "copy"
    /\ \E f \in todo[r] :
        /\ live' = [live EXCEPT ![f] = input[r][f]]
        /\ lost' = (lost \/ Unstashed(f))
        /\ journal' = (journal /\ f # "database")
        /\ todo' = [todo EXCEPT ![r] = @ \ {f}]
    /\ UNCHANGED << service, build, archives, script, input, stash, crossed, failed, writes,
                    backups >>

StartService(r) ==
    /\ script[r] = "copy" /\ todo[r] = {}
    /\ service' = TRUE
    /\ script' = [script EXCEPT ![r] = "done"]
    /\ UNCHANGED << live, journal, build, archives, input, stash, todo, crossed, failed, lost,
                    writes, backups >>

(* The ERR trap, which functions inherit: the service is started on        *)
(* whatever is there, and the script ends.                                 *)
OnError(r) ==
    /\ script[r] \in {"stash", "config", "clear", "copy"}
    /\ service' = TRUE
    /\ script' = [script EXCEPT ![r] = "done"] /\ failed' = TRUE
    /\ UNCHANGED << live, journal, build, archives, input, stash, todo, crossed, lost, writes,
                    backups >>

ScriptStep(r) ==
    \/ StopService(r) \/ Stash(r) \/ ApplyConfig(r) \/ ClearLiveDataTree(r)
    \/ CopyFile(r) \/ StartService(r) \/ OnError(r)

Next ==
    \/ ServiceWrites \/ AddLocalConfig \/ AddDataTree
    \/ \E r \in Restores : LaunchRestore(r) \/ ScriptStep(r)

(* The script's unit runs on whatever happens to the service.              *)
Fairness == \A r \in Restores : WF_bvars(ScriptStep(r))

Spec == Init /\ [][Next]_bvars /\ Fairness

-----------------------------------------------------------------------------
Content == [Files -> Gone .. MaxWrites]

TypeOK ==
    /\ live \in Content /\ archives \subseteq Content /\ build.copy \in Content
    /\ build.stage \in {"idle", "data"} /\ journal \in BOOLEAN /\ service \in BOOLEAN
    /\ script \in [Restores -> {"none", "stop", "stash", "config", "clear", "copy", "done"}]
    /\ input \in [Restores -> Content] /\ stash \in [Restores -> Content]
    /\ todo \in [Restores -> SUBSET Data]
    /\ crossed \in BOOLEAN /\ failed \in BOOLEAN /\ lost \in BOOLEAN
    /\ writes \in 0 .. MaxWrites /\ backups \in 0 .. MaxBackups

(* No restore, complete or not, destroys a file of which neither a stash   *)
(* nor the archive has a copy, unless two restores cross or the service    *)
(* could not be stopped.                                                   *)
NothingLost == lost => crossed

(* A restore that went through leaves the files of its archive and no      *)
(* others, and no journal beside the restored database, until the service  *)
(* writes again.                                                           *)
RestoredIsArchive ==
    \A r \in Restores :
        script[r] = "copy" /\ todo[r] = {} /\ ~crossed => live = input[r] /\ ~journal

(* The service is never down for good: it comes back after every restore,  *)
(* also one that fails and ones that cross.                                *)
ServiceBack == []<>service
==============================================================================
