---------------------------- MODULE SoftwareUpdate ---------------------------
(***************************************************************************)
(* Update and rollback from the dashboard: UpdateApplier                   *)
(* (src/api/update/apply.py) behind the streaming routes of                *)
(* src/api/routes/update_routes.py, the rollback pointer                   *)
(* (src/api/update/rollback_state.py), the detached script                 *)
(* scripts/apply_finish.sh and the update check.                           *)
(*                                                                         *)
(* A chain runs in an executor thread and no lock keeps two of them apart. *)
(* The script runs in the service's control group: whatever restarts the   *)
(* service ends every chain and every script that is still running.        *)
(***************************************************************************)
EXTENDS Integers, FiniteSets

CONSTANTS
    Branches, First,   \* the branches of the remote and the one installed first
    Requests,          \* apply or rollback requests an operator may make
    MaxPushes,         \* bound: commits pushed to the remote
    MaxRestarts        \* bound: restarts that no script asked for

VARIABLES
    remote, fetched, local, \* per branch: its head at the remote, in origin/, in the tree
    head,              \* the branch that is checked out
    point,             \* the rollback pointer on disk
    chain,             \* per request: what it wants, where it is, what HEAD was
    script,            \* per request: where its apply_finish.sh is
    prepared,          \* the commit whose requirements and migrations were last applied
    serving,           \* the commit the service process was started from
    served, unproven, goal, excused, pushes, stops

uvars == << remote, fetched, local, head, point, chain, script, prepared, serving,
            served, unproven, goal, excused, pushes, stops >>

None == << "none", 0 >>
Commits == Branches \X (0 .. MaxPushes)
Tree == local[head]
Idle == [stage |-> "idle", want |-> None, pre |-> None]
Known == {None} \cup Commits
Active(r) == chain[r].stage \notin {"idle", "ended", "failed"}
Moving(r) == chain[r].stage \in {"checked out", "moved", "scheduled"}

Init ==
    /\ remote = [b \in Branches |-> << b, 0 >>] /\ fetched = remote /\ local = remote
    /\ head = First /\ point = None
    /\ chain = [r \in Requests |-> Idle] /\ script = [r \in Requests |-> "none"]
    /\ prepared = Tree /\ serving = Tree
    /\ served = {Tree} /\ unproven = {} /\ goal = Tree /\ excused = FALSE
    /\ pushes = 0 /\ stops = 0

-----------------------------------------------------------------------------
(* The operator asks for a branch.  apply() captures HEAD and writes it to *)
(* the pointer before it touches the tree; a failed write is logged and    *)
(* stops nothing.                                                          *)
CaptureHead(r) ==
    /\ chain[r].stage = "idle"
    /\ \E b \in Branches :
        /\ chain' = [chain EXCEPT ![r] = [stage |-> "saved", want |-> << b, -1 >>, pre |-> Tree]]
        /\ point' \in {point, Tree}
    /\ unproven' = unproven \cup ({Tree} \ {serving})
    /\ UNCHANGED << remote, fetched, local, head, script, prepared, serving,
                    served, goal, excused, pushes, stops >>

Fetch(r) ==
    LET b == chain[r].want[1] IN
    /\ chain[r].stage = "saved"
    /\ \/ /\ fetched' = [fetched EXCEPT ![b] = remote[b]]
          /\ chain' = [chain EXCEPT ![r].stage = "fetched"]
       \/ /\ chain' = [chain EXCEPT ![r].stage = "ended"]
          /\ UNCHANGED fetched
    /\ UNCHANGED << remote, local, head, point, script, prepared, serving,
                    served, unproven, goal, excused, pushes, stops >>

(* git checkout -f: HEAD goes to the local branch, wherever that is.       *)
Checkout(r) ==
    /\ chain[r].stage = "fetched"
    /\ \/ /\ head' = chain[r].want[1]
          /\ chain' = [chain EXCEPT ![r].stage = "checked out"]
       \/ /\ chain' = [chain EXCEPT ![r].stage = "ended"]
          /\ UNCHANGED head
    /\ UNCHANGED << remote, fetched, local, point, script, prepared, serving,
                    served, unproven, goal, excused, pushes, stops >>

(* git reset --hard origin/<branch> of an apply.  A chain that fails here  *)
(* leaves the tree where the checkout put it.                              *)
ResetHard(r) ==
    /\ chain[r].stage = "checked out"
    /\ \/ /\ local' = [local EXCEPT ![head] = fetched[chain[r].want[1]]]
          /\ goal' = local'[head]
          /\ chain' = [chain EXCEPT ![r].stage = "moved"]
          /\ UNCHANGED excused
       \/ /\ chain' = [chain EXCEPT ![r].stage = "failed"]
          /\ excused' = TRUE
          /\ UNCHANGED << local, goal >>
    /\ UNCHANGED << remote, fetched, head, point, script, prepared, serving,
                    served, unproven, pushes, stops >>

(* rollback(): the commit the dashboard was told of becomes the head of    *)
(* the branch that is checked out.                                         *)
Rollback(r) ==
    /\ chain[r].stage = "idle" /\ point # None
    /\ local' = [local EXCEPT ![head] = point]
    /\ goal' = point
    /\ chain' = [chain EXCEPT ![r] = [stage |-> "moved", want |-> point, pre |-> point]]
    /\ UNCHANGED << remote, fetched, head, point, script, prepared, serving,
                    served, unproven, excused, pushes, stops >>

(* The detached step: it reports success once the script was started.      *)
Schedule(r) ==
    /\ chain[r].stage = "moved"
    /\ chain' = [chain EXCEPT ![r].stage = "scheduled"]
    /\ script' = [script EXCEPT ![r] = "prepare"]
    /\ excused' = (excused \/ \E q \in Requests \ {r} : Moving(q) \/ script[q] # "none")
    /\ UNCHANGED << remote, fetched, local, head, point, prepared, serving,
                    served, unproven, goal, pushes, stops >>

(* A slip: the route asks for HEAD when the chain is over.                 *)
ReportHead(r) ==
    /\ chain[r].stage = "scheduled"
    /\ chain' = [chain EXCEPT ![r].stage = "ended"]
    /\ point' = IF chain[r].want[2] >= 0 THEN None ELSE Tree
    /\ UNCHANGED << remote, fetched, local, head, script, prepared, serving,
                    served, unproven, goal, excused, pushes, stops >>

(* The result reaches the route: an apply writes its pointer again, a      *)
(* rollback removes it.  With the client gone, neither happens.            *)
Report(r) ==
    /\ chain[r].stage = "scheduled"
    /\ chain' = [chain EXCEPT ![r].stage = "ended"]
    /\ \/ /\ chain[r].want[2] >= 0
          /\ point' = None
       \/ /\ chain[r].want[2] < 0
          /\ point' = chain[r].pre
       \/ UNCHANGED point
    /\ UNCHANGED << remote, fetched, local, head, script, prepared, serving,
                    served, unproven, goal, excused, pushes, stops >>

-----------------------------------------------------------------------------
(* systemctl restart: the process starts from the tree as it is; chains,   *)
(* scripts of the old process are gone.                                    *)
Restarted ==
    /\ serving' = Tree /\ served' = served \cup {Tree}
    /\ chain' = [r \in Requests |-> IF Active(r) THEN [chain[r] EXCEPT !.stage = "ended"]
                                    ELSE chain[r]]
    /\ script' = [r \in Requests |-> "none"]
    /\ UNCHANGED << remote, fetched, local, head, point, unproven, goal, pushes >>

(* apply_finish.sh: requirements and migrations, then the restart.         *)
Prepare(r) ==
    /\ script[r] = "prepare"
    /\ prepared' = Tree
    /\ script' = [script EXCEPT ![r] = "restart"]
    /\ UNCHANGED << remote, fetched, local, head, point, chain, serving,
                    served, unproven, goal, excused, pushes, stops >>

(* A slip: the script stops at its first error.                            *)
GiveUp(r) ==
    /\ script[r] = "prepare"
    /\ script' = [script EXCEPT ![r] = "none"] /\ excused' = TRUE
    /\ UNCHANGED << remote, fetched, local, head, point, chain, prepared, serving,
                    served, unproven, goal, pushes, stops >>

(* The ERR trap restarts the service with what has been done so far.       *)
OnError(r) ==
    /\ script[r] = "prepare"
    /\ Restarted /\ excused' = TRUE
    /\ UNCHANGED << prepared, stops >>

FinishRestart(r) ==
    /\ script[r] = "restart"
    /\ Restarted
    /\ excused' = (excused \/ \E q \in Requests \ {r} : Moving(q) \/ script[q] # "none")
    /\ UNCHANGED << prepared, stops >>

(* The operator's "Restart service", or the unit's own restart.            *)
RestartService ==
    /\ stops < MaxRestarts /\ stops' = stops + 1
    /\ Restarted
    /\ excused' = (excused \/ \E r \in Requests : Moving(r) \/ script[r] # "none")
    /\ UNCHANGED << prepared >>

-----------------------------------------------------------------------------
(* The update check, by hand, on its timer or after a chain: it fetches    *)
(* the branch that is installed; what it reports is not state.             *)
CheckForUpdates ==
    /\ fetched' = [fetched EXCEPT ![head] = remote[head]]
    /\ UNCHANGED << remote, local, head, point, chain, script, prepared, serving,
                    served, unproven, goal, excused, pushes, stops >>

Push(b) ==
    /\ pushes < MaxPushes /\ pushes' = pushes + 1
    /\ remote' = [remote EXCEPT ![b][2] = @ + 1]
    /\ UNCHANGED << fetched, local, head, point, chain, script, prepared, serving,
                    served, unproven, goal, excused, stops >>

Next ==
    \/ \E r \in Requests :
        \/ CaptureHead(r) \/ Fetch(r) \/ Checkout(r) \/ ResetHard(r)
        \/ Rollback(r) \/ Schedule(r) \/ Report(r)
        \/ Prepare(r) \/ OnError(r) \/ FinishRestart(r)
    \/ RestartService \/ CheckForUpdates
    \/ \E b \in Branches : Push(b)

ScriptStep(r) == Prepare(r) \/ OnError(r) \/ FinishRestart(r)

(* The script is a process of its own and runs on.                         *)
Fairness == \A r \in Requests : WF_uvars(ScriptStep(r))

Spec == Init /\ [][Next]_uvars /\ Fairness

-----------------------------------------------------------------------------
TypeOK ==
    /\ remote \in [Branches -> Commits] /\ fetched \in [Branches -> Commits]
    /\ local \in [Branches -> Commits] /\ head \in Branches
    /\ point \in Known /\ prepared \in Commits /\ serving \in Commits
    /\ \A r \in Requests :
        /\ chain[r].stage \in {"idle", "saved", "fetched", "checked out",
                               "moved", "scheduled", "ended", "failed"}
        /\ chain[r].pre \in Known
    /\ script \in [Requests -> {"none", "prepare", "restart"}]
    /\ served \subseteq Commits /\ unproven \subseteq Commits /\ goal \in Commits
    /\ excused \in BOOLEAN /\ pushes \in 0 .. MaxPushes /\ stops \in 0 .. MaxRestarts

(* The rollback pointer names a commit the service has run, so a rollback  *)
(* leads back to something known to start.  The exception is a pointer     *)
(* taken while HEAD was not what the service runs: an apply made again     *)
(* after one that stopped halfway, or before its restart.                  *)
PointerServed == point # None => point \in served \cup unproven

(* When no chain and no script is under way, the service runs the commit   *)
(* that was asked for last, with that commit's requirements and            *)
(* migrations, unless a chain failed after its checkout, the script met an *)
(* error, or two requests or a restart cut across each other.              *)
ReadyToServe ==
    ~excused /\ (\A r \in Requests : ~Moving(r) /\ script[r] = "none")
        => serving = goal /\ Tree = goal /\ prepared = goal

(* A tree that was moved is served in the end, also when pip or the        *)
(* migrations fail, unless a chain is stuck or stopped before its script.  *)
Deployed ==
    []<>(\/ serving = Tree
         \/ \E r \in Requests : chain[r].stage \in {"checked out", "moved", "failed"})
==============================================================================
