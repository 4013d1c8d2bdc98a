----------------------------- MODULE Terminal -----------------------------
(***************************************************************************)
(* The dashboard terminal: a shell on a pseudo-terminal per WebSocket      *)
(* (terminal_routes.py, session_manager.py, pty_session.py). The event     *)
(* loop spawns and ends the sessions; a thread reads the terminal, and its *)
(* last read may still run when the task that asked for it is cancelled.   *)
(***************************************************************************)
EXTENDS Integers, FiniteSets

CONSTANTS
    Tabs,           \* the WebSocket connections
    MaxSessions,    \* max_sessions
    MaxShutdowns

VARIABLES
    conn,           \* per tab: "none", "refused", "open", "leaving", "gone"
    registry,       \* SessionManager._sessions
    child,          \* the shell: "none", "running", "dead" (not waited for), "reaped"
    stubborn,       \* the shell ignores SIGTERM, as an interactive bash does
    held,           \* a background process keeps the terminal open after the shell
    fd,             \* master_fd is open
    closed,         \* PtySession._closed
    reader,         \* "none", "on", "cancelled" (the thread's last read runs on)
    ending,         \* terminate() for the tab: "no", "signal", "kill", "close"
    trail,          \* the audit rows of the session
    shutdowns,
    alone           \* history: the shell ended by itself

vars == << conn, registry, child, stubborn, held, fd, closed, reader, ending, trail, shutdowns, alone >>

TypeOK ==
    /\ conn \in [Tabs -> {"none", "refused", "open", "leaving", "gone"}]
    /\ child \in [Tabs -> {"none", "running", "dead", "reaped"}]
    /\ \A f \in {stubborn, held, fd, closed, alone} : f \in [Tabs -> BOOLEAN]
    /\ reader \in [Tabs -> {"none", "on", "cancelled"}]
    /\ registry \subseteq Tabs
    /\ ending \in [Tabs -> {"no", "signal", "kill", "close"}]
    /\ trail \in [Tabs -> SUBSET {"session_spawn", "session_close"}]

Init ==
    /\ conn = [t \in Tabs |-> "none"] /\ child = [t \in Tabs |-> "none"]
    /\ stubborn = [t \in Tabs |-> FALSE] /\ held = [t \in Tabs |-> FALSE]
    /\ fd = [t \in Tabs |-> FALSE] /\ closed = [t \in Tabs |-> FALSE]
    /\ reader = [t \in Tabs |-> "none"]
    /\ registry = {}
    /\ ending = [t \in Tabs |-> "no"]
    /\ trail = [t \in Tabs |-> {}]
    /\ shutdowns = 0
    /\ alone = [t \in Tabs |-> FALSE]

\* terminate() runs in the event loop: nothing else does meanwhile.
LoopFree == \A t \in Tabs : ending[t] = "no"

-----------------------------------------------------------------------------
(* A slip: one more than the cap is let in.                                *)
CapLeavesOneOver == Cardinality(registry) <= MaxSessions

(* SessionManager.spawn: the cap counts the sessions in the registry.      *)
SlotFree == Cardinality(registry) < MaxSessions

(* terminal_websocket up to its pumps.                                     *)
Connect(t, soft) ==
    /\ LoopFree /\ conn[t] = "none" /\ shutdowns = 0
    /\ IF SlotFree
         THEN /\ conn' = [conn EXCEPT ![t] = "open"]
              /\ registry' = registry \cup {t}
              /\ child' = [child EXCEPT ![t] = "running"]
              /\ stubborn' = [stubborn EXCEPT ![t] = ~soft]
              /\ fd' = [fd EXCEPT ![t] = TRUE]
              /\ reader' = [reader EXCEPT ![t] = "on"]
              /\ trail' = [trail EXCEPT ![t] = {"session_spawn"}]
         ELSE /\ conn' = [conn EXCEPT ![t] = "refused"]
              /\ UNCHANGED << registry, child, stubborn, fd, reader, trail >>
    /\ UNCHANGED << held, closed, ending, shutdowns, alone >>

(* The operator types exit, perhaps with a job left in the background.     *)
ShellExits(t, leavesJob) ==
    /\ child[t] = "running"
    /\ child' = [child EXCEPT ![t] = "dead"]
    /\ held' = [held EXCEPT ![t] = leavesJob]
    /\ alone' = [alone EXCEPT ![t] = TRUE]
    /\ UNCHANGED << conn, registry, stubborn, fd, closed, reader, ending, trail, shutdowns >>

HungUp(t) == child[t] # "running" /\ ~held[t]

\* What read_nonblocking notices.
EndSeen(t) == closed[t] \/ ~fd[t] \/ HungUp(t)

\* What is_alive() notices; it waits for the shell that has ended.
ShellOver(t) == child[t] # "running"

(* read_nonblocking in the thread, and _pump_pty_to_ws on its result: the  *)
(* end of the terminal closes the session; without output is_alive() waits *)
(* for the shell, which ends the pump as well.                             *)
Read(t) ==
    /\ reader[t] # "none"
    /\ \/ /\ EndSeen(t)
          /\ closed' = [closed EXCEPT ![t] = TRUE]
          /\ reader' = [reader EXCEPT ![t] = "none"]
          /\ UNCHANGED child
       \/ /\ LoopFree /\ reader[t] = "on" /\ ~EndSeen(t) /\ ShellOver(t)
          /\ child' = [child EXCEPT ![t] = "reaped"]
          /\ reader' = [reader EXCEPT ![t] = "none"]
          /\ UNCHANGED closed
       \/ /\ reader[t] = "cancelled"
          /\ reader' = [reader EXCEPT ![t] = "none"]
          /\ UNCHANGED << child, closed >>
    /\ UNCHANGED << conn, registry, stubborn, held, fd, ending, trail, shutdowns, alone >>

(* PtySession.write for an input frame: the end is noticed here too.       *)
WriteFails(t) ==
    /\ LoopFree /\ conn[t] = "open" /\ ~closed[t] /\ HungUp(t)
    /\ closed' = [closed EXCEPT ![t] = TRUE]
    /\ UNCHANGED << conn, registry, child, stubborn, held, fd, reader, ending, trail, shutdowns, alone >>

-----------------------------------------------------------------------------
CloseRow(t) == {"session_close"}

(* The tab leaves: the reader task is cancelled and awaited, the session   *)
(* taken from the registry. terminate() has nothing to do for a session    *)
(* that is closed, destroy() nothing for one that shutdown() has taken.    *)
Disconnect(t) ==
    /\ LoopFree /\ conn[t] = "open"
    /\ registry' = registry \ {t}
    /\ reader' = [reader EXCEPT ![t] = IF @ = "on" THEN "cancelled" ELSE @]
    /\ IF closed[t] \/ t \notin registry
         THEN /\ conn' = [conn EXCEPT ![t] = "gone"]
              /\ trail' = [trail EXCEPT ![t] = @ \cup CloseRow(t)]
              /\ UNCHANGED ending
         ELSE /\ conn' = [conn EXCEPT ![t] = "leaving"]
              /\ ending' = [ending EXCEPT ![t] = "signal"]
              /\ UNCHANGED trail
    /\ UNCHANGED << child, stubborn, held, fd, closed, shutdowns, alone >>

(* terminate(): SIGTERM, and half a second in which the shell may be       *)
(* waited for.                                                             *)
Signal(t) ==
    /\ ending[t] = "signal"
    /\ IF child[t] = "running" /\ stubborn[t]
         THEN /\ ending' = [ending EXCEPT ![t] = "kill"]
              /\ UNCHANGED child
         ELSE /\ ending' = [ending EXCEPT ![t] = "close"]
              /\ child' = [child EXCEPT ![t] = "reaped"]
    /\ UNCHANGED << conn, registry, stubborn, held, fd, closed, reader, trail, shutdowns, alone >>

(* SIGKILL, and waitpid until the shell is gone.                           *)
Kill(t) ==
    /\ ending[t] = "kill"
    /\ ending' = [ending EXCEPT ![t] = "close"]
    /\ child' = [child EXCEPT ![t] = "reaped"]
    /\ UNCHANGED << conn, registry, stubborn, held, fd, closed, reader, trail, shutdowns, alone >>

CloseFd(t) ==
    /\ ending[t] = "close"
    /\ ending' = [ending EXCEPT ![t] = "no"]
    /\ fd' = [fd EXCEPT ![t] = FALSE]
    /\ closed' = [closed EXCEPT ![t] = TRUE]
    /\ conn' = [conn EXCEPT ![t] = IF @ = "leaving" THEN "gone" ELSE @]
    /\ trail' = [trail EXCEPT ![t] = IF conn[t] = "leaving" THEN @ \cup CloseRow(t) ELSE @]
    /\ UNCHANGED << registry, child, stubborn, held, reader, shutdowns, alone >>

(* shutdown() at the end of the lifespan, with connections still open.     *)
Shutdown ==
    /\ LoopFree /\ shutdowns < MaxShutdowns /\ shutdowns' = shutdowns + 1
    /\ ending' = [t \in Tabs |-> IF t \in registry /\ ~closed[t] THEN "signal" ELSE "no"]
    /\ registry' = {}
    /\ UNCHANGED << conn, child, stubborn, held, fd, closed, reader, trail, alone >>

Next ==
    \/ \E t \in Tabs :
          \/ \E b \in BOOLEAN : Connect(t, b) \/ ShellExits(t, b)
          \/ Read(t) \/ WriteFails(t) \/ Disconnect(t) \/ Signal(t) \/ Kill(t) \/ CloseFd(t)
    \/ Shutdown

Spec == Init /\ [][Next]_vars

-----------------------------------------------------------------------------
(* After a tab has left, its shell is waited for and its terminal closed,  *)
(* whenever the shell, the reader and the tab end. A shell that ended by   *)
(* itself is the exception: terminate() leaves a closed session alone, so  *)
(* its descriptor stays open and its process a zombie.                     *)
NothingLeft ==
    \A t \in Tabs :
        conn[t] = "gone" /\ ~alone[t] => child[t] = "reaped" /\ ~fd[t]

(* There are never more running shells than the cap allows, the one that   *)
(* is being ended aside, although the cap is counted on the registry.      *)
CapHeld ==
    Cardinality({ t \in Tabs : ending[t] = "no" /\ child[t] = "running" }) <= MaxSessions

(* Every session that has ended, and no other, has both its rows in the    *)
(* audit log.                                                              *)
Trail ==
    \A t \in Tabs :
        /\ "session_close" \in trail[t] => "session_spawn" \in trail[t]
        /\ conn[t] = "gone" <=> "session_close" \in trail[t]
=============================================================================
