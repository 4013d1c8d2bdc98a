-------------------------- MODULE MeshcoreCompanion --------------------------
(***************************************************************************)
(* One MeshCore USB companion, src/capture/meshcore_usb_source.py, with    *)
(* the requests that reach it: commands (rename, advert, messages), the    *)
(* exclusive radio change and the firmware flash of                        *)
(* src/api/routes/meshcore_firmware_routes.py.                             *)
(*                                                                         *)
(* The source starts two kinds of asyncio task, a health loop and a        *)
(* reconnect, and keeps one reference to each kind.  Tasks live in slots;  *)
(* a task that is no longer referenced goes on running but can no longer   *)
(* be cancelled.  Requests run beside the tasks, each suspended at an      *)
(* await.  The meshcore library and the device are external: the device    *)
(* answers ("ok"), only sends events ("mute") or is silent ("dead"), and a *)
(* DTR pulse resets it.                                                    *)
(***************************************************************************)
EXTENDS Integers, FiniteSets

CONSTANTS
    Operators,     \* dashboard clients, each with at most one request
    MaxTasks,      \* bound: tasks alive at the same time
    MaxRequests,   \* bound: requests made
    MaxFaults      \* bound: times the device falls silent

Service == "service"    \* the lifespan that starts and stops the source
Clients == Operators \cup {Service}
Slots == 1..MaxTasks

VARIABLES
    running, connected,       \* _running, _connected
    own,                      \* _meshcore is an open connection
    orphans,                  \* open connections nobody refers to any more
    busy,                     \* _reconnect_in_progress
    healthTask, reconnectTask,\* the slot each reference names, or 0
    kind, at, misses,         \* of each slot: which task, where, failed probes
    recent,                   \* an event came within the healthy window
    request,                  \* where each client's request is suspended
    device, requests, faults

tasks == << healthTask, reconnectTask, kind, at, misses >>
link == << connected, own, orphans >>
world == << device, requests, faults >>
vars == << running, link, busy, tasks, recent, request, world >>

(* Inside _reconnect().                                                    *)
Reconnecting == {"closing", "backoff", "pulse", "open", "fetch"}

(* Where a request holds the port for itself: the exclusive radio change,  *)
(* esptool, or the connect of start().                                     *)
Exclusive == {"pulse_set", "open_set", "set", "pulse_verify", "open_verify", "verify"}
HoldsPort == Exclusive \cup {"flash", "start_open", "start_fetch"}

Init ==
    /\ running = FALSE /\ connected = FALSE /\ own = FALSE /\ orphans = 0
    /\ busy = FALSE /\ healthTask = 0 /\ reconnectTask = 0
    /\ kind = [s \in Slots |-> "none"] /\ at = [s \in Slots |-> "free"]
    /\ misses = [s \in Slots |-> 0]
    /\ recent = FALSE
    /\ request = [c \in Clients |-> IF c = Service THEN "off" ELSE "idle"]
    /\ device = "ok" /\ requests = 0 /\ faults = 0

-----------------------------------------------------------------------------
(* Tasks: asyncio.create_task(), task.cancel(), a task that returns.       *)
Free == {s \in Slots : at[s] = "free"}
NewSlot == CHOOSE s \in Free : \A u \in Free : s <= u

CreateHealth ==
    /\ Free # {}
    /\ healthTask' = NewSlot
    /\ kind' = [kind EXCEPT ![NewSlot] = "health"]
    /\ at' = [at EXCEPT ![NewSlot] = "asleep"]
    /\ misses' = [misses EXCEPT ![NewSlot] = 0]
    /\ UNCHANGED reconnectTask

CreateReconnect ==
    /\ Free # {}
    /\ reconnectTask' = NewSlot
    /\ kind' = [kind EXCEPT ![NewSlot] = "reconnect"]
    /\ at' = [at EXCEPT ![NewSlot] = "new"]
    /\ UNCHANGED << healthTask, misses >>

(* Awaiting or cancelling a finished task does nothing, so a reference to  *)
(* one is the same as None.                                                *)
Forget(s) ==
    /\ healthTask' = IF healthTask = s THEN 0 ELSE healthTask
    /\ reconnectTask' = IF reconnectTask = s THEN 0 ELSE reconnectTask

Finish(s) ==
    /\ at' = [at EXCEPT ![s] = "free"]
    /\ Forget(s)
    /\ UNCHANGED << kind, misses >>

Move(s, there) ==
    /\ at' = [at EXCEPT ![s] = there]
    /\ UNCHANGED << healthTask, reconnectTask, kind, misses >>

(* Cancelled inside _reconnect(), a task clears the flag on its way out.   *)
Cancel(s) ==
    IF s = 0 THEN UNCHANGED << tasks, busy >>
    ELSE /\ busy' = (busy /\ at[s] \notin Reconnecting)
         /\ Finish(s)

-----------------------------------------------------------------------------
(* _connect(): the library opens the port; a handle that is overwritten    *)
(* stays open.                                                             *)
HandleReplaced(opened) ==
    /\ orphans' = orphans + (IF own THEN 1 ELSE 0)
    /\ own' = opened /\ connected' = opened

(* The body of _reconnect() in the task of slot s, one action per await.   *)
ReconnectBegins(s) ==
    /\ kind[s] = "reconnect" /\ at[s] = "new"
    /\ IF busy
       THEN /\ IF connected
               THEN \* the early return is taken for a success
                    /\ at' = [at EXCEPT ![s] = "asleep"]
                    /\ kind' = [kind EXCEPT ![s] = "health"]
                    /\ misses' = [misses EXCEPT ![s] = 0]
                    /\ healthTask' = s
                    /\ reconnectTask' = IF reconnectTask = s THEN 0 ELSE reconnectTask
               ELSE Finish(s)
            /\ UNCHANGED << link, busy >>
       ELSE /\ busy' = TRUE /\ connected' = FALSE
            /\ Move(s, "closing")
            /\ UNCHANGED << own, orphans >>
    /\ UNCHANGED << running, recent, request, world >>

(* What follows _reconnect() when it returns: a reconnect task promotes    *)
(* itself to a health loop when connected, a health loop goes on.          *)
Returned(s, isConnected) ==
    /\ busy' = FALSE
    /\ IF isConnected /\ running
       THEN /\ at' = [at EXCEPT ![s] = "asleep"]
            /\ kind' = [kind EXCEPT ![s] = "health"]
            /\ misses' = [misses EXCEPT ![s] = 0]
            /\ healthTask' = IF kind[s] = "reconnect" THEN s ELSE healthTask
            /\ reconnectTask' = IF reconnectTask = s THEN 0 ELSE reconnectTask
       ELSE Finish(s)

Disconnected(s) ==
    /\ at[s] = "closing"
    /\ own' = FALSE
    /\ UNCHANGED << connected, orphans >>
    /\ IF running THEN Move(s, "backoff") /\ UNCHANGED busy ELSE Returned(s, FALSE)
    /\ UNCHANGED << running, recent, request, world >>

BackoffOver(s) ==
    /\ at[s] = "backoff"
    /\ IF running THEN Move(s, "pulse") /\ UNCHANGED busy ELSE Returned(s, FALSE)
    /\ UNCHANGED << running, link, recent, request, world >>

(* A slip: a retry opens the port without resetting the device.            *)
NoPulse(s) ==
    /\ at[s] = "pulse"
    /\ Move(s, "open")
    /\ UNCHANGED << running, link, busy, recent, request, world >>

(* pulse_dtr_reset() and the pause behind it.                              *)
Pulse(s) ==
    /\ at[s] = "pulse"
    /\ device' = "ok"
    /\ Move(s, "open")
    /\ UNCHANGED << running, link, busy, recent, request, requests, faults >>

Opened(s) ==
    /\ at[s] = "open" /\ device = "ok"
    /\ HandleReplaced(TRUE)
    /\ Move(s, "fetch")
    /\ UNCHANGED << running, busy, recent, request, world >>

OpenFails(s) ==
    /\ at[s] = "open" /\ device # "ok"
    /\ HandleReplaced(FALSE)
    /\ IF running THEN Move(s, "backoff") /\ UNCHANGED busy ELSE Returned(s, FALSE)
    /\ UNCHANGED << running, recent, request, world >>

(* start_auto_message_fetching() returned; _reconnect() looks at           *)
(* _connected, which a request may have cleared meanwhile.                 *)
Fetched(s) ==
    /\ at[s] = "fetch"
    /\ IF connected THEN Returned(s, TRUE)
       ELSE IF running THEN Move(s, "backoff") /\ UNCHANGED busy
       ELSE Returned(s, FALSE)
    /\ UNCHANGED << running, link, recent, request, world >>

FetchFails(s) ==
    /\ at[s] = "fetch" /\ (device # "ok" \/ ~ own)
    /\ connected' = FALSE
    /\ IF running THEN Move(s, "backoff") /\ UNCHANGED busy ELSE Returned(s, FALSE)
    /\ UNCHANGED << running, own, orphans, recent, request, world >>

-----------------------------------------------------------------------------
(* _health_check_loop(): the interval is over.                             *)
LoopsOn(s) == IF running /\ connected THEN "asleep" ELSE "free"

HealthSettled(s, missed) ==
    /\ at' = [at EXCEPT ![s] = LoopsOn(s)]
    /\ misses' = [misses EXCEPT ![s] = missed]
    /\ UNCHANGED kind
    /\ IF LoopsOn(s) = "free" THEN Forget(s)
       ELSE UNCHANGED << healthTask, reconnectTask >>

IntervalOver(s) ==
    /\ at[s] = "asleep"
    /\ IF ~ running THEN Finish(s)
       ELSE IF recent THEN HealthSettled(s, 0)
       ELSE Move(s, "probe")
    /\ UNCHANGED << running, link, busy, recent, request, world >>

(* A slip: an answered probe adds to the misses.                           *)
AnswerCountsAsMiss(s) ==
    /\ at[s] = "probe" /\ device = "ok" /\ own
    /\ HealthSettled(s, misses[s] + 1)
    /\ UNCHANGED << running, link, busy, recent, request, world >>

ProbeAnswered(s) ==
    /\ at[s] = "probe" /\ device = "ok" /\ own
    /\ HealthSettled(s, 0)
    /\ UNCHANGED << running, link, busy, recent, request, world >>

(* The first miss is forgiven; the second starts _reconnect() inline,      *)
(* which returns at once when another one is running.                      *)
ProbeMissed(s) ==
    /\ at[s] = "probe"
    /\ IF misses[s] = 0
       THEN HealthSettled(s, 1) /\ UNCHANGED << busy, connected >>
       ELSE IF busy
       THEN HealthSettled(s, 0) /\ UNCHANGED << busy, connected >>
       ELSE /\ busy' = TRUE /\ connected' = FALSE
            /\ at' = [at EXCEPT ![s] = "closing"]
            /\ misses' = [misses EXCEPT ![s] = 0]
            /\ UNCHANGED << kind, healthTask, reconnectTask >>
    /\ UNCHANGED << running, own, orphans, recent, request, world >>

(* _on_event(): any event counts as a sign of life.  The window passes.    *)
Event ==
    /\ running /\ own /\ device # "dead" /\ ~ recent
    /\ recent' = TRUE
    /\ UNCHANGED << running, link, busy, tasks, request, world >>

WindowPasses ==
    /\ recent
    /\ recent' = FALSE
    /\ UNCHANGED << running, link, busy, tasks, request, world >>

DeviceFails ==
    /\ faults < MaxFaults /\ device = "ok"
    /\ device' \in {"mute", "dead"}
    /\ faults' = faults + 1
    /\ UNCHANGED << running, link, busy, tasks, recent, request, requests >>

-----------------------------------------------------------------------------
(* Requests.                                                               *)
Goto(c, there) == request' = [request EXCEPT ![c] = there]

(* The API is served between the service's start and its stop.             *)
MayRequest(c) ==
    /\ c \in Operators /\ request[c] = "idle"
    /\ request[Service] = "idle" /\ requests < MaxRequests

(* set_companion_name(), send_advert(), send_direct_message() and          *)
(* send_channel_message() up to the library's answer.                      *)
Command(c) ==
    /\ MayRequest(c)
    /\ connected
    /\ Goto(c, "command") /\ requests' = requests + 1
    /\ UNCHANGED << running, link, busy, tasks, recent, device, faults >>

CommandAnswered(c) ==
    /\ request[c] = "command" /\ device = "ok"
    /\ Goto(c, "idle")
    /\ UNCHANGED << running, link, busy, tasks, recent, world >>

(* The command timed out: _trigger_reconnect().                            *)
CommandTimesOut(c) ==
    /\ request[c] = "command"
    /\ Goto(c, "idle")
    /\ IF busy THEN UNCHANGED << tasks, connected >>
       ELSE LET left == [at EXCEPT ![healthTask] = "free"]
                freed == IF healthTask = 0 THEN at ELSE left
                slots == {s \in Slots : freed[s] = "free"}
                new == CHOOSE s \in slots : \A u \in slots : s <= u
            IN  /\ slots # {}
                /\ connected' = FALSE
                /\ at' = [freed EXCEPT ![new] = "new"]
                /\ kind' = [kind EXCEPT ![new] = "reconnect"]
                /\ healthTask' = 0 /\ reconnectTask' = new
                /\ UNCHANGED misses
    /\ UNCHANGED << running, own, orphans, busy, recent, world >>

(* A slip: only the health task is cancelled.                              *)
SetRadioKeepsReconnect(c) ==
    /\ MayRequest(c)
    /\ connected
    /\ requests' = requests + 1
    /\ Cancel(healthTask) /\ Goto(c, "detach_flag")
    /\ UNCHANGED << running, link, recent, device, faults >>

(* set_radio_params(): _detach_for_exclusive_radio_apply() cancels and     *)
(* awaits the health task, then the reconnect task; a reference that is    *)
(* None costs no await.                                                    *)
SetRadio(c) ==
    /\ MayRequest(c)
    /\ connected
    /\ requests' = requests + 1
    /\ IF healthTask # 0
       THEN Cancel(healthTask) /\ Goto(c, "detach_reconnect")
       ELSE Cancel(reconnectTask) /\ Goto(c, "detach_flag")
    /\ UNCHANGED << running, link, recent, device, faults >>

DetachReconnect(c) ==
    /\ request[c] = "detach_reconnect"
    /\ Cancel(reconnectTask)
    /\ Goto(c, "detach_flag")
    /\ UNCHANGED << running, link, recent, world >>

DetachFlag(c) ==
    /\ request[c] = "detach_flag"
    /\ busy' = FALSE /\ connected' = FALSE
    /\ Goto(c, "detach_close")
    /\ UNCHANGED << running, own, orphans, tasks, recent, world >>

Detached(c) ==
    /\ request[c] = "detach_close"
    /\ own' = FALSE
    /\ Goto(c, "pulse_set")
    /\ UNCHANGED << running, connected, orphans, busy, tasks, recent, world >>

(* ... then _apply_radio_params_exclusive(): pulse, open, set, close,      *)
(* settle, pulse, open, verify, close ...                                  *)
ExclusiveStep(c) ==
    \/ request[c] = "pulse_set" /\ device' = "ok" /\ Goto(c, "open_set")
    \/ request[c] = "open_set" /\ device = "ok" /\ Goto(c, "set") /\ UNCHANGED device
    \/ request[c] = "set" /\ Goto(c, "pulse_verify") /\ UNCHANGED device
    \/ request[c] = "pulse_verify" /\ device' = "ok" /\ Goto(c, "open_verify")
    \/ request[c] = "open_verify" /\ device = "ok" /\ Goto(c, "verify") /\ UNCHANGED device

ApplyExclusive(c) ==
    /\ ExclusiveStep(c)
    /\ UNCHANGED << running, link, busy, tasks, recent, requests, faults >>

(* ... and _reattach_after_exclusive_radio_apply(), whatever the outcome.  *)
Reattach(c) ==
    /\ \/ request[c] \in {"open_set", "open_verify"} /\ device # "ok"
       \/ request[c] \in {"set", "verify"}
    /\ IF running THEN CreateReconnect ELSE UNCHANGED tasks
    /\ Goto(c, "idle")
    /\ UNCHANGED << running, link, busy, recent, world >>

-----------------------------------------------------------------------------
(* flash_meshcore_stream(): the source is stopped, esptool has the port,   *)
(* the source is started again.                                            *)
Flash(c) ==
    /\ MayRequest(c)
    /\ requests' = requests + 1
    /\ running' = FALSE
    /\ Goto(c, "stop_reconnect")
    /\ UNCHANGED << link, busy, tasks, recent, device, faults >>

(* The service stops when its last request has been answered.              *)
Shutdown ==
    /\ \A c \in Clients : request[c] = "idle"
    /\ running' = FALSE
    /\ Goto(Service, "stop_reconnect")
    /\ UNCHANGED << link, busy, tasks, recent, world >>

(* stop() after _running was cleared.                                      *)
StopReconnect(c) ==
    /\ request[c] = "stop_reconnect"
    /\ Cancel(reconnectTask)
    /\ Goto(c, "stop_health")
    /\ UNCHANGED << running, link, recent, world >>

StopHealth(c) ==
    /\ request[c] = "stop_health"
    /\ Cancel(healthTask)
    /\ connected' = FALSE
    /\ Goto(c, "stop_close")
    /\ UNCHANGED << running, own, orphans, recent, world >>

Stopped(c) ==
    /\ request[c] = "stop_close"
    /\ own' = FALSE
    /\ Goto(c, IF c = Service THEN "stopped" ELSE "flash")
    /\ UNCHANGED << running, connected, orphans, busy, tasks, recent, world >>

(* esptool returned.  Only a successful flash of Bluetooth firmware leaves *)
(* the source stopped; a client that went away ends the response, and with *)
(* it what was to follow.                                                  *)
Flashed(c) ==
    /\ request[c] = "flash"
    /\ device' = "ok" /\ running' = TRUE
    /\ Goto(c, "start_open")
    /\ UNCHANGED << link, busy, tasks, recent, requests, faults >>

FlashEndsStopped(c) ==
    /\ request[c] = "flash"
    /\ device' \in {"ok", "dead"}
    /\ Goto(c, "idle")
    /\ UNCHANGED << running, link, busy, tasks, recent, requests, faults >>

(* start(): without a port the source stays idle; else _connect(), then a  *)
(* health loop or a reconnect.                                             *)
Start ==
    /\ request[Service] = "off"
    /\ \/ running' = TRUE /\ Goto(Service, "start_open")
       \/ running' = FALSE /\ Goto(Service, "idle")
    /\ device' \in {"ok", "dead"}
    /\ UNCHANGED << link, busy, tasks, recent, requests, faults >>

StartOpened(c) ==
    /\ request[c] = "start_open" /\ device = "ok"
    /\ HandleReplaced(TRUE)
    /\ Goto(c, "start_fetch")
    /\ UNCHANGED << running, busy, tasks, recent, world >>

StartFails(c) ==
    /\ \/ request[c] = "start_open" /\ HandleReplaced(FALSE)
       \/ request[c] = "start_fetch" /\ connected' = FALSE /\ UNCHANGED << own, orphans >>
    /\ device # "ok"
    /\ CreateReconnect
    /\ Goto(c, "idle")
    /\ UNCHANGED << running, busy, recent, world >>

StartFetched(c) ==
    /\ request[c] = "start_fetch"
    /\ CreateHealth
    /\ Goto(c, "idle")
    /\ UNCHANGED << running, link, busy, recent, world >>

-----------------------------------------------------------------------------
ReconnectStep(s) ==
    \/ ReconnectBegins(s) \/ Disconnected(s) \/ BackoffOver(s) \/ Pulse(s)
    \/ Opened(s) \/ OpenFails(s) \/ Fetched(s) \/ FetchFails(s)

HealthStep(s) == IntervalOver(s) \/ ProbeAnswered(s) \/ ProbeMissed(s)

RequestStep(c) ==
    \/ CommandAnswered(c) \/ CommandTimesOut(c)
    \/ DetachReconnect(c) \/ DetachFlag(c) \/ Detached(c)
    \/ ApplyExclusive(c) \/ Reattach(c)
    \/ StopReconnect(c) \/ StopHealth(c) \/ Stopped(c)
    \/ Flashed(c) \/ FlashEndsStopped(c)
    \/ StartOpened(c) \/ StartFails(c) \/ StartFetched(c)

Next ==
    \/ \E s \in Slots : ReconnectStep(s) \/ HealthStep(s)
    \/ \E c \in Clients : RequestStep(c) \/ Command(c) \/ SetRadio(c) \/ Flash(c)
    \/ Start \/ Event \/ WindowPasses \/ DeviceFails \/ Shutdown

(* asyncio runs every task that is ready; every await here has a timeout.  *)
(* The healthy window is over before the health loop's interval is.        *)
Fairness ==
    /\ \A s \in Slots : WF_vars(ReconnectStep(s)) /\ WF_vars(HealthStep(s))
    /\ \A c \in Clients : WF_vars(RequestStep(c))
    /\ WF_vars(WindowPasses)

Spec == Init /\ [][Next]_vars /\ Fairness

-----------------------------------------------------------------------------
TypeOK ==
    /\ running \in BOOLEAN /\ connected \in BOOLEAN /\ own \in BOOLEAN
    /\ orphans \in Nat /\ busy \in BOOLEAN /\ recent \in BOOLEAN
    /\ healthTask \in 0..MaxTasks /\ reconnectTask \in 0..MaxTasks
    /\ kind \in [Slots -> {"none", "health", "reconnect"}]
    /\ at \in [Slots -> {"free", "new", "asleep", "probe"} \cup Reconnecting]
    /\ misses \in [Slots -> 0..1]
    /\ request \in [Clients -> {"idle", "command", "detach_reconnect", "detach_flag",
                       "detach_close", "stop_reconnect", "stop_health", "stop_close",
                       "off", "stopped"} \cup HoldsPort]
    /\ device \in {"ok", "mute", "dead"}
    /\ requests \in 0..MaxRequests /\ faults \in 0..MaxFaults

(* Never two at the port: while a request applies radio parameters over    *)
(* its exclusive connection, while esptool flashes or start() connects, no *)
(* task of the source pulses DTR or opens the port, and no two tasks or    *)
(* two requests do so together (the comment at _reconnect_in_progress and  *)
(* the docstring of set_radio_params).  It takes a single client: a second *)
(* one whose command times out during the exclusive radio change starts a  *)
(* reconnect, since that change leaves _reconnect_in_progress clear.       *)
PortUsers ==
    Cardinality({s \in Slots : at[s] \in {"pulse", "open", "fetch"}})
        + Cardinality({c \in Clients : request[c] \in HoldsPort})

PortExclusive == PortUsers <= 1

(* A running source is never left alone: unless a request is at work on    *)
(* it, some task will notice a silent device or is reconnecting already.   *)
Supervised ==
    running /\ (\A c \in Clients : request[c] \notin
                  HoldsPort \cup {"detach_reconnect", "detach_flag", "detach_close"})
        => \E s \in Slots : at[s] # "free"

(* stop() leaves nothing behind: no task is alive, the connection is       *)
(* closed, and nobody comes back to open it.                               *)
StopReleases ==
    (request[Service] = "stopped" \/ \E c \in Clients : request[c] = "flash")
        => ~ own /\ ~ connected /\ \A s \in Slots : at[s] = "free"

(* A companion that falls silent is reset and reconnected, however its     *)
(* silence meets commands, the health probe and radio changes; only a      *)
(* source that was stopped is not, and a companion that answers nothing    *)
(* but still sends events passes as healthy.                               *)
Recovers == []<>(~ running \/ device = "mute" \/ (device = "ok" /\ connected))
==============================================================================
