----------------------------- MODULE SerialSource ----------------------------
(***************************************************************************)
(* The Meshtastic USB sticks, src/capture/serial_source.py, with the       *)
(* dashboard's setters (src/api/routes/serial_config_routes.py) and the    *)
(* firmware flash (src/api/routes/meshtastic_firmware_routes.py).          *)
(*                                                                         *)
(* A stick is opened by a blocking call in a thread.  Cancelling the       *)
(* coroutine that awaits the thread does not end the thread: it is         *)
(* abandoned, and the interface it may still open belongs to nobody.       *)
(* meshtastic-python is external: it keeps its own copy of the stick's     *)
(* configuration, writes it to the stick a section at a time, and          *)
(* publishes the packets of all open interfaces on one topic.              *)
(***************************************************************************)
EXTENDS Integers, Sequences, FiniteSets

CONSTANTS
    Sticks,       \* the configured sticks, one port each
    Names, OldName,\* names of a stick; the one configured when the service started
    QueueSize,    \* maxsize of the capture queue
    MaxFlashes,   \* bound: firmware flashes
    MaxChanges,   \* bound: settings changed
    MaxPackets    \* bound: packets the sticks publish

VARIABLES
    listening,    \* _running of each source
    attached,     \* _connected
    iface,        \* _interface: is there one
    retry,        \* where the reconnect task is
    phase,        \* start, flash and stop of each source
    reader,       \* CaptureCoordinator's task reading the source's packets()
    threads,      \* blocking connects whose coroutine was cancelled
    strays,       \* open interfaces nobody refers to
    info,         \* _radio_info: what the dashboard shows
    cached,       \* the library's copy of the stick's configuration
    flashed,      \* what the stick itself has stored
    inbox,        \* the capture queue; an entry is the stick it came from
    published, flashes, changes, failedWrites

svars == << listening, attached, iface, retry, phase, reader, threads, strays, info, cached,
            flashed, inbox, published, flashes, changes, failedWrites >>

Settings == [name : Names, region : {"unset", "eu"}, preset : {"fast", "slow"}]
Factory == [name |-> CHOOSE n \in Names : n # OldName, region |-> "unset", preset |-> "fast"]

Init ==
    /\ listening = [s \in Sticks |-> FALSE] /\ attached = [s \in Sticks |-> FALSE]
    /\ iface = [s \in Sticks |-> FALSE] /\ retry = [s \in Sticks |-> "none"]
    /\ phase = [s \in Sticks |-> "off"] /\ reader = [s \in Sticks |-> "none"]
    /\ threads = [s \in Sticks |-> 0] /\ strays = [s \in Sticks |-> 0]
    /\ info = [s \in Sticks |-> Factory] /\ cached = [s \in Sticks |-> Factory]
    /\ flashed = [s \in Sticks |-> Factory]
    /\ inbox = [s \in Sticks |-> << >>]
    /\ published = 0 /\ flashes = 0 /\ changes = 0 /\ failedWrites = 0

-----------------------------------------------------------------------------
config == << info, cached, flashed, changes, failedWrites >>
traffic == << inbox, published >>

(* start(): _running is set and the first attempt begins.                  *)
Start(s) ==
    /\ phase[s] = "off"
    /\ listening' = [listening EXCEPT ![s] = TRUE]
    /\ phase' = [phase EXCEPT ![s] = "starting"]
    /\ UNCHANGED << attached, iface, retry, reader, threads, strays, config, traffic, flashes >>

(* _attempt_connect() succeeds: the configuration is read afresh and the   *)
(* name configured at service start, if any, is applied to the stick,      *)
(* which may fail.                                                         *)
Connected(s) ==
    /\ iface' = [iface EXCEPT ![s] = TRUE]
    /\ attached' = [attached EXCEPT ![s] = TRUE]
    /\ \E now \in {flashed[s], [flashed[s] EXCEPT !.name = OldName]} :
           /\ flashed' = [flashed EXCEPT ![s] = now]
           /\ cached' = [cached EXCEPT ![s] = now]
           /\ info' = [info EXCEPT ![s] = now]
    /\ UNCHANGED << strays, changes, failedWrites >>

(* start() returned: the first time, CaptureCoordinator.start() creates the *)
(* reader task; a flash does not.                                          *)
StartReturns(s) ==
    /\ phase' = [phase EXCEPT ![s] = "up"]
    /\ reader' = [reader EXCEPT ![s] = IF @ = "none" THEN "alive" ELSE @]

StartConnects(s) ==
    /\ phase[s] = "starting"
    /\ Connected(s)
    /\ StartReturns(s)
    /\ UNCHANGED << listening, retry, threads, traffic, flashes >>

StartFails(s) ==
    /\ phase[s] = "starting"
    /\ StartReturns(s)
    /\ retry' = [retry EXCEPT ![s] = "backoff"]
    /\ UNCHANGED << listening, attached, iface, threads, strays, config, traffic, flashes >>

(* _reconnect_until_connected(), one action per await.                     *)
Retry(s) ==
    /\ retry[s] = "backoff"
    /\ retry' = [retry EXCEPT ![s] = IF listening[s] THEN "connecting" ELSE "none"]
    /\ UNCHANGED << listening, attached, iface, phase, reader, threads, strays, config, traffic, flashes >>

RetryConnects(s) ==
    /\ retry[s] = "connecting"
    /\ Connected(s)
    /\ retry' = [retry EXCEPT ![s] = "none"]
    /\ UNCHANGED << listening, phase, reader, threads, traffic, flashes >>

RetryFails(s) ==
    /\ retry[s] = "connecting"
    /\ retry' = [retry EXCEPT ![s] = IF listening[s] THEN "backoff" ELSE "none"]
    /\ UNCHANGED << listening, attached, iface, phase, reader, threads, strays, config, traffic, flashes >>

-----------------------------------------------------------------------------
(* stop(): the reconnect task is cancelled, not the thread it awaits.      *)
Stopping(s, next) ==
    /\ listening' = [listening EXCEPT ![s] = FALSE]
    /\ attached' = [attached EXCEPT ![s] = FALSE]
    /\ threads' = [threads EXCEPT ![s] = @ + IF retry[s] = "connecting" THEN 1 ELSE 0]
    /\ retry' = [retry EXCEPT ![s] = "none"]
    /\ iface' = [iface EXCEPT ![s] = FALSE]
    /\ phase' = [phase EXCEPT ![s] = next]

Stop(s) ==
    /\ phase[s] = "up"
    /\ Stopping(s, "down")
    /\ UNCHANGED << reader, strays, config, traffic, flashes >>

(* flash_meshtastic_stream(): stop, esptool, start.                        *)
Flash(s) ==
    /\ phase[s] = "up" /\ flashes < MaxFlashes
    /\ flashes' = flashes + 1
    /\ Stopping(s, "flashing")
    /\ UNCHANGED << reader, strays, config, traffic >>

(* A new firmware that erased the flash forgets the settings.              *)
Flashed(s) ==
    /\ phase[s] = "flashing"
    /\ flashed' \in {flashed, [flashed EXCEPT ![s] = Factory]}
    /\ listening' = [listening EXCEPT ![s] = TRUE]
    /\ phase' = [phase EXCEPT ![s] = "starting"]
    /\ UNCHANGED << attached, iface, retry, reader, threads, strays, info, cached, changes,
                    failedWrites, traffic, flashes >>

(* An abandoned thread's connect comes to its end.                         *)
ThreadEnds(s) ==
    /\ threads[s] > 0
    /\ threads' = [threads EXCEPT ![s] = @ - 1]
    /\ strays' \in {strays, [strays EXCEPT ![s] = @ + 1]}
    /\ UNCHANGED << listening, attached, iface, retry, phase, reader, config, traffic, flashes >>

-----------------------------------------------------------------------------
(* The setters: the library's copy is changed, then written to the stick   *)
(* (the name by itself, region and preset together as section "lora"); the *)
(* dashboard's copy follows only when the write did not raise.             *)
MayChange(s) == attached[s] /\ iface[s] /\ changes < MaxChanges

SetOwner(s) ==
    /\ MayChange(s) /\ changes' = changes + 1
    /\ \E n \in Names :
         /\ cached' = [cached EXCEPT ![s].name = n]
         /\ flashed' = [flashed EXCEPT ![s].name = n]
         /\ info' = [info EXCEPT ![s].name = n]
    /\ UNCHANGED << listening, attached, iface, retry, phase, reader, threads, strays, traffic, flashes, failedWrites >>

WriteLora(s, new, ok) ==
    /\ cached' = [cached EXCEPT ![s] = new]
    /\ flashed' = IF ok THEN [flashed EXCEPT ![s].region = new.region, ![s].preset = new.preset]
                  ELSE flashed
    /\ failedWrites' = failedWrites + (IF ok THEN 0 ELSE 1)

SetRegion(s) ==
    /\ MayChange(s) /\ changes' = changes + 1
    /\ \E ok \in BOOLEAN :
         /\ WriteLora(s, [cached[s] EXCEPT !.region = "eu"], ok)
         /\ info' = IF ok THEN [info EXCEPT ![s].region = "eu"] ELSE info
    /\ UNCHANGED << listening, attached, iface, retry, phase, reader, threads, strays, traffic, flashes >>

SetModemPreset(s) ==
    /\ MayChange(s) /\ changes' = changes + 1
    /\ \E ok \in BOOLEAN :
         /\ WriteLora(s, [cached[s] EXCEPT !.preset = "slow"], ok)
         /\ info' = IF ok THEN [info EXCEPT ![s].preset = "slow"] ELSE info
    /\ UNCHANGED << listening, attached, iface, retry, phase, reader, threads, strays, traffic, flashes >>

-----------------------------------------------------------------------------
Queued(t, s) == inbox' = [inbox EXCEPT ![t] = IF Len(@) < QueueSize THEN Append(@, s) ELSE @]

(* _on_receive() of every source for one packet of the interface of s;     *)
(* live is FALSE for an interface nobody refers to.                        *)
OnReceive(s, live) ==
    IF listening[s] /\ live THEN Queued(s, s) ELSE UNCHANGED inbox

(* The library's reader thread publishes a packet.                         *)
Publish(s) ==
    /\ published < MaxPackets
    /\ published' = published + 1
    /\ \/ iface[s] /\ OnReceive(s, TRUE)
       \/ strays[s] > 0 /\ OnReceive(s, FALSE)
    /\ UNCHANGED << listening, attached, iface, retry, phase, reader, threads, strays, config, flashes >>

(* packets(): the reader takes an entry, or sees that _running is cleared   *)
(* and ends, and with it the task.                                         *)
Read(s) ==
    /\ reader[s] = "alive" /\ listening[s] /\ inbox[s] # << >>
    /\ inbox' = [inbox EXCEPT ![s] = Tail(@)]
    /\ UNCHANGED << listening, attached, iface, retry, phase, reader, threads, strays, config, published, flashes >>

ReaderEnds(s) ==
    /\ reader[s] = "alive" /\ ~ listening[s]
    /\ reader' = [reader EXCEPT ![s] = "ended"]
    /\ UNCHANGED << listening, attached, iface, retry, phase, threads, strays, config, traffic, flashes >>

-----------------------------------------------------------------------------
Attempt(s) == StartConnects(s) \/ RetryConnects(s)
Step(s) == StartFails(s) \/ Retry(s) \/ RetryFails(s) \/ Flashed(s) \/ ThreadEnds(s)

Next ==
    \E s \in Sticks :
        \/ Start(s) \/ Attempt(s) \/ Step(s) \/ Stop(s) \/ Flash(s)
        \/ SetOwner(s) \/ SetRegion(s) \/ SetModemPreset(s)
        \/ Publish(s) \/ Read(s) \/ ReaderEnds(s)

(* The task and the thread run on; a port is not refused for ever.         *)
Fairness ==
    \A s \in Sticks :
        /\ WF_svars(Step(s)) /\ SF_svars(Attempt(s))
        /\ WF_svars(Read(s) \/ ReaderEnds(s))

Spec == Init /\ [][Next]_svars /\ Fairness

-----------------------------------------------------------------------------
TypeOK ==
    /\ listening \in [Sticks -> BOOLEAN] /\ attached \in [Sticks -> BOOLEAN]
    /\ iface \in [Sticks -> BOOLEAN]
    /\ retry \in [Sticks -> {"none", "backoff", "connecting"}]
    /\ phase \in [Sticks -> {"off", "starting", "up", "flashing", "down"}]
    /\ reader \in [Sticks -> {"none", "alive", "ended"}]
    /\ threads \in [Sticks -> 0..(MaxFlashes + 1)] /\ strays \in [Sticks -> 0..(MaxFlashes + 1)]
    /\ info \in [Sticks -> Settings] /\ cached \in [Sticks -> Settings]
    /\ flashed \in [Sticks -> Settings]
    /\ \A s \in Sticks : Len(inbox[s]) <= QueueSize
    /\ published \in 0..MaxPackets /\ flashes \in 0..MaxFlashes /\ changes \in 0..MaxChanges

(* The topic is shared by all sticks, yet a source queues only what its    *)
(* own stick received (_on_receive compares the interface).                *)
OwnPacketsOnly == \A s \in Sticks : \A i \in 1..Len(inbox[s]) : inbox[s][i] = s

(* What the dashboard shows of a connected stick is what the stick has     *)
(* stored, across renames, region and preset changes, flashes and          *)
(* reconnects, as long as no write to the stick raised.                    *)
InfoTruthful ==
    failedWrites = 0 => \A s \in Sticks : attached[s] => info[s] = flashed[s]

(* While esptool writes the firmware the source has no interface and no    *)
(* reconnect under way, so nothing of it reads the port.                   *)
FlashFindsSourceStopped ==
    \A s \in Sticks : phase[s] \in {"flashing", "down"}
        => ~ iface[s] /\ ~ attached[s] /\ retry[s] = "none"

(* A stick that could not be opened is opened in the end, without a        *)
(* restart of the service, unless the source is stopped.                   *)
ComesUp == \A s \in Sticks : []<>(attached[s] \/ ~ listening[s])
==============================================================================
