-------------------------- MODULE ServiceLifespan --------------------------
(***************************************************************************)
(* How the server puts the service together and takes it apart             *)
(* (api/server.py, lifespan, with the builders it calls and the registries *)
(* of plugin sources, services and listeners).  The parts come up one      *)
(* after the other, each only if the configuration and what came up before *)
(* allow it; a plugin's service that fails is left behind, any other       *)
(* failure ends the process; the shutdown takes them down in an order of   *)
(* its own.                                                                *)
(***************************************************************************)
EXTENDS Integers, Sequences, FiniteSets

CONSTANTS
    Switches,         \* what the configuration and the hardware offer
    PluginServices    \* registered plugin services, in registration order

VARIABLES
    offered,          \* the switches that are on
    phase,            \* "boot", "serving", "shutdown", "stopped", "aborted", "crashed"
    step,             \* how far the phase has got
    pluginStep,       \* start_all(): the plugin service that is next
    up,               \* the parts that run
    live,             \* service_registry._live
    holding,          \* plugin services that hold threads, sockets or files
    began, stuck,     \* history: plugin services that started; whose stop() raised
    shells            \* the terminal has open shells

vars == << offered, phase, step, pluginStep, up, live, holding, began, stuck, shells >>

Has(s) == s \in offered

-----------------------------------------------------------------------------
(* What is built, by the configuration and what is there already.          *)

TxService == Has("transmit")
NativeTx == TxService /\ Has("concentrator")
Poller == Has("repeaters") /\ TxService
Nodeinfo == NativeTx
Telemetry == NativeTx
Position == NativeTx
Spectral == Has("scanInterval") /\ Has("concentrator") /\ Has("sx1261")
Rfenv == Has("rfenv") /\ Has("scanInterval") /\ ~ Spectral
CaptureRam == Has("captureRam") /\ Has("concentrator") /\ ~ Spectral /\ ~ Rfenv

\* What the button announces on: each part it calls when it is pressed.
AdvertSteps ==
    (IF Nodeinfo THEN {"nodeinfo"} ELSE {}) \cup {"pipeline"}

Built(part) ==
    CASE part = "nodeinfo" -> Nodeinfo
      [] part = "telemetry" -> Telemetry
      [] part = "position" -> Position
      [] part = "poller" -> Poller
      [] part = "spectral" -> Spectral
      [] part = "rfenv" -> Rfenv
      [] part = "captureRam" -> CaptureRam
      [] part = "led" -> Has("led")
      [] part = "button" -> Has("button")
      [] part = "updates" -> Has("updates")
      [] OTHER -> TRUE

\* The order of the first half of lifespan ...
StartOrder ==
    << "pipeline", "plugins", "upstream", "nodeinfo", "telemetry", "position", "poller", "noise",
       "spectral", "rfenv", "captureRam", "temperature", "led", "button", "updates", "routes", "listeners" >>

\* ... and of the second.
StopOrder ==
    << "listeners", "plugins", "spectral", "rfenv", "captureRam", "noise", "temperature", "led", "button",
       "updates", "nodeinfo", "telemetry", "position", "poller", "upstream", "pipeline", "terminal" >>

\* Cancelled and awaited with every exception swallowed: these cannot hold up the rest.
Cancelled == {"noise", "temperature", "led", "button", "updates"}

TypeOK ==
    /\ offered \subseteq Switches
    /\ phase \in {"boot", "serving", "shutdown", "stopped", "aborted", "crashed"}
    /\ step \in 1 .. Len(StopOrder) + 1
    /\ pluginStep \in 1 .. Len(PluginServices) + 1
    /\ up \subseteq {StartOrder[i] : i \in DOMAIN StartOrder}
    /\ live \in Seq({PluginServices[i] : i \in DOMAIN PluginServices})
    /\ \A part \in {holding, began, stuck} : part \subseteq {PluginServices[i] : i \in DOMAIN PluginServices}
    /\ shells \in BOOLEAN

\* create_app() has built the application; nothing runs yet.
Init ==
    /\ offered \in SUBSET Switches
    /\ phase = "boot" /\ step = 1 /\ pluginStep = 1
    /\ up = {} /\ live = << >> /\ holding = {} /\ began = {} /\ stuck = {} /\ shells = FALSE

-----------------------------------------------------------------------------
(* Coming up.                                                              *)

Booting(part) == phase = "boot" /\ step <= Len(StartOrder) /\ StartOrder[step] = part

StartPart ==
    /\ phase = "boot" /\ step <= Len(StartOrder) /\ StartOrder[step] # "plugins"
    /\ up' = IF Built(StartOrder[step]) THEN up \cup {StartOrder[step]} ELSE up
    /\ step' = step + 1
    /\ UNCHANGED << offered, phase, pluginStep, live, holding, began, stuck, shells >>

\* A core part raises: lifespan does not come to its shutdown, the process ends.
StartFails ==
    /\ phase = "boot" /\ step <= Len(StartOrder) /\ StartOrder[step] # "plugins"
    /\ Built(StartOrder[step])
    /\ phase' = "crashed"
    /\ up' = {} /\ live' = << >> /\ holding' = {} /\ began' = {}
    /\ UNCHANGED << offered, step, pluginStep, stuck, shells >>

\* _live.append() comes before start().
Tracked(service, outcome) ==
    IF outcome \in {"started", "raises", "raises holding"} THEN Append(live, service) ELSE live

\* One turn of start_all(): build() may opt out or raise, wire() may raise, start() may raise
\* with or without having taken hold of anything.
StartPluginService ==
    /\ Booting("plugins") /\ pluginStep <= Len(PluginServices)
    /\ LET service == PluginServices[pluginStep]
       IN \E outcome \in {"opts out", "unbuilt", "started", "raises", "raises holding"} :
            /\ live' = Tracked(service, outcome)
            /\ holding' = IF outcome \in {"started", "raises holding"} THEN holding \cup {service} ELSE holding
            /\ began' = IF outcome = "started" THEN began \cup {service} ELSE began
    /\ pluginStep' = pluginStep + 1
    /\ UNCHANGED << offered, phase, step, up, stuck, shells >>

PluginServicesStarted ==
    /\ Booting("plugins") /\ pluginStep > Len(PluginServices)
    /\ step' = step + 1
    /\ UNCHANGED << offered, phase, pluginStep, up, live, holding, began, stuck, shells >>

\* lifespan yields: the server begins to answer.
Ready ==
    /\ phase = "boot" /\ step > Len(StartOrder)
    /\ phase' = "serving"
    /\ UNCHANGED << offered, step, pluginStep, up, live, holding, began, stuck, shells >>

\* _init_routes() has given the routes their objects.
Answering == phase = "serving" /\ "routes" \in up

OpenShell ==
    /\ Answering /\ ~ shells
    /\ shells' = TRUE
    /\ UNCHANGED << offered, phase, step, pluginStep, up, live, holding, began, stuck >>

-----------------------------------------------------------------------------
(* Going down.                                                             *)

\* The server has answered its last request when the shutdown begins.
Signalled ==
    /\ phase = "serving"
    /\ phase' = "shutdown" /\ step' = 1 /\ up' = up \ {"routes"}
    /\ UNCHANGED << offered, pluginStep, live, holding, began, stuck, shells >>

Stopping(part) == phase = "shutdown" /\ step <= Len(StopOrder) /\ StopOrder[step] = part

StopPart ==
    /\ phase = "shutdown" /\ step <= Len(StopOrder) /\ StopOrder[step] \notin {"plugins", "terminal"}
    /\ up' = up \ {StopOrder[step]}
    /\ step' = step + 1
    /\ UNCHANGED << offered, phase, pluginStep, live, holding, began, stuck, shells >>

\* stop() of a core part raises: what follows in the shutdown is skipped.
StopFails ==
    /\ phase = "shutdown" /\ step <= Len(StopOrder)
    /\ StopOrder[step] \in up \ (Cancelled \cup {"listeners"})
    /\ phase' = "aborted"
    /\ UNCHANGED << offered, step, pluginStep, up, live, holding, began, stuck, shells >>

\* stop_all() walks reversed(_live).
NextToStop(services) == services[Len(services)]

StopPluginService ==
    /\ Stopping("plugins") /\ live # << >>
    /\ LET service == NextToStop(live)
       IN /\ live' = SubSeq(live, 1, Len(live) - 1)
          /\ \/ holding' = holding \ {service} /\ UNCHANGED stuck
             \/ stuck' = stuck \cup {service} /\ UNCHANGED holding
    /\ UNCHANGED << offered, phase, step, pluginStep, up, began, shells >>

PluginServicesStopped ==
    /\ Stopping("plugins") /\ live = << >>
    /\ step' = step + 1
    /\ UNCHANGED << offered, phase, pluginStep, up, live, holding, began, stuck, shells >>

StopTerminal ==
    /\ Stopping("terminal")
    /\ shells' = FALSE /\ step' = step + 1 /\ phase' = "stopped"
    /\ UNCHANGED << offered, pluginStep, up, live, holding, began, stuck >>

Next ==
    \/ StartPart \/ StartFails \/ StartPluginService \/ PluginServicesStarted \/ Ready \/ OpenShell
    \/ Signalled \/ StopPart \/ StopFails \/ StopPluginService \/ PluginServicesStopped \/ StopTerminal

Spec == Init /\ [][Next]_vars

-----------------------------------------------------------------------------

\* What each part calls into while it runs: the database, the capture sources and the
\* concentrator all belong to the pipeline.
Uses(part) ==
    CASE part \in {"nodeinfo", "telemetry", "position", "poller", "spectral", "captureRam", "led", "routes"} -> {"pipeline"}
      [] part = "button" -> AdvertSteps
      [] OTHER -> {}

\* While a part runs, in the start-up and in the shutdown, what it calls into runs too: no
\* broadcast over a stopped concentrator, no poll into a closed database, no plugin service
\* without the pipeline it was handed.
NeedsMet ==
    phase # "aborted" =>
        /\ \A part \in up : Uses(part) \subseteq up
        /\ holding \ stuck # {} => "pipeline" \in up

\* A plugin service may build on those registered before it, so the newer of two that started
\* never runs without the older one, unless its own stop() raised.
NewestFirst ==
    \A i, j \in DOMAIN PluginServices :
        /\ i < j
        /\ PluginServices[i] \in began
        /\ PluginServices[j] \in holding \ stuck
        => PluginServices[i] \in holding

\* A shutdown that came to its end has left no task, no shell and no plugin service behind
\* but one whose own stop() raised, those whose start() failed half way included.
NothingLeftRunning ==
    phase = "stopped" => up = {} /\ ~ shells /\ holding \subseteq stuck
=============================================================================
