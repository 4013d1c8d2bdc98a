---------------------------- MODULE FirmwareFlash ----------------------------
(***************************************************************************)
(* Compiling and flashing firmware from the dashboard: the six routes      *)
(* src/api/routes/{meshtastic,meshcore,rnode,rfenv_companion,pager,        *)
(* reticulum_companion}_firmware_routes.py.                                *)
(*                                                                         *)
(* A request streams the tool's output, so it lives as long as its client. *)
(* When the client goes, the generator ends where it is; the tool (esptool, *)
(* rnodeconf, arduino-cli, pio) and the thread that fills the firmware      *)
(* cache go on.  Nothing keeps two requests apart.  A behaviour is about   *)
(* one of the six cards and one board, at the port which the configuration *)
(* gives to the source or service of that card, if there is one.           *)
(***************************************************************************)
EXTENDS Integers, FiniteSets

CONSTANTS
    Clients,     \* browsers, each of which compiles and flashes once
    Variants,    \* what a sketch is compiled for: band, capcodes, WiFi
    MaxKills     \* bound: crashes of the service

VARIABLES
    holder,      \* who has the port open when nobody flashes
    samePath,    \* is the port asked for spelled as it is configured
    card,        \* the card that is used
    open,        \* the holder is started
    job,         \* the flash request of each client
    fetcher,     \* the file a client's fetch thread is writing
    files,       \* the firmware caches
    tools,       \* clients whose tool runs at the port
    compiler,    \* what a client's compiler has read of the sketch
    asked,       \* what a client compiles for
    sketch, artifact,
    flags,       \* what has happened: the exceptions the properties name
    kills

fvars == << holder, samePath, card, open, job, fetcher, files, tools, compiler, asked, sketch,
            artifact, flags, kills >>
choices == << holder, samePath, card >>
compiling == << compiler, asked, sketch, artifact >>

Official == {"meshtastic", "meshcore"}        \* downloaded, written with esptool
Built == {"rfenv", "pager", "reticulum"}      \* compiled here
Idle == [stage |-> "idle", erase |-> FALSE, fs |-> FALSE, image |-> "none", told |-> "none"]

(* Whom a card looks for at the port: the pager and Reticulum cards look   *)
(* for nobody.                                                             *)
Keeper ==
    CASE card = "meshtastic" -> "stick" [] card = "meshcore" -> "companion"
      [] card = "rnode" -> "rnsd"       [] card = "rfenv" -> "scan"
      [] OTHER -> "nobody"

Init ==
    /\ card \in Official \cup Built \cup {"rnode"}
    /\ holder = Keeper
    /\ samePath \in BOOLEAN /\ (holder = "nobody" => samePath)
    /\ open = (holder # "nobody")
    /\ job = [c \in Clients |-> Idle]
    /\ fetcher = [c \in Clients |-> "none"]
    /\ files = [f \in {"meta", "app", "fs", "merged"} |-> "none"]
    /\ tools = {}
    /\ compiler = [c \in Clients |-> "none"]
    /\ asked = [c \in Clients |-> "none"]
    /\ sketch = CHOOSE v \in Variants : TRUE
    /\ artifact = "none"
    /\ flags = {} /\ kills = 0

-----------------------------------------------------------------------------
(* Is the keeper of the port found: all but the RF environment card        *)
(* compare every alias of the port.                                        *)
Matches == holder # "nobody" /\ (card = "rfenv" => samePath)

Busy(c) == job[c].stage \notin {"idle", "done", "left"}
Others(c) == \/ tools \ {c} # {}
             \/ \E d \in Clients \ {c} : Busy(d) \/ fetcher[d] # "none"

(* A request with a valid board and port.                                  *)
Ask(c) ==
    /\ job[c].stage = "idle" /\ compiler[c] = "none"
    /\ card \in Built => artifact # "none"
    /\ \E e \in BOOLEAN :
         /\ e => card \in {"meshtastic", "rnode"}
         /\ job' = [job EXCEPT ![c].erase = e,
                               ![c].stage = IF card \in Official THEN "fetch" ELSE "release"]
    /\ flags' = flags \cup (IF Others(c) THEN {"overlap"} ELSE {})
    /\ UNCHANGED << choices, open, fetcher, files, tools, compiling, kills >>

Ends(c, result) == [job EXCEPT ![c] = [Idle EXCEPT !.stage = "done", !.told = result]]

-----------------------------------------------------------------------------
(* _ensure_board_firmware_cached_sync() of the Meshtastic card: metadata   *)
(* and application present count as a cached release.                      *)
Cached == files["meta"] # "none" /\ files["app"] # "none"
Writing(f) == {c \in Clients : fetcher[c] = f}
Mixed(c) == \E d \in Clients \ {c} : fetcher[d] \in {"meta", "app", "fs"}

(* Cut metadata do not parse; the filesystem image is left out when it is  *)
(* not there.                                                              *)
FetchHit(c) ==
    /\ job[c].stage = "fetch" /\ card = "meshtastic" /\ fetcher[c] = "none" /\ Cached
    /\ job' = IF files["meta"] = "cut" THEN Ends(c, "error")
              ELSE [job EXCEPT ![c].stage = "release", ![c].fs = (files["fs"] # "none")]
    /\ flags' = flags \cup (IF Mixed(c) THEN {"torn"} ELSE {})
    /\ UNCHANGED << choices, open, fetcher, files, tools, compiling, kills >>

(* The archive is downloaded first, then the files are written in place.   *)
FetchMiss(c) ==
    /\ job[c].stage = "fetch" /\ card = "meshtastic" /\ fetcher[c] = "none" /\ ~ Cached
    /\ \/ job' = Ends(c, "error") /\ UNCHANGED << fetcher, files, flags >>
       \/ /\ fetcher' = [fetcher EXCEPT ![c] = "meta"]
          /\ files' = [files EXCEPT !["meta"] = "cut"]
          /\ flags' = flags \cup (IF Mixed(c) THEN {"torn"} ELSE {})
          /\ UNCHANGED job
    /\ UNCHANGED << choices, open, tools, compiling, kills >>

Following == [meta |-> "app", app |-> "fs", fs |-> "none"]

FetchWrites(c) ==
    /\ fetcher[c] \in {"meta", "app", "fs"}
    /\ LET f == fetcher[c]  n == Following[f]
           written == [files EXCEPT ![f] = IF Writing(f) = {c} THEN "whole" ELSE "cut"]
       IN /\ fetcher' = [fetcher EXCEPT ![c] = n]
          /\ files' = IF n = "none" THEN written ELSE [written EXCEPT ![n] = "cut"]
          /\ job' = IF n = "none" /\ job[c].stage = "fetch"
                    THEN [job EXCEPT ![c].stage = "release", ![c].fs = TRUE] ELSE job
    /\ flags' = flags \cup (IF Mixed(c) THEN {"torn"} ELSE {})
    /\ UNCHANGED << choices, open, tools, compiling, kills >>

(* The MeshCore card downloads to a temporary file and renames it.         *)
FetchMerged(c) ==
    /\ \/ /\ job[c].stage = "fetch" /\ card = "meshcore" /\ fetcher[c] = "none"
          /\ \/ files["merged"] # "none" /\ job' = [job EXCEPT ![c].stage = "release"]
                /\ UNCHANGED << fetcher, files >>
             \/ files["merged"] = "none" /\ UNCHANGED << job, files >>
                /\ fetcher' = [fetcher EXCEPT ![c] = "temp"]
       \/ /\ fetcher[c] = "temp"
          /\ fetcher' = [fetcher EXCEPT ![c] = "none"]
          /\ \/ files' = [files EXCEPT !["merged"] = "whole"]
                /\ job' = IF job[c].stage = "fetch" THEN [job EXCEPT ![c].stage = "release"] ELSE job
             \/ UNCHANGED files
                /\ job' = IF job[c].stage = "fetch" THEN Ends(c, "error") ELSE job
    /\ UNCHANGED << choices, open, tools, compiling, flags, kills >>

-----------------------------------------------------------------------------
(* The keeper of the port, if it is matched, is stopped.  The pager and    *)
(* Reticulum cards have none.                                              *)
Released(c, stage) == job' = [job EXCEPT ![c].stage = stage]

ReleaseSource(c) ==
    /\ job[c].stage = "release" /\ card \in Official
    /\ Released(c, "write") /\ open' = (open /\ ~ Matches)
    /\ UNCHANGED << choices, fetcher, files, tools, compiling, flags, kills >>

(* `systemctl stop rnsd' may fail, and the flash goes on.                  *)
ReleaseRnsd(c) ==
    /\ job[c].stage = "release" /\ card = "rnode"
    /\ Released(c, IF job[c].erase THEN "wipe" ELSE "write")
    /\ \/ open' = (open /\ ~ Matches) /\ UNCHANGED flags
       \/ flags' = flags \cup {"systemctl"} /\ UNCHANGED open
    /\ UNCHANGED << choices, fetcher, files, tools, compiling, kills >>

ReleaseScan(c) ==
    /\ job[c].stage = "release" /\ card = "rfenv"
    /\ Released(c, "write") /\ open' = (open /\ ~ Matches)
    /\ UNCHANGED << choices, fetcher, files, tools, compiling, flags, kills >>

ReleaseNothing(c) ==
    /\ job[c].stage = "release" /\ card \in {"pager", "reticulum"}
    /\ Released(c, "write")
    /\ UNCHANGED << choices, open, fetcher, files, tools, compiling, flags, kills >>

(* What the tool is given to write.                                        *)
OfficialImage(c) ==
    IF card = "meshcore" THEN files["merged"]
    ELSE IF files["app"] = "whole" /\ (job[c].erase => job[c].fs /\ files["fs"] = "whole")
         THEN "whole" ELSE "cut"

(* arduino-cli uploads what was built; pio builds again what has changed.  *)
BuiltImage == IF card = "reticulum" THEN sketch ELSE artifact

Spawn(c) ==
    /\ job[c].stage \in {"wipe", "write"} /\ c \notin tools
    /\ tools' = tools \cup {c}
    /\ job' = [job EXCEPT ![c].image = CASE card \in Official -> OfficialImage(c)
                                         [] card \in Built -> BuiltImage
                                         [] OTHER -> "whole"]
    /\ flags' = flags \cup (IF Mixed(c) THEN {"torn"} ELSE {})
    /\ UNCHANGED << choices, open, fetcher, files, compiling, kills >>

(* The tool ends, its client still there or not.                           *)
Told(c, ok) ==
    [job EXCEPT ![c] = [Idle EXCEPT !.stage = IF Matches THEN "restart" ELSE "done",
                                    !.told = IF ok THEN "success" ELSE "error",
                                    !.image = job[c].image]]

ToolEnds(c) ==
    /\ c \in tools /\ job[c].stage \in {"write", "left"} /\ card # "rnode"
    /\ tools' = tools \ {c}
    /\ \E ok \in BOOLEAN : job' = IF job[c].stage = "left" THEN job ELSE Told(c, ok)
    /\ UNCHANGED << choices, open, fetcher, files, compiling, flags, kills >>

(* rnodeconf says in its output whether the board is provisioned.          *)
InstallEnds(c) ==
    /\ c \in tools /\ job[c].stage \in {"write", "left"} /\ card = "rnode"
    /\ tools' = tools \ {c}
    /\ \E marker \in BOOLEAN : job' = IF job[c].stage = "left" THEN job ELSE Told(c, marker)
    /\ UNCHANGED << choices, open, fetcher, files, compiling, flags, kills >>

(* A wipe that failed ends the request, through its `finally'.             *)
WipeEnds(c) ==
    /\ c \in tools /\ job[c].stage = "wipe"
    /\ tools' = tools \ {c}
    /\ job' \in {[job EXCEPT ![c].stage = "write"], Told(c, FALSE)}
    /\ UNCHANGED << choices, open, fetcher, files, compiling, flags, kills >>

(* The source is started again, whether the flash succeeded or not, except *)
(* after Bluetooth firmware.                                               *)
RestartSource(c) ==
    /\ job[c].stage = "restart" /\ card \in Official
    /\ job' = [job EXCEPT ![c].stage = "done"]
    /\ \/ open' = TRUE /\ UNCHANGED flags
       \/ card = "meshcore" /\ job[c].told = "success"
          /\ flags' = flags \cup {"bluetooth"} /\ UNCHANGED open
    /\ UNCHANGED << choices, fetcher, files, tools, compiling, kills >>

(* `systemctl start rnsd' may fail.                                        *)
RestartRnsd(c) ==
    /\ job[c].stage = "restart" /\ card = "rnode"
    /\ job' = [job EXCEPT ![c].stage = "done"]
    /\ \/ open' = TRUE /\ UNCHANGED flags
       \/ flags' = flags \cup {"systemctl"} /\ UNCHANGED open
    /\ UNCHANGED << choices, fetcher, files, tools, compiling, kills >>

RestartScan(c) ==
    /\ job[c].stage = "restart" /\ card = "rfenv"
    /\ job' = [job EXCEPT ![c].stage = "done"]
    /\ open' = TRUE
    /\ UNCHANGED << choices, fetcher, files, tools, compiling, flags, kills >>

(* The client goes.                                                        *)
Leave(c) ==
    /\ Busy(c)
    /\ job' = [job EXCEPT ![c] = [Idle EXCEPT !.stage = "left"]]
    /\ flags' = flags \cup (IF open \/ holder = "nobody" THEN {} ELSE {"left"})
    /\ UNCHANGED << choices, open, fetcher, files, tools, compiling, kills >>

(* The service ends and starts: requests, threads and tools are gone; rnsd *)
(* is a service of its own.                                                *)
Kill ==
    /\ kills < MaxKills /\ kills' = kills + 1
    /\ tools # {} \/ \E c \in Clients : Busy(c) \/ fetcher[c] # "none" \/ compiler[c] # "none"
    /\ job' = [c \in Clients |-> IF Busy(c) THEN [Idle EXCEPT !.stage = "left"] ELSE job[c]]
    /\ flags' = flags \cup (IF \E c \in Clients : fetcher[c] \in {"meta", "app", "fs"}
                            THEN {"torn"} ELSE {})
                      \cup (IF holder = "rnsd" /\ ~ open THEN {"left"} ELSE {})
                      \cup (IF \E c \in Clients : compiler[c] # "none" THEN {"crossed"} ELSE {})
    /\ fetcher' = [c \in Clients |-> "none"] /\ tools' = {}
    /\ compiler' = [c \in Clients |-> "none"]
    /\ open' = (open \/ holder \in {"stick", "companion", "scan"})
    /\ UNCHANGED << choices, files, asked, sketch, artifact >>

-----------------------------------------------------------------------------
(* compile_firmware_stream(): the sketch is rewritten for the band, the    *)
(* capcodes or the network, then the compiler is started, which reads it a *)
(* moment later.                                                           *)
Rewritten(c, reads) ==
    /\ job[c].stage = "idle" /\ asked[c] = "none"
    /\ \E v \in Variants : asked' = [asked EXCEPT ![c] = v] /\ sketch' = v
    /\ compiler' = [compiler EXCEPT ![c] = reads]
    /\ flags' = flags \cup (IF \E d \in Clients \ {c} : asked[d] # "none" THEN {"crossed"} ELSE {})
    /\ UNCHANGED << choices, open, job, fetcher, files, tools, artifact, kills >>

CompileBand(c) == card = "rfenv" /\ Rewritten(c, "reading")

CompileCapcodes(c) == card = "pager" /\ Rewritten(c, "reading")

CompileNode(c) == card = "reticulum" /\ Rewritten(c, "reading")

CompilerReads(c) ==
    /\ compiler[c] = "reading"
    /\ compiler' = [compiler EXCEPT ![c] = sketch]
    /\ UNCHANGED << choices, open, job, fetcher, files, tools, asked, sketch, artifact, flags, kills >>

(* It writes the artifact, or fails and leaves the one of before.          *)
CompilerEnds(c) ==
    /\ compiler[c] \in Variants
    /\ compiler' = [compiler EXCEPT ![c] = "none"]
    /\ \/ artifact' = compiler[c] /\ UNCHANGED flags
       \/ flags' = flags \cup {"crossed"} /\ UNCHANGED artifact
    /\ UNCHANGED << choices, open, job, fetcher, files, tools, asked, sketch, kills >>

-----------------------------------------------------------------------------
Work(c) ==
    \/ FetchHit(c) \/ FetchMiss(c) \/ FetchWrites(c) \/ FetchMerged(c)
    \/ ReleaseSource(c) \/ ReleaseRnsd(c) \/ ReleaseScan(c) \/ ReleaseNothing(c)
    \/ Spawn(c) \/ ToolEnds(c) \/ InstallEnds(c) \/ WipeEnds(c)
    \/ RestartSource(c) \/ RestartRnsd(c) \/ RestartScan(c)

Next ==
    \/ \E c \in Clients :
          \/ Ask(c) \/ Work(c) \/ Leave(c)
          \/ CompileBand(c) \/ CompileCapcodes(c) \/ CompileNode(c)
          \/ CompilerReads(c) \/ CompilerEnds(c)
    \/ Kill

(* Requests, threads and tools come to their end.                          *)
Fairness == \A c \in Clients : WF_fvars(Work(c))

Spec == Init /\ [][Next]_fvars /\ Fairness

-----------------------------------------------------------------------------
TypeOK ==
    /\ open \in BOOLEAN /\ tools \subseteq Clients
    /\ \A c \in Clients :
         /\ job[c].stage \in {"idle", "fetch", "release", "wipe", "write", "restart", "done", "left"}
         /\ fetcher[c] \in {"none", "meta", "app", "fs", "temp"}
         /\ compiler[c] \in Variants \cup {"none", "reading"}
    /\ files \in [{"meta", "app", "fs", "merged"} -> {"none", "cut", "whole"}]
    /\ flags \subseteq {"overlap", "torn", "systemctl", "bluetooth", "left", "crossed"}
    /\ kills \in 0..MaxKills

(* An official release that was flashed with success was whole, filesystem *)
(* included, whatever fetches were cut short or met: always from the       *)
(* MeshCore cache, from the Meshtastic cache as long as no crash cut a     *)
(* fetch and no two fetches met.                                           *)
FlashedWhole ==
    \A c \in Clients : job[c].told = "success" =>
        /\ card = "meshcore" => job[c].image = "whole"
        /\ card = "meshtastic" => job[c].image = "whole" \/ "torn" \in flags

(* While a tool writes to the port, the source or service of its own kind  *)
(* that is configured there is stopped, unless requests overlap, systemctl *)
(* refused, or the RF environment card was given another spelling.         *)
HolderReleased ==
    tools # {} /\ open /\ holder # "nobody"
        => "overlap" \in flags \/ "systemctl" \in flags
           \/ (card = "rfenv" /\ ~ samePath)

(* Whoever keeps the port has it back after the flash, succeeded or not,   *)
(* unless its client left, systemctl refused or Bluetooth firmware is on.  *)
HolderBack == []<>(open \/ holder = "nobody" \/ flags \cap {"left", "systemctl", "bluetooth"} # {})

(* A client that compiled and flashed gets what it compiled for, as long   *)
(* as nobody else compiled the same sketch and the compiler succeeded.     *)
FlashedAsAsked ==
    \A c \in Clients :
        card \in Built /\ job[c].told = "success" /\ asked[c] # "none"
            => job[c].image = asked[c] \/ "crossed" \in flags
==============================================================================
