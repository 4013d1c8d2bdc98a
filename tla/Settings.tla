------------------------------- MODULE Settings ------------------------------
(***************************************************************************)
(* Settings changed from the dashboard: the handlers of                    *)
(* src/api/routes/config_routes.py (and the relay handler of               *)
(* system_config_routes.py), the configuration object they change, the     *)
(* file config/local.yaml they save it to (src/config.py), and the parts   *)
(* of the service that read a setting once, when they are built; and the   *)
(* setup wizard (src/cli/setup_wizard.py), a process of its own that reads *)
(* the file, asks the owner question after question, and writes it again.  *)
(*                                                                         *)
(* A handler checks and assigns field by field, then saves the fields of   *)
(* its request section by section.  No handler awaits in between, so two   *)
(* requests do not mix; a request may fail halfway.                        *)
(***************************************************************************)
EXTENDS Integers, FiniteSets

CONSTANTS
    ChannelNames,   \* names a Meshtastic or a MeshCore channel may have
    MaxRequests     \* bound: requests that change a setting

VARIABLES
    conf,       \* the AppConfig object
    disk,       \* what local.yaml says
    inUse,      \* what transmitter, relay and radio were built with
    mt, mc,     \* channel names of both protocols: in memory ...
    mtDisk, mcDisk, \* ... and on disk
    crypto,     \* per name, the protocol whose key the decoder holds
    promised,   \* the settings the clients were last told are saved
    halfway,    \* fields on disk that are not as promised: written by a request
                \* that failed, or put back by the wizard
    unsaved,    \* fields assigned by a request that was answered with an error
    told,       \* a response since the last start said "restart_required"
    quiet,      \* fields read at start that a response said were live
    dropped,    \* the Meshtastic handler took the MeshCore keys out
    keysFailed, \* channel keys were assigned but not saved or loaded
    wizard,     \* the file as the wizard read it, and the fields saved since
    requests

svars == << conf, disk, inUse, mt, mc, mtDisk, mcDisk, crypto, promised, halfway, unsaved,
            told, quiet, dropped, keysFailed, wizard, requests >>

(* "name" is the long name, "primary" the name of channel 0, "terminal"    *)
(* the dashboard's shell and "toggle" the owner's consent to it; node id 0 *)
(* is the one derived from the device id, with or without a line for it.   *)
Fields == {"enabled", "power", "duty", "rate", "region", "frequency", "name", "nodeId",
           "primary", "terminal", "toggle", "tiles"}
Custom == 2      \* a frequency that is no region's default
Default == [f \in Fields |-> 0]
(* tx_service reads the power from the configuration at each transmission, *)
(* and every map asks for the tiles' address.                              *)
ReadAtStart == Fields \ {"power", "tiles"}

(* _setup_channel_keys: one dictionary by name, MeshCore after Meshtastic. *)
Loaded(a, b) ==
    [n \in ChannelNames |-> IF n \in b THEN "mc" ELSE IF n \in a THEN "mt" ELSE "none"]

Init ==
    /\ conf = Default /\ disk = Default /\ inUse = Default /\ promised = Default
    /\ mt = {} /\ mc = {} /\ mtDisk = {} /\ mcDisk = {} /\ crypto = Loaded({}, {})
    /\ halfway = {} /\ unsaved = {} /\ told = FALSE /\ quiet = {} /\ dropped = FALSE
    /\ keysFailed = FALSE /\ wizard = [is |-> "idle"] /\ requests = 0

-----------------------------------------------------------------------------
Request == requests < MaxRequests /\ requests' = requests + 1

(* The fields of `new` replace those of `old`.                             *)
With(old, new) == [f \in Fields |-> IF f \in DOMAIN new THEN new[f] ELSE old[f]]

(* save_section_to_yaml merges the fields of this request into the file.   *)
Saved(new) == With(disk, new)

(* The fields of `d` were saved, in the wizard's back if it is asking.     *)
Noted(d) ==
    wizard' = IF wizard.is = "asking" THEN [wizard EXCEPT !.since = @ \cup d] ELSE wizard

(* A request that assigns `new`, and whose response calls `silent` live.   *)
(* The save succeeds, or fails after the fields of `first`, the section    *)
(* that is written before.                                                 *)
Answer(new, first, flag, silent) ==
    /\ conf' = With(conf, new)
    /\ \/ /\ disk' = Saved(new)
          /\ promised' = With(promised, new)
          /\ unsaved' = unsaved \ DOMAIN new
          /\ halfway' = halfway \ DOMAIN new
          /\ told' = (told \/ flag)
          /\ quiet' = quiet \cup {f \in silent \cap DOMAIN new : conf'[f] # inUse[f]}
          /\ Noted(DOMAIN new)
       \/ /\ DOMAIN new # {}
          /\ \E written \in {<< >>, first} :
              /\ disk' = Saved(written)
              /\ halfway' = halfway \cup DOMAIN written
          /\ unsaved' = unsaved \cup DOMAIN new
          /\ UNCHANGED << promised, told, quiet, wizard >>
    /\ UNCHANGED << inUse, mt, mc, mtDisk, mcDisk, crypto, dropped, keysFailed >>

(* update_transmit: "enabled" and the relay's rate are said to need a      *)
(* restart, the duty cycle is not, although its tracker was built with it. *)
UpdateTransmit ==
    /\ Request
    /\ \E new \in UNION {[d -> 0..1] : d \in SUBSET {"enabled", "power", "duty", "rate"}} :
        Answer(new, [f \in DOMAIN new \ {"rate"} |-> new[f]],
               DOMAIN new \cap {"enabled", "rate"} # {}, {"duty"})

(* A bad value ends the request after the assignments before it, to `d`.   *)
Rejected(d) ==
    /\ \E v \in 0..1 : conf' = [f \in Fields |-> IF f \in d THEN v ELSE conf[f]]
    /\ unsaved' = unsaved \cup d
    /\ UNCHANGED << disk, inUse, mt, mc, mtDisk, mcDisk, crypto, promised, halfway,
                    told, quiet, dropped, keysFailed, wizard >>

UpdateTransmitRejected ==
    /\ Request
    /\ \E d \in {{"enabled"}, {"enabled", "power"}, {"enabled", "power", "duty"}} :
        Rejected(d)

(* update_identity: a node id asks for a restart; a name does not,         *)
(* although the broadcaster keeps the one it was built with.  A short name *)
(* of more than four letters is refused after the long one was assigned.   *)
UpdateIdentity ==
    /\ Request
    /\ \/ \E new \in UNION {[d -> 0..1] : d \in SUBSET {"name", "nodeId"}} :
            Answer(new, << >>, "nodeId" \in DOMAIN new, {"name"})
       \/ Rejected({"name"})

(* update_dashboard: the terminal is refused unless the owner allowed it *)
(* in the file, by a field no handler writes; a bad address of the tiles   *)
(* or an unknown landing page is refused after the assignments before it.  *)
UpdateDashboard ==
    /\ Request
    /\ \/ \E new \in UNION {[d -> 0..1] : d \in SUBSET {"terminal", "tiles"}} :
            /\ "terminal" \in DOMAIN new => conf["toggle"] = 1
            /\ Answer(new, << >>, "terminal" \in DOMAIN new, {})
       \/ \E d \in SUBSET {"terminal", "tiles"} :
            /\ "terminal" \in d => conf["toggle"] = 1
            /\ Rejected(d)

(* update_relay: the rate is saved without asking for a restart.           *)
UpdateRelay ==
    /\ Request
    /\ \E v \in 0..1 : Answer([f \in {"rate"} |-> v], << >>, FALSE, {"rate"})

(* restart_needed of update_radio: each field of the request that differs  *)
(* from the configuration, but not the frequency a region brings with it.  *)
(* A request that failed has changed the configuration already: made       *)
(* again, it finds no difference.                                          *)
RestartNeeded(new) == \E f \in DOMAIN new : new[f] # conf[f]

UpdateRadio ==
    /\ Request
    /\ \/ \E r \in 0..1, q \in {0, 1, Custom} :
            LET new == [f \in {"region", "frequency"} |-> IF f = "region" THEN r ELSE q]
            IN  Answer(new, << >>, RestartNeeded(new), unsaved)
       \/ \E q \in {0, 1, Custom} :
            LET new == [f \in {"frequency"} |-> q]
            IN  Answer(new, << >>, RestartNeeded(new), unsaved)
       \/ \E r \in 0..1 :
            LET new == [f \in {"region", "frequency"} |-> r]
            IN  Answer(new, << >>, RestartNeeded([f \in {"region"} |-> r]),
                       unsaved \cup (IF r = conf["region"] THEN {"frequency"} ELSE {}))

-----------------------------------------------------------------------------
(* update_channels: the name of channel 0, if the request has it, is saved *)
(* first and called live, although the transmitter keeps the one it was    *)
(* built with; then the keys, and the decoder, which is cleared and given  *)
(* the Meshtastic keys only.                                               *)
UpdateChannels ==
    /\ Request
    /\ \E p \in {<< >>} \cup [{"primary"} -> 0..1] :
        /\ conf' = With(conf, p)
        /\ \/ /\ DOMAIN p # {}
              /\ unsaved' = unsaved \cup DOMAIN p
              /\ UNCHANGED << disk, promised, halfway, quiet, mt, mtDisk, crypto, dropped,
                              keysFailed, wizard >>
           \/ \E a \in SUBSET ChannelNames :
              /\ disk' = Saved(p)
              /\ mt' = a
              /\ \/ /\ mtDisk' = a
                    /\ crypto' = Loaded(a, {})
                    /\ dropped' = (mc # {})
                    /\ promised' = With(promised, p)
                    /\ unsaved' = unsaved \ DOMAIN p
                    /\ halfway' = halfway \ DOMAIN p
                    /\ quiet' = quiet \cup {f \in DOMAIN p : conf'[f] # inUse[f]}
                    /\ Noted(DOMAIN p)
                    /\ UNCHANGED keysFailed
                 \/ /\ keysFailed' = TRUE
                    /\ unsaved' = unsaved \cup DOMAIN p
                    /\ halfway' = halfway \cup DOMAIN p
                    /\ UNCHANGED << mtDisk, crypto, dropped, promised, quiet, wizard >>
    /\ UNCHANGED << inUse, mc, mcDisk, told >>

(* A slip: this handler, too, loads its own keys only.                     *)
UpdateMeshcoreOnly ==
    /\ Request
    /\ \E b \in SUBSET ChannelNames :
        mc' = b /\ mcDisk' = b /\ crypto' = Loaded({}, b) /\ dropped' = FALSE
    /\ UNCHANGED << conf, disk, inUse, mt, mtDisk, promised, halfway, unsaved, told, quiet,
                    keysFailed, wizard >>

(* update_meshcore_channels gives it both.                                 *)
UpdateMeshcoreChannels ==
    /\ Request
    /\ \E b \in SUBSET ChannelNames :
        /\ mc' = b
        /\ \/ /\ mcDisk' = b
              /\ crypto' = Loaded(mt, b)
              /\ dropped' = FALSE
              /\ UNCHANGED keysFailed
           \/ /\ keysFailed' = TRUE
              /\ UNCHANGED << mcDisk, crypto, dropped >>
    /\ UNCHANGED << conf, disk, inUse, mt, mtDisk, promised, halfway, unsaved, told, quiet,
                    wizard >>

-----------------------------------------------------------------------------
(* _load_existing_config: the wizard reads the file once, before it asks.  *)
StartSetup ==
    /\ wizard.is = "idle"
    /\ Request
    /\ wizard' = [is |-> "asking", base |-> disk, mt |-> mtDisk, mc |-> mcDisk, since |-> {}]
    /\ UNCHANGED << conf, disk, inUse, mt, mc, mtDisk, mcDisk, crypto, promised, halfway,
                    unsaved, told, quiet, dropped, keysFailed >>

(* The answers that concern these fields: any region, and whether the      *)
(* terminal may be enabled at all.  The identity is not asked for:         *)
(* _step_device_id repeats the one that was read.                          *)
RegionAnswers == [{"region"} -> 0..1]
ConsentAnswers == [{"toggle"} -> 0..1]
SameIdentity == [f \in {"name", "nodeId"} |-> wizard.base[f]]

(* _deep_merge: the answers over the file as it was read.                  *)
Merged(region, consent) == With(With(With(wizard.base, region), consent), SameIdentity)

(* run_setup: the merged configuration replaces the file.  A field that    *)
(* was saved since it was read is put back, unless it was asked for.       *)
FinishSetup ==
    /\ wizard.is = "asking"
    /\ \E region \in RegionAnswers, consent \in ConsentAnswers :
        /\ disk' = Merged(region, consent)
        /\ promised' = With(With(promised, region), consent)
    /\ mtDisk' = wizard.mt /\ mcDisk' = wizard.mc
    /\ halfway' = (halfway \cup wizard.since) \ {"region", "toggle"}
    /\ wizard' = [is |-> "idle"]
    /\ UNCHANGED << conf, inUse, mt, mc, crypto, unsaved, told, quiet, dropped, keysFailed,
                    requests >>

(* The owner leaves the wizard before its end.                             *)
QuitSetup ==
    /\ wizard.is = "asking"
    /\ wizard' = [is |-> "idle"]
    /\ UNCHANGED << conf, disk, inUse, mt, mc, mtDisk, mcDisk, crypto, promised, halfway,
                    unsaved, told, quiet, dropped, keysFailed, requests >>

(* load_config and the assembly of the service.                            *)
Restart ==
    /\ conf' = disk /\ inUse' = disk /\ mt' = mtDisk /\ mc' = mcDisk
    /\ crypto' = Loaded(mtDisk, mcDisk)
    /\ unsaved' = {} /\ told' = FALSE /\ quiet' = {} /\ dropped' = FALSE /\ keysFailed' = FALSE
    /\ UNCHANGED << disk, mtDisk, mcDisk, promised, halfway, wizard, requests >>

(* The service dies while the file is being written: it was truncated when *)
(* it was opened, and what is read back is empty.                          *)
CrashInSave ==
    /\ Request
    /\ disk' = Default /\ conf' = Default /\ inUse' = Default
    /\ mtDisk' = {} /\ mcDisk' = {} /\ mt' = {} /\ mc' = {} /\ crypto' = Loaded({}, {})
    /\ halfway' = Fields
    /\ unsaved' = {} /\ told' = FALSE /\ quiet' = {} /\ dropped' = FALSE /\ keysFailed' = FALSE
    /\ UNCHANGED << promised, wizard >>

Next ==
    \/ UpdateTransmit \/ UpdateTransmitRejected \/ UpdateRelay \/ UpdateRadio
    \/ UpdateIdentity \/ UpdateDashboard
    \/ UpdateChannels \/ UpdateMeshcoreChannels
    \/ StartSetup \/ FinishSetup \/ QuitSetup \/ Restart \/ CrashInSave

Spec == Init /\ [][Next]_svars

-----------------------------------------------------------------------------
TypeOK ==
    /\ \A c \in {conf, disk, inUse, promised} :
        DOMAIN c = Fields /\ \A f \in Fields : c[f] \in 0 .. (IF f = "frequency" THEN Custom ELSE 1)
    /\ mt \subseteq ChannelNames /\ mc \subseteq ChannelNames
    /\ mtDisk \subseteq ChannelNames /\ mcDisk \subseteq ChannelNames
    /\ crypto \in [ChannelNames -> {"none", "mt", "mc"}]
    /\ halfway \subseteq Fields /\ unsaved \subseteq Fields /\ quiet \subseteq Fields
    /\ told \in BOOLEAN /\ dropped \in BOOLEAN /\ keysFailed \in BOOLEAN
    /\ wizard.is \in {"idle", "asking"}
    /\ wizard.is = "asking" =>
        DOMAIN wizard.base = Fields /\ wizard.mt \cup wizard.mc \subseteq ChannelNames
    /\ requests \in 0 .. MaxRequests

(* The file holds what the clients were told is saved, and nothing of a    *)
(* request that was refused, however later requests are mixed with it; the *)
(* exceptions are a request whose second section could not be written, a   *)
(* file cut off by a crash, and a field saved while the wizard was asking: *)
(* the wizard keeps every other field, but puts that one back.             *)
Durable == \A f \in Fields : f \in halfway \/ disk[f] = promised[f]

(* A setting that is read at start and differs from the one in use was     *)
(* announced by "restart_required".  The handlers miss it for the duty     *)
(* cycle, for the relay's rate at /config/relay, for the frequency that a  *)
(* region brings when the region itself stays, for a radio change made     *)
(* again after its save failed, for the node's name and for channel 0's.   *)
RestartHonest ==
    \A f \in ReadAtStart : inUse[f] = conf[f] \/ told \/ f \in unsaved \/ f \in quiet

(* The decoder has the keys of both protocols, as after a restart, unless  *)
(* saving them failed or the last change was one of Meshtastic channels,   *)
(* which leaves the MeshCore keys out.                                     *)
KeysInUse ==
    \/ crypto = Loaded(mt, mc) \/ keysFailed
    \/ dropped /\ crypto = Loaded(mt, {})

(* The file keeps its promises, a pending restart was announced, and the   *)
(* decoder has its keys, with the named exceptions.                        *)
SettingsHonest == Durable /\ RestartHonest /\ KeysInUse
==============================================================================
