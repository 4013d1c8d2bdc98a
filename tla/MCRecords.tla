------------------------------ MODULE MCRecords -----------------------------
(***************************************************************************)
(* What the service keeps and answers for: channel slots, pages, settings, *)
(* sign-in, messages, plugins, LoRaWAN keys, what goes to the broker, the  *)
(* collector, the terminal, direct messages, the node directory, device    *)
(* names, send routing, replies, start-up and shutdown, the radio plan,    *)
(* the packet format and the plugin sources. Safety only. They share no    *)
(* state in these models, so a behaviour chooses one of them and the       *)
(* others stay as they are initially.                                      *)
(***************************************************************************)
EXTENDS Integers, Sequences, FiniteSets

CONSTANTS
    c1, c2, c3, Channels, SlotLists, Unusable, MaxSlots, SyncTasks, MaxEdits, MaxMisses,
    Pages, MaxRestarts,
    ChannelNames, MaxSettings,
    Passwords, MaxAttempts, DefaultAttempts, MaxAuthChanges, MaxTokens, MaxStarts,
    c0, ChatChannels, ChatLists, FirstChat, Peers, PeerIds, OurIds, MaxSavers, MaxHeard,
    MaxChannelEdits,
    AppIds, BuiltinApps, OfferedApps, AppRequires, AppVersions, Installers, MaxAppChanges,
    MaxBoots, MaxRefusals,
    Devices, RootKeys, Addrs, FirstKeys, DeviceLists, MaxJoins, MaxPuts,
    PubNodes, PubChannels, ChanHash, FirstMqtt, MqttSaves, MaxPublished, MaxUpdates,
    MaxDrops, MaxMqttStarts,
    RadarLinks, KeptRows, MaxMessages, MaxLoads, MaxRadarStarts, MaxMerges,
    Tabs, MaxSessions, MaxShutdowns,
    MaxResets, MaxPairs, MaxPeerPackets, MaxDbFailures,
    Contacts, Short, MaxStamp, MaxNodePackets, MaxNodeEvents,
    RadioLabels, RadioPorts, FirstRadios, RadioNames, Legacy, MaxListChanges, MaxNameFaults,
    OtherRadios, ExtraChannels, MaxRouted, MaxTexts, MaxMoves,
    ReplyNames, SameHash, FirstReplies, FirstHops, HopMax, MaxCopies, MaxReplyEdits,
    Switches,
    RadioRegions, RadioFrequencies, RadioPresets, RadioSlots, PagerFrequencies,
    MaxRadioPuts,
    WirePorts, WireHops, WireRelays, MaxFrames, MaxPassed, MaxCaptures,
    MaxSourceRequests, MaxCheckClock

VARIABLES
    part,
    channelKeys, slots, stage, position, desired, seen, exact, edits, lost,
    send, table, disk, heard, acks, matching, handled, early, pruned, undone, restarts,
    conf, file, inUse, mt, mc, mtDisk, mcDisk, crypto, promised, halfway, unsaved, told,
    quiet, dropped, keysFailed, wizard, edited,
    auth, saved, secrets, tokens, epoch, failures, lock, tries, trust, authChanges, starts,
    configured, hashMap, nameMap, rows, task, sending, heardCount, listEdits, seenTexts,
    met, wiped, aired,
    folder, aside, entries, entriesDisk, installing, appChanges, boots, refusals, wanted,
    orphaned, refused, crossedApps, cutOff, stray,
    realKey, asked, session, joins, devices, devicesDisk, rootKeys, sessionKeys, lastJoin,
    puts, lorawanStarts, standing, leftover,
    mqttConf, mqttDisk, active, allowed, link, mqttUp, discovery, announced, outbox,
    retained, published, updates, mqttStarts, drops, letOut, listed, outdated, partial,
    row, twin, stored, conn, tab, messages, loads, radarStarts, merges, named, behind,
    merged,
    tabAt, registry, child, stubborn, ttyHeld, masterFd, ptyClosed, ptyReader, terminating,
    trail, shutdowns, alone,
    peerKey, peerHas, keyFile, pair, pairs, keyCache, keyRow, updating, lastRead,
    pkiStarts, peerPackets, dbFailures, peerAnnounced, unread, garbled,
    dirRunning, nodeRows, nodeSaved, nodeStamps, nodePacket, syncTodo, syncChanged,
    nodeClearing, nodeReceived, nodeEvents, nodeApplied, nodeCrossed,
    radioKind, radioList, radioFile, radioSources, radioAt, namesWired, radioCallback,
    renaming, radioFlash, nameRequests, nameFaults, nameRestarts, namesAsked, nameBehind,
    listRefused,
    sendKind, radiosUp, peerBand, heardRows, peerClock, sendChannels, stickTable,
    stickKnown, directText, channelText, peerHeard, textsSent, peerMoves, clockSet,
    lastAired,
    defaultKey, replyChannels, replyHops, replyTasks, lastReply, requestCopies, replyEdits,
    offered, lifePhase, lifeStep, pluginStep, partsUp, liveServices, holding, began, stuck,
    shells,
    radio, radioDisk, chipPlan, restartAsked, movedUnasked, radioPuts,
    air, frames, lastPacket, peerRow, peerBattery, strayFrames, captures, peerTold,
    focus, sourcesOn, repoHead, sources, sourcesDisk, catalogCache, badge, sourceCheck,
    sourceInstall, dropIn, provenance, theme, themeDisk, packaged, depsShown, probes,
    setupLock, setupScripts, checkClock, sourceRequests, repoMoves, sourceBoots,
    sourceRefusals, trusted, followed, fromElsewhere, leftMain, disturbedChecks, probed,
    crossedProbes, leftScripts, chosenThemes, unsavedSources

channelVars == << channelKeys, slots, stage, position, desired, seen, exact, edits, lost >>
pagerVars == << send, table, disk, heard, acks, matching, handled, early, pruned, undone,
                restarts >>
settingVars == << conf, file, inUse, mt, mc, mtDisk, mcDisk, crypto, promised, halfway,
                  unsaved, told, quiet, dropped, keysFailed, wizard, edited >>
authVars == << auth, saved, secrets, tokens, epoch, failures, lock, tries, trust,
               authChanges, starts >>
messageVars == << configured, hashMap, nameMap, rows, task, sending, heardCount, listEdits,
                  seenTexts, met, wiped, aired >>
pluginVars == << folder, aside, entries, entriesDisk, installing, appChanges, boots,
                 refusals, wanted, orphaned, refused, crossedApps, cutOff, stray >>
lorawanVars == << realKey, asked, session, joins, devices, devicesDisk, rootKeys,
                  sessionKeys, lastJoin, puts, lorawanStarts, standing, leftover >>
mqttVars == << mqttConf, mqttDisk, active, allowed, link, mqttUp, discovery, announced,
               outbox, retained, published, updates, mqttStarts, drops, letOut, listed,
               outdated, partial >>
radarVars == << row, twin, stored, conn, tab, messages, loads, radarStarts, merges, named,
                behind, merged >>
terminalVars == << tabAt, registry, child, stubborn, ttyHeld, masterFd, ptyClosed,
                   ptyReader, terminating, trail, shutdowns, alone >>
directVars == << peerKey, peerHas, keyFile, pair, pairs, keyCache, keyRow, updating,
                 lastRead, pkiStarts, peerPackets, dbFailures, peerAnnounced, unread,
                 garbled >>
directoryVars == << dirRunning, nodeRows, nodeSaved, nodeStamps, nodePacket, syncTodo,
                    syncChanged, nodeClearing, nodeReceived, nodeEvents, nodeApplied,
                    nodeCrossed >>
namingVars == << radioKind, radioList, radioFile, radioSources, radioAt, namesWired,
                 radioCallback, renaming, radioFlash, nameRequests, nameFaults,
                 nameRestarts, namesAsked, nameBehind, listRefused >>
routingVars == << sendKind, radiosUp, peerBand, heardRows, peerClock, sendChannels,
                  stickTable, stickKnown, directText, channelText, peerHeard, textsSent,
                  peerMoves, clockSet, lastAired >>
repliesVars == << defaultKey, replyChannels, replyHops, replyTasks, lastReply,
                  requestCopies, replyEdits >>
lifespanVars == << offered, lifePhase, lifeStep, pluginStep, partsUp, liveServices,
                   holding, began, stuck, shells >>
radioVars == << radio, radioDisk, chipPlan, restartAsked, movedUnasked, radioPuts >>
wireVars == << air, frames, lastPacket, peerRow, peerBattery, strayFrames, captures,
               peerTold >>
sourceVars == << focus, sourcesOn, repoHead, sources, sourcesDisk, catalogCache, badge,
                 sourceCheck, sourceInstall, dropIn, provenance, theme, themeDisk,
                 packaged, depsShown, probes, setupLock, setupScripts, checkClock,
                 sourceRequests, repoMoves, sourceBoots, sourceRefusals, trusted, followed,
                 fromElsewhere, leftMain, disturbedChecks, probed, crossedProbes,
                 leftScripts, chosenThemes, unsavedSources >>

(* Values for the constants a cfg cannot write.                            *)
MCSlotLists == {<< >>, << c1 >>, << c2, c1 >>, << c3, c2, c1 >>}
MCChatLists == {<< c1, c2 >>, << c2 >>}
MCFirstChat == << c1, c2 >>
MCFirstKeys == [d1 |-> "k1", d2 |-> "k2"]
AppNeeds == [core |-> "none", base |-> "core", child |-> "base"]
MCDeviceLists ==
    { [d1 |-> r, d2 |-> [is |-> "keys", key |-> "k2", fields |-> FALSE]] :
        r \in { [is |-> "none"] } \cup [is : {"keys"}, key : {"k1"}, fields : BOOLEAN] }
    \cup { [d \in {"d1", "d2"} |-> [is |-> "keys", key |-> "k1", fields |-> FALSE]] }
MqttHash == [LongFast |-> 1, team |-> 2, odd |-> 0]
MqttConf(on, precision, channel, json, ha) ==
    [enabled |-> on, precision |-> precision, channels |-> {channel}, json |-> json, ha |-> ha]
MqttFirst == {MqttConf(TRUE, "exact", "LongFast", FALSE, TRUE),
              MqttConf(TRUE, "typo", "LongFast", TRUE, TRUE)}
MqttUpdates == {MqttConf(TRUE, "none", "LongFast", TRUE, TRUE),
                MqttConf(TRUE, "approximate", "team", TRUE, TRUE),
                MqttConf(FALSE, "exact", "LongFast", FALSE, FALSE)}
NodeRow(name, tele) == [is |-> "row", name |-> name, tele |-> tele, count |-> 1]
OldRows == {[row |-> [is |-> "none"], twin |-> [is |-> "none"], stored |-> FALSE],
            [row |-> NodeRow("", "null"), twin |-> NodeRow("known", "null"), stored |-> TRUE],
            [row |-> [is |-> "none"], twin |-> NodeRow("", "null"), stored |-> TRUE],
            [row |-> NodeRow("", "NULL"), twin |-> [is |-> "none"], stored |-> FALSE]}
OneRadio ==
    {<< [label |-> CHOOSE l \in RadioLabels : TRUE, port |-> CHOOSE p \in RadioPorts : TRUE, name |-> "none"] >>}
TwoChannels == {<< "a", "b" >>}
Extensions == << "p1", "p2" >>
WireHash == [k1 |-> 1, k2 |-> 0]
(* Two repositories of plugins, two commits each: what their catalogs say  *)
(* and what their folders hold.                                            *)
Listed(id, kind, version, api) ==
    [id |-> id, kind |-> kind, version |-> version, api |-> api,
     path |-> << IF kind = "theme" THEN "themes" ELSE "apps", id >>]
Toml(name, version) ==
    [name |-> name, version |-> version, api |-> 1, provides |-> {"routes"},
     locked |-> FALSE, setup |-> "setup.sh", check |-> "check.sh",
     scripts |-> {}, sidebar |-> "none", hook |-> "none",
     requires |-> "none",
     files |-> {"setup.sh", "check.sh", "theme.json", "theme.css"}]
RepoCatalogs == [u \in {"a", "b"} |-> [c \in {"1", "2"} |->
    CASE u = "a" -> << Listed("app", "app", c, 1), Listed("odd", "app", c, 1),
                       Listed("skin", "theme", c, 1),
                       Listed("fixed", "theme", c, 1) >>
      [] u = "b" /\ c = "1" -> << Listed("app", "app", "9", 2),
                       Listed("core", "app", "9", 1),
                       Listed("dusk", "theme", "9", 1) >>
      [] OTHER -> << Listed("app", "app", "9", 1), Listed("app", "app", "8", 1) >>]]
RepoTrees == [u \in {"a", "b"} |-> [c \in {"1", "2"} |->
    [i \in {"app", "odd", "core", "skin", "dusk", "fixed"} |->
        CASE i = "odd" /\ c = "1" ->
                [Toml(i, c) EXCEPT !.provides = {"sidebar"}]
          [] i = "odd" -> [Toml(i, c) EXCEPT !.locked = TRUE]
          [] OTHER -> Toml(i, c)]]]
ShippedFolders == [i \in {"app", "odd", "core", "skin", "dusk", "fixed"} |->
    CASE i = "skin" -> Toml(i, "0")
      [] i = "fixed" -> [Toml(i, "0") EXCEPT !.locked = TRUE]
      [] OTHER -> Toml("none", "none")]

Channel == INSTANCE ChannelSync WITH Lists <- SlotLists, Syncs <- SyncTasks
Pager == INSTANCE EmergencyPager
Setting == INSTANCE Settings WITH
    disk <- file, requests <- edited, MaxRequests <- MaxSettings
Auth == INSTANCE WebAuth WITH changes <- authChanges, MaxChanges <- MaxAuthChanges
Message == INSTANCE Messages WITH
    Primary <- c0, Extra <- ChatChannels, Lists <- ChatLists, FirstList <- FirstChat,
    Twin <- c2, Foreign <- c3, known <- seenTexts, MaxTasks <- MaxSavers
Plugin == INSTANCE Plugins WITH
    Apps <- AppIds, Builtin <- BuiltinApps, Offered <- OfferedApps,
    Requires <- AppRequires, Versions <- AppVersions, conf <- entries,
    confDisk <- entriesDisk, install <- installing, changes <- appChanges,
    crossed <- crossedApps, MaxChanges <- MaxAppChanges
Lorawan == INSTANCE LorawanSessions WITH Lists <- DeviceLists, restarts <- lorawanStarts
Publisher == INSTANCE Mqtt WITH
    Nodes <- PubNodes, Chans <- PubChannels, HashOf <- ChanHash, FirstConf <- FirstMqtt,
    Updates <- MqttSaves, conf <- mqttConf, disk <- mqttDisk, connected <- mqttUp,
    heard <- published, MaxHeard <- MaxPublished, starts <- mqttStarts,
    MaxStarts <- MaxMqttStarts, sent <- letOut
Radar == INSTANCE LocalMeshradar WITH
    Connections <- RadarLinks, FirstRows <- KeptRows, restarts <- radarStarts,
    MaxRestarts <- MaxRadarStarts
Shell == INSTANCE Terminal WITH
    conn <- tabAt, closed <- ptyClosed, reader <- ptyReader, held <- ttyHeld,
    fd <- masterFd, ending <- terminating
Direct == INSTANCE DirectMessages WITH
    file <- keyFile, cache <- keyCache, db <- keyRow, request <- lastRead,
    starts <- pkiStarts, MaxStarts <- 2, heard <- peerPackets, MaxHeard <- MaxPeerPackets,
    failures <- dbFailures, MaxFailures <- MaxDbFailures, announced <- peerAnnounced
Directory == INSTANCE NodeDirectory WITH
    running <- dirRunning, rows <- nodeRows, saved <- nodeSaved, stamps <- nodeStamps,
    packet <- nodePacket, todo <- syncTodo, changed <- syncChanged,
    clearing <- nodeClearing, received <- nodeReceived, events <- nodeEvents,
    applied <- nodeApplied, crossed <- nodeCrossed, MaxPackets <- MaxNodePackets,
    MaxEvents <- MaxNodeEvents
Naming == INSTANCE DeviceNames WITH
    Labels <- RadioLabels, Ports <- RadioPorts, Names <- RadioNames,
    MaxRequests <- MaxListChanges, MaxFaults <- MaxNameFaults, kind <- radioKind,
    list <- radioList, file <- radioFile, sources <- radioSources, at <- radioAt,
    wired <- namesWired, callback <- radioCallback, rename <- renaming,
    flash <- radioFlash, requests <- nameRequests, faults <- nameFaults,
    restarts <- nameRestarts, asked <- namesAsked, behind <- nameBehind,
    refused <- listRefused
Routing == INSTANCE SendRouting WITH
    First <- "first", Others <- OtherRadios, Primary <- "primary", Extra <- ExtraChannels,
    MaxHeard <- MaxRouted, MaxSends <- MaxTexts, MaxChanges <- MaxMoves, kind <- sendKind,
    up <- radiosUp, band <- peerBand, rows <- heardRows, clock <- peerClock,
    channels <- sendChannels, table <- stickTable, known <- stickKnown, dm <- directText,
    cast <- channelText, heard <- peerHeard, sends <- textsSent, changes <- peerMoves,
    set <- clockSet, aired <- lastAired
Replies == INSTANCE InboundReplies WITH
    Primary <- "primary", Names <- ReplyNames, Clashing <- SameHash,
    MaxEdits <- MaxReplyEdits, default <- defaultKey, list <- replyChannels,
    configured <- replyHops, tasks <- replyTasks, reply <- lastReply,
    copies <- requestCopies, edits <- replyEdits
Lifespan == INSTANCE ServiceLifespan WITH
    PluginServices <- Extensions, phase <- lifePhase, step <- lifeStep, up <- partsUp,
    live <- liveServices
Plan == INSTANCE RadioPlan WITH
    Regions <- RadioRegions, Frequencies <- RadioFrequencies, Presets <- RadioPresets,
    Slots <- RadioSlots, announced <- restartAsked, unannounced <- movedUnasked,
    chip <- chipPlan
Wire == INSTANCE WireFormat WITH
    Keys <- {"k2"}, Ours <- << "k1", "k2" >>, StickKeys <- << "k2" >>, HashOf <- WireHash,
    Ports <- WirePorts, HopLimits <- WireHops, Relays <- WireRelays,
    MaxPackets <- MaxCaptures, packet <- lastPacket, row <- peerRow,
    battery <- peerBattery, packets <- captures, known <- peerTold, stray <- strayFrames
Source == INSTANCE PluginSources WITH
    Urls <- {"a", "b"}, Commits <- << "1", "2" >>, OtherBranch <- "dev", Smuggled <- "..",
    Elsewhere <- "b", Ids <- {"app", "odd", "core", "skin", "dusk", "fixed"},
    ThemeIds <- {"skin", "dusk", "fixed"}, Builtin <- {"core", "dusk"},
    Catalogs <- RepoCatalogs, Trees <- RepoTrees, Shipped <- ShippedFolders,
    PLUGIN_API_VERSION <- 1, Ttl <- 2,
    Focuses <- {"sources", "updates", "themes", "setup"}, Checks <- {"timer", "button"},
    MaxClock <- MaxCheckClock, MaxRequests <- MaxSourceRequests, MaxMoves <- 1,
    MaxBoots <- 1, MaxRefusals <- 1, enabled <- sourcesOn, cache <- catalogCache,
    check <- sourceCheck, install <- sourceInstall, folder <- dropIn, prov <- provenance,
    default <- theme, defaultDisk <- themeDisk, deps <- packaged, verdict <- depsShown,
    batch <- probes, lock <- setupLock, scripts <- setupScripts, clock <- checkClock,
    requests <- sourceRequests, moves <- repoMoves, boots <- sourceBoots,
    refusals <- sourceRefusals, branch <- followed, foreign <- fromElsewhere,
    left <- leftMain, disturbed <- disturbedChecks, crossed <- crossedProbes,
    unwatched <- leftScripts, chosen <- chosenThemes, unsaved <- unsavedSources,
    head <- repoHead

(* A page is not named like the absence of one.                            *)
ASSUME PagerAssumption == Pager!NoPage \notin Pages /\ MaxRestarts \in Nat

(* What the code's defaults give: a threshold of at least one attempt, and *)
(* no password that reads as none.                                         *)
ASSUME AuthAssumption ==
    /\ MaxAttempts \subseteq Nat \ {0} /\ DefaultAttempts \in MaxAttempts
    /\ Auth!NoPassword \notin Passwords
    /\ MaxAuthChanges \in Nat /\ MaxTokens \in Nat /\ MaxStarts \in Nat \ {0}

(* The number of sessions the terminal allows is a number.                 *)
ASSUME ShellAssumption == MaxSessions \in Nat

(* Lists are lists of channels, and a companion has a slot beside Public.  *)
ASSUME SyncAssumption ==
    /\ SlotLists \subseteq Seq(Channels) /\ MaxSlots \in Nat /\ MaxSlots >= 2
    /\ MaxEdits \in Nat /\ MaxMisses \in Nat

(* A plugin needs another plugin or none; what is shipped needs only what  *)
(* is shipped with it.                                                     *)
ASSUME PluginAssumption ==
    /\ Plugin!None \notin AppIds \cup AppVersions /\ BuiltinApps \subseteq AppIds
    /\ AppRequires \in [AppIds -> AppIds \cup {Plugin!None}]
    /\ \A a \in BuiltinApps : AppRequires[a] \in BuiltinApps \cup {Plugin!None}

(* The devices are registered, the lists are lists of root keys.           *)
ASSUME LoraAssumption ==
    /\ FirstKeys \in [Devices -> RootKeys] /\ MaxJoins \in Nat
    /\ DeviceLists \subseteq [Devices -> Lorawan!Roots \cup {Lorawan!None}]

(* No contact is named like the absence of a name or like an identifier,   *)
(* and no radio like the absence of a name.                                *)
ASSUME DirectoryAssumption ==
    /\ Directory!None \notin Contacts /\ Directory!Hex \notin Contacts
    /\ MaxStamp \in Nat /\ MaxNodePackets \in Nat

ASSUME NamingAssumption == Naming!None \notin RadioNames

(* The radios are finitely many, and no channel or radio is named like the *)
(* absence of one.                                                         *)
ASSUME RoutingAssumption ==
    /\ IsFiniteSet(OtherRadios) /\ Routing!None \notin OtherRadios \cup ExtraChannels
    /\ MaxRouted \in Nat

ASSUME RepliesAssumption == HopMax \in Nat /\ IsFiniteSet(ReplyNames)

(* What an earlier version of the collector left are rows.                 *)
ASSUME RadarAssumption == KeptRows \subseteq [row : Radar!Rows, twin : Radar!Rows, stored : BOOLEAN]

(* The lists are lists of channels; no node is called as we are, and the   *)
(* channel whose key we have under another name is not the one that shares *)
(* the primary's hash.                                                     *)
ASSUME ChatAssumption ==
    /\ ChatLists \cup {FirstChat} \subseteq Seq(ChatChannels)
    /\ Message!Ours \notin Peers /\ c3 # c2

Init ==
    /\ part \in {"channels", "pager", "settings", "auth", "messages", "plugins", "lorawan",
                 "mqtt", "radar", "terminal", "direct", "nodes", "names", "routing",
                 "replies", "lifespan", "radio", "wire", "sources"}
    /\ Channel!Init /\ Pager!Init /\ Setting!Init /\ Auth!Init /\ Message!Init
    /\ Plugin!Init /\ Lorawan!Init /\ Shell!Init /\ Direct!Init /\ Directory!Init
    /\ Wire!Init
    /\ Publisher!Init
    /\ part # "mqtt" => mqttConf = MqttConf(TRUE, "exact", "LongFast", FALSE, TRUE)
    /\ Radar!Init
    /\ part # "radar" => row.is = "none" /\ twin.is = "none"
    /\ Naming!Init
    /\ part # "names" => radioKind = "stick" /\ radioList = << >>
    /\ part = "names" => radioList \in FirstRadios
    /\ Routing!Init
    /\ part # "routing" => sendKind = "meshcore" /\ peerBand = "first" /\ Len(stickTable) = 1
    /\ part = "routing" => (sendKind = "meshcore" => Len(stickTable) = 1)
    /\ Replies!Init
    /\ part # "replies" => defaultKey /\ replyChannels = << >> /\ replyHops = 3
    /\ part = "replies" => replyChannels \in FirstReplies /\ replyHops \in FirstHops
    /\ Lifespan!Init
    /\ part # "lifespan" => offered = {}
    /\ part = "lifespan" => {"transmit", "repeaters", "scanInterval", "button"} \subseteq offered
    /\ Plan!Init
    /\ part # "radio" => radioDisk.region = "US" /\ radioDisk.slot = 1 /\ radioDisk.bw = 2500
    /\ Source!Init
    /\ part # "sources" => focus = "setup" /\ ~sourcesOn /\ sources = [u \in {"a", "b"} |-> [ref |-> "none", from |-> "none"]]

Next ==
    /\ UNCHANGED part
    /\ \/ /\ part = "channels"
          /\ UNCHANGED << pagerVars, settingVars, authVars, messageVars, pluginVars,
                          lorawanVars, mqttVars, radarVars, terminalVars, directVars,
                          directoryVars, namingVars, routingVars, repliesVars,
                          lifespanVars, radioVars, wireVars, sourceVars >>
          /\ Channel!Next
       \/ /\ part = "pager"
          /\ UNCHANGED << channelVars, settingVars, authVars, messageVars, pluginVars,
                          lorawanVars, mqttVars, radarVars, terminalVars, directVars,
                          directoryVars, namingVars, routingVars, repliesVars,
                          lifespanVars, radioVars, wireVars, sourceVars >>
          /\ Pager!Next
       \/ /\ part = "settings"
          /\ UNCHANGED << channelVars, pagerVars, authVars, messageVars, pluginVars,
                          lorawanVars, mqttVars, radarVars, terminalVars, directVars,
                          directoryVars, namingVars, routingVars, repliesVars,
                          lifespanVars, radioVars, wireVars, sourceVars >>
          /\ Setting!Next
       \/ /\ part = "auth"
          /\ UNCHANGED << channelVars, pagerVars, settingVars, messageVars, pluginVars,
                          lorawanVars, mqttVars, radarVars, terminalVars, directVars,
                          directoryVars, namingVars, routingVars, repliesVars,
                          lifespanVars, radioVars, wireVars, sourceVars >>
          /\ Auth!Next
       \/ /\ part = "messages"
          /\ UNCHANGED << channelVars, pagerVars, settingVars, authVars, pluginVars,
                          lorawanVars, mqttVars, radarVars, terminalVars, directVars,
                          directoryVars, namingVars, routingVars, repliesVars,
                          lifespanVars, radioVars, wireVars, sourceVars >>
          /\ Message!Next
       \/ /\ part = "plugins"
          /\ UNCHANGED << channelVars, pagerVars, settingVars, authVars, messageVars,
                          lorawanVars, mqttVars, radarVars, terminalVars, directVars,
                          directoryVars, namingVars, routingVars, repliesVars,
                          lifespanVars, radioVars, wireVars, sourceVars >>
          /\ Plugin!Next
       \/ /\ part = "lorawan"
          /\ UNCHANGED << channelVars, pagerVars, settingVars, authVars, messageVars,
                          pluginVars, mqttVars, radarVars, terminalVars, directVars,
                          directoryVars, namingVars, routingVars, repliesVars,
                          lifespanVars, radioVars, wireVars, sourceVars >>
          /\ Lorawan!Next
       \/ /\ part = "mqtt"
          /\ UNCHANGED << channelVars, pagerVars, settingVars, authVars, messageVars,
                          pluginVars, lorawanVars, radarVars, terminalVars, directVars,
                          directoryVars, namingVars, routingVars, repliesVars,
                          lifespanVars, radioVars, wireVars, sourceVars >>
          /\ Publisher!Next
       \/ /\ part = "radar"
          /\ UNCHANGED << channelVars, pagerVars, settingVars, authVars, messageVars,
                          pluginVars, lorawanVars, mqttVars, terminalVars, directVars,
                          directoryVars, namingVars, routingVars, repliesVars,
                          lifespanVars, radioVars, wireVars, sourceVars >>
          /\ Radar!Next
       \/ /\ part = "terminal"
          /\ UNCHANGED << channelVars, pagerVars, settingVars, authVars, messageVars,
                          pluginVars, lorawanVars, mqttVars, radarVars, directVars,
                          directoryVars, namingVars, routingVars, repliesVars,
                          lifespanVars, radioVars, wireVars, sourceVars >>
          /\ Shell!Next
       \/ /\ part = "direct"
          /\ UNCHANGED << channelVars, pagerVars, settingVars, authVars, messageVars,
                          pluginVars, lorawanVars, mqttVars, radarVars, terminalVars,
                          directoryVars, namingVars, routingVars, repliesVars,
                          lifespanVars, radioVars, wireVars, sourceVars >>
          /\ Direct!Next
       \/ /\ part = "nodes"
          /\ UNCHANGED << channelVars, pagerVars, settingVars, authVars, messageVars,
                          pluginVars, lorawanVars, mqttVars, radarVars, terminalVars,
                          directVars, namingVars, routingVars, repliesVars, lifespanVars,
                          radioVars, wireVars, sourceVars >>
          /\ Directory!Next
       \/ /\ part = "names"
          /\ UNCHANGED << channelVars, pagerVars, settingVars, authVars, messageVars,
                          pluginVars, lorawanVars, mqttVars, radarVars, terminalVars,
                          directVars, directoryVars, routingVars, repliesVars,
                          lifespanVars, radioVars, wireVars, sourceVars >>
          /\ Naming!Next
       \/ /\ part = "routing"
          /\ UNCHANGED << channelVars, pagerVars, settingVars, authVars, messageVars,
                          pluginVars, lorawanVars, mqttVars, radarVars, terminalVars,
                          directVars, directoryVars, namingVars, repliesVars, lifespanVars,
                          radioVars, wireVars, sourceVars >>
          /\ Routing!Next
       \/ /\ part = "replies"
          /\ UNCHANGED << channelVars, pagerVars, settingVars, authVars, messageVars,
                          pluginVars, lorawanVars, mqttVars, radarVars, terminalVars,
                          directVars, directoryVars, namingVars, routingVars, lifespanVars,
                          radioVars, wireVars, sourceVars >>
          /\ Replies!Next
       \/ /\ part = "lifespan"
          /\ UNCHANGED << channelVars, pagerVars, settingVars, authVars, messageVars,
                          pluginVars, lorawanVars, mqttVars, radarVars, terminalVars,
                          directVars, directoryVars, namingVars, routingVars, repliesVars,
                          radioVars, wireVars, sourceVars >>
          /\ Lifespan!Next
       \/ /\ part = "radio"
          /\ UNCHANGED << channelVars, pagerVars, settingVars, authVars, messageVars,
                          pluginVars, lorawanVars, mqttVars, radarVars, terminalVars,
                          directVars, directoryVars, namingVars, routingVars, repliesVars,
                          lifespanVars, wireVars, sourceVars >>
          /\ Plan!Next
       \/ /\ part = "wire"
          /\ UNCHANGED << channelVars, pagerVars, settingVars, authVars, messageVars,
                          pluginVars, lorawanVars, mqttVars, radarVars, terminalVars,
                          directVars, directoryVars, namingVars, routingVars, repliesVars,
                          lifespanVars, radioVars, sourceVars >>
          /\ Wire!Next
       \/ /\ part = "sources"
          /\ UNCHANGED << channelVars, pagerVars, settingVars, authVars, messageVars,
                          pluginVars, lorawanVars, mqttVars, radarVars, terminalVars,
                          directVars, directoryVars, namingVars, routingVars, repliesVars,
                          lifespanVars, radioVars, wireVars >>
          /\ Source!Next

vars == << part, channelVars, pagerVars, settingVars, authVars, messageVars, pluginVars,
           lorawanVars, mqttVars, radarVars, terminalVars, directVars, directoryVars,
           namingVars, routingVars, repliesVars, lifespanVars, radioVars, wireVars,
           sourceVars >>

Spec == Init /\ [][Next]_vars

-----------------------------------------------------------------------------
(* Type correctness of every component.                                    *)
TypeOK ==
    /\ part = "channels" => Channel!TypeOK
    /\ part = "pager" => Pager!TypeOK
    /\ part = "settings" => Setting!TypeOK
    /\ part = "auth" => Auth!TypeOK
    /\ part = "messages" => Message!TypeOK
    /\ part = "plugins" => Plugin!TypeOK
    /\ part = "lorawan" => Lorawan!TypeOK
    /\ part = "mqtt" => Publisher!TypeOK
    /\ part = "radar" => Radar!TypeOK
    /\ part = "terminal" => Shell!TypeOK
    /\ part = "direct" => Direct!TypeOK
    /\ part = "nodes" => Directory!TypeOK
    /\ part = "names" => Naming!TypeOK
    /\ part = "routing" => Routing!TypeOK
    /\ part = "replies" => Replies!TypeOK
    /\ part = "lifespan" => Lifespan!TypeOK
    /\ part = "radio" => Plan!TypeOK
    /\ part = "wire" => Wire!TypeOK
    /\ part = "sources" => Source!TypeOK

(* Channel slots: Public is never written; an undisturbed sync leaves the  *)
(* slots as configured.                                                    *)
SlotsMirrored ==
    /\ part = "channels" => Channel!SlotsMirrored

(* Pages: the outbox shows no acknowledgement that did not happen; one     *)
(* that was processed shows, with the named exceptions.                    *)
PagesAccounted ==
    /\ part = "pager" => Pager!PagesAccounted

(* Settings: the file holds what was promised and nothing that was         *)
(* refused, a setting that waits for a restart was announced, the decoder  *)
(* has the keys a restart would give it.                                   *)
SettingsHonest ==
    /\ part = "settings" => Setting!SettingsHonest

(* Sign-in: ended sessions stay ended; a restart changes nothing; a wrong  *)
(* password is looked at a bounded number of times.                        *)
SignInHolds ==
    /\ part = "auth" => Auth!SignInHolds

(* Messages: shown once, under the channel they came on, and nothing of    *)
(* ours that did not leave.                                                *)
MessagesFiled ==
    /\ part = "messages" => /\ Message!ShownOnce
                            /\ Message!HeardIsShown
                            /\ Message!FiledRight
                            /\ Message!SentIsAired

(* Texts and replies: the last stored key of a peer is the one that is     *)
(* looked up, what can be opened with the keys at hand is read, and what   *)
(* is sent can be read; a direct message leaves where its addressee was    *)
(* heard on its own channel, a channel message reaches every companion, a  *)
(* reply has the hops and the key it needs.                                *)
TextsReach ==
    /\ part = "direct" => /\ Direct!KeyRemembered
                          /\ Direct!AtHandIsRead
                          /\ Direct!SentReadable
    /\ part = "routing" => /\ Routing!LeavesWhereHeard
                           /\ Routing!RightChannel
                           /\ Routing!CastReachesAll
    /\ part = "replies" => /\ Replies!ReplyReaches
                           /\ Replies!ReplyReadable

(* Plugins: an enabled one has what it requires; an installed one stays    *)
(* disabled; a failed update leaves the old one; the source entry tells    *)
(* the truth.                                                              *)
PluginsAsChosen ==
    /\ part = "plugins" => /\ Plugin!DependencyMet
                           /\ Plugin!StaysDisabled
                           /\ Plugin!UpdateKeeps
                           /\ Plugin!ProvenanceTrue

(* Plugin sources: only what is on the list is asked and installed, what   *)
(* is installed loads and is recorded as it is, a badge and a verdict are  *)
(* the latest, a theme and a running setup are not taken over.             *)
SourcesHonest ==
    /\ part = "sources" => /\ Source!TrustedOnly
                           /\ Source!PinRemembers
                           /\ Source!BrowseFresh
                           /\ Source!InstalledLoads
                           /\ Source!ProvenanceExact
                           /\ Source!BadgeTrue
                           /\ Source!ThemesKept
                           /\ Source!IndexAccepted
                           /\ Source!VerdictLatest
                           /\ Source!SetupAlone

(* LoRaWAN: a device whose join was overheard is read, another one is not; *)
(* the keys in use are the saved ones.                                     *)
LorawanKeysRight ==
    /\ part = "lorawan" => /\ Lorawan!HeardJoinReads
                           /\ Lorawan!UnheardStaysClosed
                           /\ Lorawan!ListInUse

(* What leaves the machine: only public packets, a location kept at the    *)
(* broker within the policy, an entity for every reading; the local        *)
(* collector loses no known name and no telemetry and shows what it has    *)
(* stored.                                                                 *)
PublishedWithinPolicy ==
    /\ part = "mqtt" => /\ Publisher!PublicOnly
                        /\ Publisher!RetainedWithinPolicy
                        /\ Publisher!EntityForReading
    /\ part = "radar" => /\ Radar!NameKept
                         /\ Radar!TelemetryShown
                         /\ Radar!ViewCurrent

(* Ends: no shell and no descriptor is left behind, the terminal's cap     *)
(* holds and every session is audited; in start-up and shutdown what a     *)
(* part uses runs while it runs, plugin services go newest first, nothing  *)
(* is left.                                                                *)
EndsClean ==
    /\ part = "terminal" => /\ Shell!NothingLeft
                            /\ Shell!CapHeld
                            /\ Shell!Trail
    /\ part = "lifespan" => /\ Lifespan!NeedsMet
                            /\ Lifespan!NewestFirst
                            /\ Lifespan!NothingLeftRunning

(* Radios: the plan fits the chip, the service sends where it listens, it  *)
(* starts again with what was saved, sticks and concentrator agree on a    *)
(* slot; a frame is read as it was sent over whatever relays and radio it  *)
(* came, its hops are counted, its node's row holds the last name and      *)
(* position told, a traceroute's answer lists who passed it on.            *)
RadiosAgree ==
    /\ part = "radio" => /\ Plan!SendsWhereItListens
                         /\ Plan!PlansFit
                         /\ Plan!StartsAgain
                         /\ Plan!SlotsAgree
    /\ part = "wire" => /\ Wire!ReadAsSent
                        /\ Wire!KeyKnownIsRead
                        /\ Wire!HopsCounted
                        /\ Wire!RouteTrue
                        /\ Wire!EventsAdapted
                        /\ Wire!RowKept

(* Names and counts: a node's row holds its own name and counts its own    *)
(* packets; a rename reaches its own entry only and is applied to a        *)
(* companion that connects.                                                *)
DirectoryTrue ==
    /\ part = "nodes" => /\ Directory!NamesOwn
                         /\ Directory!CountsOwnPackets
    /\ part = "names" => /\ Naming!NamesByLabel
                         /\ Naming!NameApplied

(* No step takes away a name a node has, makes a node look staler than it  *)
(* is, wipes a node that was heard or loses a device's name with a list    *)
(* form.                                                                   *)
DirectoryKept ==
    /\ Directory!NameStays
    /\ Directory!NotUnfreshened
    /\ Directory!WipeSparesHeard
    /\ Naming!NamesKept
==============================================================================
