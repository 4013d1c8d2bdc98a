SPECIFICATION Spec
CONSTANTS
    c1 = c1
    c2 = c2
    c3 = c3
    Channels = {c1, c2, c3}
    SlotLists <- MCSlotLists
    Unusable = {c2}
    MaxSlots = 3
    SyncTasks = {t1, t2}
    MaxEdits = 2
    MaxMisses = 1
    Pages = {p1, p2}
    MaxRestarts = 1
    ChannelNames = {k1, k2}
    MaxSettings = 2
    Passwords = {pw}
    MaxAttempts = {2, 3}
    DefaultAttempts = 3
    MaxAuthChanges = 3
    MaxTokens = 2
    MaxStarts = 2
    c0 = c0
    ChatChannels = {c1, c2}
    ChatLists <- MCChatLists
    FirstChat <- MCFirstChat
    Peers = {"peer"}
    PeerIds = {1}
    OurIds = {1, 2}
    MaxSavers = 2
    MaxHeard = 2
    MaxChannelEdits = 1
    AppIds = {"core", "base", "child"}
    BuiltinApps = {"core"}
    OfferedApps = {"base"}
    AppRequires <- AppNeeds
    AppVersions = {"new"}
    Installers = {i1, i2}
    MaxAppChanges = 3
    MaxBoots = 1
    MaxRefusals = 1
    Devices = {"d1", "d2"}
    RootKeys = {"k1", "k2"}
    Addrs = {"a1", "a2"}
    FirstKeys <- MCFirstKeys
    DeviceLists <- MCDeviceLists
    MaxJoins = 2
    MaxPuts = 2
    PubNodes = {"n1"}
    PubChannels = {"LongFast", "team", "odd"}
    ChanHash <- MqttHash
    FirstMqtt <- MqttFirst
    MqttSaves <- MqttUpdates
    MaxPublished = 2
    MaxUpdates = 1
    MaxDrops = 1
    MaxMqttStarts = 1
    RadarLinks = {"c1", "c2"}
    KeptRows <- OldRows
    MaxMessages = 2
    MaxLoads = 1
    MaxRadarStarts = 1
    MaxMerges = 1
    Tabs = {t1, t2}
    MaxSessions = 1
    MaxShutdowns = 1
    MaxResets = 1
    MaxPairs = 2
    MaxPeerPackets = 4
    MaxDbFailures = 1
    Contacts = {n1, n2}
    Short = shortId
    MaxStamp = 2
    MaxNodePackets = 1
    MaxNodeEvents = 2
    RadioLabels = {la, lb}
    RadioPorts = {sp1, sp2}
    FirstRadios <- OneRadio
    RadioNames = {x}
    Legacy = z
    MaxListChanges = 2
    MaxNameFaults = 1
    OtherRadios = {"other"}
    ExtraChannels = {"extra"}
    MaxRouted = 2
    MaxTexts = 2
    MaxMoves = 2
    ReplyNames = {"a", "b", "c"}
    SameHash = {"b", "c"}
    FirstReplies <- TwoChannels
    FirstHops = {3}
    HopMax = 7
    MaxCopies = 1
    MaxReplyEdits = 2
    Switches = {"transmit", "concentrator", "repeaters", "scanInterval", "sx1261", "captureRam", "button"}
    RadioRegions = {"US", "EU_868", "KR"}
    RadioFrequencies = {9068750, 8681000}
    RadioPresets = {"LONG_FAST", "SHORT_TURBO", "VERY_LONG_SLOW"}
    RadioSlots = {1, 104}
    PagerFrequencies = {8694625}
    MaxRadioPuts = 2
    WirePorts = {"nodeinfo", "traceroute"}
    WireHops = {2}
    WireRelays = {"r1"}
    MaxFrames = 2
    MaxPassed = 1
    MaxCaptures = 2
    MaxSourceRequests = 2
    MaxCheckClock = 2
INVARIANTS
    TypeOK  PagesAccounted SettingsHonest  MessagesFiled
       LorawanKeysRight 
      DirectoryTrue

    
CHECK_DEADLOCK FALSE
