SPECIFICATION Spec
CONSTANTS
    Regions = {"US", "EU_868"}
    Frequencies = {9068750}
    Presets = {"LONG_FAST"}
    Slots = {}
    PagerFrequencies = {8694625}
    MaxRadioPuts = 1
INVARIANT ServiceChannelIsMeshtastic
CHECK_DEADLOCK FALSE
