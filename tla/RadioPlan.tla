----------------------------- MODULE RadioPlan -----------------------------
(***************************************************************************)
(* From the radio settings to the channels of the concentrator: the        *)
(* frequency that a start resolves (config.py), the channel plan built     *)
(* from it (hal/concentrator_config.py), the channels as they are          *)
(* programmed on the two RF chains (hal/sx1302_wrapper.py), and what a     *)
(* packet is sent with (transmit/tx_service.py).  Settings change while    *)
(* the concentrator runs with the plan of the last start.  Frequencies and *)
(* bandwidths are in units of 100 Hz.                                      *)
(***************************************************************************)
EXTENDS Integers, Sequences

CONSTANTS
    Regions,          \* the regions of the run, of those in RegionDefault
    Frequencies,      \* what PUT /radio may ask for
    Presets,          \* the modem presets of the run, of those in Modulation
    Slots,            \* Meshtastic slots of the configuration, numbered from 1
    PagerFrequencies, \* what PUT /radio/pager may ask for
    MaxRadioPuts      \* bound on accepted requests

VARIABLES
    radio,            \* config.radio
    radioDisk,        \* the section of local.yaml over the default
    chip,             \* the plan the concentrator runs with
    announced,        \* history: a request since the start said restart_required
    unannounced,      \* history: one changed the frequency and did not say so
    radioPuts

vars == << radio, radioDisk, chip, announced, unannounced, radioPuts >>

None == 0
Off == [on |-> FALSE]
Abs(x) == IF x < 0 THEN -x ELSE x

-----------------------------------------------------------------------------
(* The tables of the regions and of the presets.                           *)

\* _REGION_DEFAULTS_HZ
RegionDefault ==
    [US |-> 9068750, EU_868 |-> 8695250, ANZ |-> 9198750, IN_865 |-> 8658750, KR |-> 9228750, SG_923 |-> 9178750]

\* _REGION_BAND_LIMITS_HZ
Band ==
    [US |-> << 9020000, 9280000 >>, EU_868 |-> << 8630000, 8700000 >>, ANZ |-> << 9150000, 9280000 >>,
     IN_865 |-> << 8650000, 8670000 >>, KR |-> << 9200000, 9230000 >>, SG_923 |-> << 9170000, 9250000 >>]

\* REGION_DEFAULTS of radio/presets.py, and _REGION_DEFAULT_FREQ of config.py
MeshDefault ==
    [US |-> 9068750, EU_868 |-> 8695250, ANZ |-> 9160000, IN_865 |-> 8654625, KR |-> 9219000, SG_923 |-> 9230000]

\* _REGION_FREQ_START
SlotStart ==
    [US |-> 9020000, EU_868 |-> 8630000, ANZ |-> 9150000, IN_865 |-> 8650000, KR |-> 9200000, SG_923 |-> 9170000]

\* _REGION_BAND_MHZ of radio/channel_frequency.py, where a stick's slots begin and end
StickBand ==
    [US |-> << 9020000, 9280000 >>, EU_868 |-> << 8694000, 8696500 >>, ANZ |-> << 9150000, 9280000 >>,
     IN_865 |-> << 8650000, 8670000 >>, KR |-> << 9200000, 9230000 >>, SG_923 |-> << 9170000, 9250000 >>]

\* MODEM_PRESETS
Modulation ==
    [LONG_FAST |-> [sf |-> 11, bw |-> 2500], LONG_TURBO |-> [sf |-> 11, bw |-> 5000],
     LONG_MODERATE |-> [sf |-> 11, bw |-> 1250], LONG_SLOW |-> [sf |-> 12, bw |-> 1250],
     VERY_LONG_SLOW |-> [sf |-> 12, bw |-> 625], MEDIUM_FAST |-> [sf |-> 9, bw |-> 2500],
     MEDIUM_SLOW |-> [sf |-> 10, bw |-> 2500], SHORT_FAST |-> [sf |-> 7, bw |-> 2500],
     SHORT_SLOW |-> [sf |-> 8, bw |-> 2500], SHORT_TURBO |-> [sf |-> 7, bw |-> 5000]]

\* BW_KHZ_TO_HAL.get(int(bandwidth_khz), BW_250KHZ)
HalBandwidth(bw) == IF bw \in {1250, 2500, 5000} THEN bw ELSE 2500

-----------------------------------------------------------------------------
(* The frequency.                                                          *)

\* The formula of _resolve_radio_frequency() ...
SlotFrequency(region, bw, slot) == SlotStart[region] + bw \div 2 + (slot - 1) * bw

\* ... and resolve_frequency_mhz() for a stick that reports an explicit slot, None past the end.
StickFrequency(region, bw, slot) ==
    LET width == StickBand[region][2] - StickBand[region][1]
        slots == (2 * width + bw) \div (2 * bw)
    IN IF slot - 1 >= slots THEN None ELSE StickBand[region][1] + bw \div 2 + (slot - 1) * bw

Resolved(r) ==
    [r EXCEPT !.freq = IF @ # None THEN @
                       ELSE IF r.slot # None THEN SlotFrequency(r.region, r.bw, r.slot)
                       ELSE MeshDefault[r.region]]

-----------------------------------------------------------------------------
(* The plan.                                                               *)

Plan(anchor0, anchor1, single, sf, bw, multi) ==
    [on |-> TRUE, anchors |-> << anchor0, anchor1 >>, single |-> [freq |-> single, sf |-> sf, bw |-> bw], multi |-> multi]

CenteredPlan(center, sf, bw) ==
    Plan(center, center + 8000, center, sf, bw, {center - 7000 + i * 2000 : i \in 0 .. 7})

NarrowPlan(center, sf, bw) == Plan(center, center, center, sf, bw, {center - 625, center + 625})

WidePlan(primary, anchor0, anchor1, base) ==
    Plan(anchor0, anchor1, primary, 11, 2500, {base + i * 2000 : i \in 0 .. 7})

Eu868Lorawan ==
    Plan(8683000, 8695250, 8695250, 11, 2500, {8679000, 8681000, 8683000, 8685000, 8687000, 8695250})

Kr920Default == Plan(9224000, 9214000, 9228750, 11, 2500, {9218000 + i * 2000 : i \in 0 .. 5})

ForRegion(region) ==
    CASE region = "EU_868" -> Eu868Lorawan
      [] region = "KR" -> Kr920Default
      [] OTHER -> LET primary == RegionDefault[region]
                  IN WidePlan(primary, primary - 750, primary + 5250, primary - 6750)

\* A frequency that is the default of another region and outside this one's band.
Foreign(region, freq) ==
    /\ freq < Band[region][1] \/ freq > Band[region][2]
    /\ \E other \in DOMAIN RegionDefault : freq = RegionDefault[other]

OutOfBand(region, freq) ==
    (freq < Band[region][1] \/ freq > Band[region][2]) /\ ~ Foreign(region, freq)

\* from_radio_config() that looks at the frequency only.
PlanByFrequency(r) ==
    LET freq == IF Foreign(r.region, r.freq) THEN RegionDefault[r.region] ELSE r.freq
    IN IF r.freq = RegionDefault[r.region] THEN ForRegion(r.region)
       ELSE IF OutOfBand(r.region, r.freq) THEN Off
       ELSE IF r.region = "EU_868" THEN NarrowPlan(freq, r.sf, r.bw)
       ELSE CenteredPlan(freq, r.sf, r.bw)

\* from_radio_config(); Off where it raises, and _add_concentrator_source() goes on without.
FromRadioConfig(r) ==
    LET freq == IF Foreign(r.region, r.freq) THEN RegionDefault[r.region] ELSE r.freq
    IN IF r.freq = RegionDefault[r.region] /\ r.sf = 11 /\ r.bw = 2500 THEN ForRegion(r.region)
       ELSE IF OutOfBand(r.region, r.freq) THEN Off
       ELSE IF r.region = "EU_868" THEN NarrowPlan(freq, r.sf, r.bw)
       ELSE CenteredPlan(freq, r.sf, r.bw)

-----------------------------------------------------------------------------
(* The RF chains.                                                          *)

\* rf_chain in _configure_if_channels()
Chain(plan, freq) == IF freq <= plan.anchors[1] + 5000 THEN 1 ELSE 2

\* lgw_rxif_setconf(): a channel fits in the 1.6 MHz that its RF chain passes.
HalAccepts(offset, bw) == Abs(offset) + bw \div 2 <= 8000

Programmed(plan) ==
    /\ \A freq \in plan.multi : HalAccepts(freq - plan.anchors[Chain(plan, freq)], 1250)
    /\ HalAccepts(plan.single.freq - plan.anchors[Chain(plan, plan.single.freq)], HalBandwidth(plan.single.bw))

\* pager_rf_anchor_hz with pager_rf_chain at its default of 1, the second chain
PagerAnchor(plan) == plan.anchors[2]

PagerProgrammed(plan, freq) == HalAccepts(freq - PagerAnchor(plan), 1250)

Starts(r) ==
    LET plan == FromRadioConfig(r)
    IN plan.on /\ Programmed(plan) /\ (r.pager => PagerProgrammed(plan, r.pagerFreq))

-----------------------------------------------------------------------------

TypeOK ==
    /\ \A r \in {radio, radioDisk} :
         r.region \in Regions /\ r.freq \in Int /\ r.slot \in Slots \cup {None} /\ r.pager \in BOOLEAN
    /\ radio.freq # None
    /\ chip.on \in BOOLEAN
    /\ announced \in BOOLEAN /\ unannounced \in BOOLEAN /\ radioPuts \in 0 .. MaxRadioPuts

\* The service starts with what the files say.
StartWith(r) ==
    /\ radio' = Resolved(r)
    /\ chip' = IF Starts(Resolved(r)) THEN FromRadioConfig(Resolved(r)) ELSE Off
    /\ announced' = FALSE /\ unannounced' = FALSE

Init ==
    /\ \E region \in Regions, slot \in Slots \cup {None}, preset \in Presets :
         radioDisk = [region |-> region, freq |-> None, slot |-> slot, sf |-> Modulation[preset].sf,
                      bw |-> Modulation[preset].bw, pager |-> FALSE, pagerFreq |-> 8694625]
    /\ radio = Resolved(radioDisk)
    /\ chip = IF Starts(radio) THEN FromRadioConfig(radio) ELSE Off
    /\ announced = FALSE /\ unannounced = FALSE /\ radioPuts = 0

Restart ==
    /\ StartWith(radioDisk)
    /\ UNCHANGED << radioDisk, radioPuts >>

Save(r, changes) ==
    /\ radio' = r
    /\ radioDisk' = [f \in DOMAIN radioDisk |-> IF f \in changes THEN r[f] ELSE radioDisk[f]]
    /\ radioPuts' = radioPuts + 1

\* PUT /radio with a region, a preset or a frequency, in every combination (None: not given).  A
\* region without a frequency brings its default along; the frequency is not looked at.
UpdateRadio ==
    /\ radioPuts < MaxRadioPuts
    /\ \E region \in Regions \cup {"none"}, preset \in Presets \cup {"none"}, freq \in Frequencies \cup {None} :
         LET changes == (IF region # "none" THEN {"region", "freq"} ELSE {})
                          \cup (IF preset # "none" THEN {"sf", "bw"} ELSE {})
                          \cup (IF freq # None THEN {"freq"} ELSE {})
             r == [radio EXCEPT !.region = IF region # "none" THEN region ELSE @,
                                !.sf = IF preset # "none" THEN Modulation[preset].sf ELSE @,
                                !.bw = IF preset # "none" THEN Modulation[preset].bw ELSE @,
                                !.freq = IF freq # None THEN freq
                                         ELSE IF region # "none" THEN MeshDefault[region] ELSE @]
             needed == r.region # radio.region \/ r.sf # radio.sf \/ r.bw # radio.bw
                         \/ (freq # None /\ freq # radio.freq)
         IN /\ changes # {}
            /\ Save(r, changes)
            /\ announced' = (announced \/ needed)
            /\ unannounced' = (unannounced \/ (r.freq # radio.freq /\ ~ needed))
    /\ UNCHANGED chip

\* PUT /radio/pager: the frequency is held against the plan of the settings in memory.
UpdateRadioPager ==
    /\ radioPuts < MaxRadioPuts
    /\ \E on \in BOOLEAN, freq \in PagerFrequencies \cup {None} :
         /\ freq # None =>
              /\ FromRadioConfig(radio).on
              /\ Abs(freq - PagerAnchor(FromRadioConfig(radio))) <= 10000
         /\ Save([radio EXCEPT !.pager = on, !.pagerFreq = IF freq # None THEN freq ELSE @],
                 {"pager"} \cup (IF freq # None THEN {"pagerFreq"} ELSE {}))
    /\ announced' = TRUE
    /\ UNCHANGED << chip, unannounced >>

Next == Restart \/ UpdateRadio \/ UpdateRadioPager

Spec == Init /\ [][Next]_vars

-----------------------------------------------------------------------------

\* _build_hal_packet(): what a packet is sent with, from the settings in memory.
Sends == [freq |-> radio.freq, sf |-> radio.sf, bw |-> HalBandwidth(radio.bw)]

\* What the LoRa service channel receives.
Listens == [chip.single EXCEPT !.bw = HalBandwidth(@)]

\* packets() of concentrator_source.py: the decoder that a received LoRa frame is meant for.
ProtocolHint(freq, bw) == IF freq = 8695250 /\ bw = 2500 THEN "meshtastic" ELSE "lorawan"

\* docs/bandplan-channels.csv: the service channel of every region has the protocol Meshtastic.  A
\* frame received on it goes to the Meshtastic decoder while the plan is the region's own.
ServiceChannelIsMeshtastic ==
    chip.on /\ chip = ForRegion(radio.region) => ProtocolHint(Listens.freq, Listens.bw) = "meshtastic"

\* The service hears the mesh it sends to: frequency, spreading factor and bandwidth of what it
\* sends are those of its service channel, unless a restart was asked for (or the request that
\* named the region again changed the frequency without asking), or the frequency is another
\* region's default, which the plan replaces and the transmitter does not.
SendsWhereItListens ==
    chip.on /\ ~ announced /\ ~ unannounced /\ ~ Foreign(radio.region, radio.freq) => Sends = Listens

\* Every plan that is built can be programmed: no channel lies outside what its RF chain passes,
\* whatever region, slot, preset and frequency were accepted.
PlansFit ==
    LET plan == FromRadioConfig(radio) IN plan.on => Programmed(plan)

\* A service that accepted its settings has a concentrator after the restart, but for a frequency
\* outside the band, which PUT /radio takes, and for a pager that is left outside its RF chain.
StartsAgain ==
    LET r == Resolved(radioDisk)
    IN \/ Starts(r)
       \/ OutOfBand(r.region, r.freq)
       \/ r.pager /\ ~ PagerProgrammed(FromRadioConfig(r), r.pagerFreq)

\* A slot number of the configuration is the frequency a Meshtastic stick has on that slot: the
\* two formulas and tables agree on every slot of every region but EU_868.
SlotsAgree ==
    \A region \in Regions \ {"EU_868"}, preset \in Presets, slot \in Slots :
        LET bw == Modulation[preset].bw
        IN StickFrequency(region, bw, slot) \in {None, SlotFrequency(region, bw, slot)}
=============================================================================
