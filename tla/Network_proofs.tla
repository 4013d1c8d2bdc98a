---------------------------- MODULE Network_proofs ---------------------------
(***************************************************************************)
(* Proofs about the components of MCRecords that tell the network outside  *)
(* of what was heard: what the MQTT publisher leaves at the broker, the    *)
(* local collector, and texts: their keys, the radio they leave by and     *)
(* the replies to requests.  Each has an inductive invariant of its own,   *)
(* which holds in the behaviours that are about it.                        *)
(***************************************************************************)
EXTENDS MCRecords, FiniteSetTheorems, SequenceTheorems, WellFoundedInduction, TLAPS

-----------------------------------------------------------------------------
(***************************************************************************)
(* One component at a time: while a behaviour is about a component, its    *)
(* steps are that component's, and in the others the component stands      *)
(* still.                                                                  *)
(***************************************************************************)
LEMMA NetworkInit ==
  Init => /\ Publisher!Init /\ Radar!Init /\ Direct!Init
          /\ Routing!Init /\ Replies!Init
BY DEF Init

LEMMA PublisherAlone ==
  ASSUME [Next]_vars
  PROVE  /\ part' = part /\ (part = "mqtt" => [Publisher!Next]_mqttVars)
         /\ part # "mqtt" => UNCHANGED mqttVars
<1>1. CASE Next
  BY <1>1, Zenon DEF Next
<1>2. CASE UNCHANGED vars
  BY <1>2 DEF vars
<1>3. QED
  BY <1>1, <1>2

LEMMA RadarAlone ==
  ASSUME [Next]_vars
  PROVE  /\ part' = part /\ (part = "radar" => [Radar!Next]_radarVars)
         /\ part # "radar" => UNCHANGED radarVars
<1>1. CASE Next
  BY <1>1, Zenon DEF Next
<1>2. CASE UNCHANGED vars
  BY <1>2 DEF vars
<1>3. QED
  BY <1>1, <1>2

LEMMA DirectAlone ==
  ASSUME [Next]_vars
  PROVE  /\ part' = part /\ (part = "direct" => [Direct!Next]_directVars)
         /\ part # "direct" => UNCHANGED directVars
<1>1. CASE Next
  BY <1>1, Zenon DEF Next
<1>2. CASE UNCHANGED vars
  BY <1>2 DEF vars
<1>3. QED
  BY <1>1, <1>2

LEMMA RoutingAlone ==
  ASSUME [Next]_vars
  PROVE  /\ part' = part /\ (part = "routing" => [Routing!Next]_routingVars)
         /\ part # "routing" => UNCHANGED routingVars
<1>1. CASE Next
  BY <1>1, Zenon DEF Next
<1>2. CASE UNCHANGED vars
  BY <1>2 DEF vars
<1>3. QED
  BY <1>1, <1>2

LEMMA RepliesAlone ==
  ASSUME [Next]_vars
  PROVE  /\ part' = part /\ (part = "replies" => [Replies!Next]_repliesVars)
         /\ part # "replies" => UNCHANGED repliesVars
<1>1. CASE Next
  BY <1>1, Zenon DEF Next
<1>2. CASE UNCHANGED vars
  BY <1>2 DEF vars
<1>3. QED
  BY <1>1, <1>2

-----------------------------------------------------------------------------
(***************************************************************************)
(* A set of numbers with a bound has a greatest element, one of numbers    *)
(* has a least.                                                            *)
(***************************************************************************)
LEMMA GreatestNat ==
  ASSUME NEW n \in Nat, NEW T \in SUBSET (1 .. n), T # {}
  PROVE  \E m \in T : \A k \in T : k <= m
<1> DEFINE Less == {ss \in Nat \X Nat : ss[1] < ss[2]}
<1> DEFINE U == {n - k : k \in T}
<1>1. IsWellFoundedOn(Less, Nat)
  BY NatLessThanWellFounded DEF OpToRel
<1>2. U \subseteq Nat /\ U # {}
  <2>1. \A k \in T : k \in Nat /\ k <= n
    OBVIOUS
  <2>2. \A k \in T : n - k \in Nat
    BY <2>1
  <2>3. PICK k \in T : TRUE
    OBVIOUS
  <2>4. n - k \in U
    BY <2>3
  <2>5. QED
    BY <2>2, <2>4
<1> HIDE DEF Less
<1>3. PICK m \in U : \A k \in U : ~ (<< k, m >> \in Less)
  <2> HIDE DEF U
  <2> QED
    BY <1>1, <1>2, WFMin
<1>4. ASSUME NEW k \in U, k < m PROVE FALSE
  <2>1. << k, m >> \in Nat \X Nat /\ << k, m >>[1] < << k, m >>[2]
    BY <1>2, <1>3, <1>4
  <2>2. << k, m >> \in Less
    BY <2>1 DEF Less
  <2>3. QED
    BY <1>3, <2>2
<1>5. PICK j \in T : m = n - j
  BY <1>3
<1>6. ASSUME NEW k \in T PROVE k <= j
  <2>1. n - k \in U /\ k \in Nat /\ j \in Nat
    OBVIOUS
  <2>2. ~ (n - k < n - j)
    BY <1>4, <1>5, <2>1
  <2>3. QED
    BY <2>1, <2>2
<1>7. QED
  BY <1>6

LEMMA LeastNat ==
  ASSUME NEW n \in Nat, NEW T \in SUBSET (1 .. n), T # {}
  PROVE  \E m \in T : \A k \in T : m <= k
<1> DEFINE Less == {ss \in Nat \X Nat : ss[1] < ss[2]}
<1>1. IsWellFoundedOn(Less, Nat)
  BY NatLessThanWellFounded DEF OpToRel
<1>2. T \subseteq Nat
  OBVIOUS
<1> HIDE DEF Less
<1>3. PICK m \in T : \A k \in T : ~ (<< k, m >> \in Less)
  BY <1>1, <1>2, WFMin
<1>4. ASSUME NEW k \in T PROVE m <= k
  <2>1. k \in Nat /\ m \in Nat
    OBVIOUS
  <2>2. << k, m >> \in Nat \X Nat /\ << k, m >>[1] = k /\ << k, m >>[2] = m
    BY <2>1
  <2>3. ~ (k < m)
    BY <1>3, <2>2 DEF Less
  <2>4. QED
    BY <2>1, <2>3
<1>5. QED
  BY <1>4

-----------------------------------------------------------------------------
(***************************************************************************)
(* The broker.  The publisher works through an outbox: what the broker     *)
(* holds is what was delivered last for a topic, what it will hold is      *)
(* decided by the last entry of the outbox for it.  A reading is covered   *)
(* when the sensor it belongs to is configured at the broker or by an      *)
(* earlier entry; the invariant says so of every node that is not excused, *)
(* a node being excused when a delivery that failed left a part of its     *)
(* announcement behind.                                                    *)
(***************************************************************************)
(* Values of the topics, retained or on their way.                         *)
BrokerValues == {"empty", "set", "bare", "none", "approximate", "exact"}
BrokerEntries == [node : PubNodes, topic : Publisher!Topics, value : BrokerValues]
Kept == [PubNodes -> [Publisher!Topics -> BrokerValues]]
Matches(e, n, t) == e.node = n /\ e.topic = t

(* The topics that configure a sensor, the one each reading needs, and the *)
(* values that are a reading.                                              *)
SensorConfigs == {"tracker config", "battery config"}
ConfigFor(k) == IF k = "position" THEN "tracker config" ELSE "battery config"
IsReading(k, v) == IF k = "position" THEN v \in {"approximate", "exact"} ELSE v = "set"

(* The sensor is configured at the broker or will be by the outbox.        *)
HasConfig(r, out, n, c) == r[n][c] = "set" \/ \E j \in DOMAIN out : Matches(out[j], n, c)

(* No configuration on its way takes a sensor away.                        *)
ConfigsSet(out) == \A i \in DOMAIN out : out[i].topic \in SensorConfigs => out[i].value = "set"

(* A reading of kind k, retained or on its way, finds its sensor           *)
(* configured before it.                                                   *)
Covered(r, out, n, k) ==
  /\ IsReading(k, r[n][k]) => r[n][ConfigFor(k)] = "set"
  /\ \A i \in DOMAIN out :
        Matches(out[i], n, k) /\ IsReading(k, out[i].value) =>
           \/ r[n][ConfigFor(k)] = "set"
           \/ \E j \in DOMAIN out : j < i /\ Matches(out[j], n, ConfigFor(k))

(* Every reading of a node that is not excused is covered.                 *)
Backed(r, out, excused) ==
  /\ out \in Seq(BrokerEntries)
  /\ ConfigsSet(out)
  /\ \A n \in PubNodes \ excused : Covered(r, out, n, "position") /\ Covered(r, out, n, "telemetry")

(* The inductive invariant: announced nodes have a configuration, the      *)
(* filter in use is the one the history lists, and the two properties that *)
(* are inductive by themselves.                                            *)
BrokerInv ==
  /\ retained \in Kept /\ announced \subseteq PubNodes
  /\ Backed(retained, outbox, partial)
  /\ \A n \in announced : \E c \in SensorConfigs : HasConfig(retained, outbox, n, c)
  /\ allowed = listed
  /\ Publisher!PublicOnly
  /\ Publisher!RetainedWithinPolicy

(* What the broker will hold for a topic: the last entry of the outbox for *)
(* it, or what it holds.                                                   *)
LEMMA EffectiveNone ==
  ASSUME NEW r \in Kept,
         NEW s \in Seq(BrokerEntries), NEW n \in PubNodes, NEW t \in Publisher!Topics,
         \A i \in DOMAIN s : ~Matches(s[i], n, t)
  PROVE  Publisher!Effective(r, s, n, t) = r[n][t]
<1>1. {i \in DOMAIN s : s[i].node = n /\ s[i].topic = t} = {}
  BY DEF Matches
<1>2. QED
  BY <1>1 DEF Publisher!Effective

LEMMA EffectiveLast ==
  ASSUME NEW r \in Kept,
         NEW s \in Seq(BrokerEntries), NEW n \in PubNodes, NEW t \in Publisher!Topics,
         NEW m \in DOMAIN s, Matches(s[m], n, t),
         \A j \in DOMAIN s : Matches(s[j], n, t) => j <= m
  PROVE  Publisher!Effective(r, s, n, t) = s[m].value
<1> DEFINE late == {i \in DOMAIN s : s[i].node = n /\ s[i].topic = t}
           top == CHOOSE i \in late : \A j \in late : j <= i
<1>1. m \in late /\ \A j \in late : j <= m
  BY DEF Matches
<1>2. top \in late /\ \A j \in late : j <= top
  BY <1>1
<1>3. late \subseteq Nat
  OBVIOUS
<1>4. top = m
  <2>1. top <= m /\ m <= top /\ m \in Nat /\ top \in Nat
    BY <1>1, <1>2, <1>3
  <2>2. QED
    BY <2>1
<1>5. late # {}
  BY <1>1
<1> HIDE DEF late, top
<1>6. Publisher!Effective(r, s, n, t) = s[top].value
  BY <1>5 DEF late, top, Publisher!Effective
<1>7. QED
  BY <1>4, <1>6

LEMMA EffectiveCases ==
  ASSUME NEW s \in Seq(BrokerEntries), NEW n, NEW t
  PROVE  \/ \A i \in DOMAIN s : ~Matches(s[i], n, t)
         \/ \E m \in DOMAIN s : /\ Matches(s[m], n, t)
                                /\ \A j \in DOMAIN s : Matches(s[j], n, t) => j <= m
<1> DEFINE late == {i \in DOMAIN s : Matches(s[i], n, t)}
<1>1. CASE late = {}
  BY <1>1
<1>2. CASE late # {}
  <2>1. Len(s) \in Nat /\ late \in SUBSET (1 .. Len(s))
    OBVIOUS
  <2>2. \E m \in late : \A j \in late : j <= m
    BY <1>2, <2>1, GreatestNat
  <2>3. QED
    BY <2>2
<1>3. QED
  BY <1>1, <1>2

LEMMA EffectiveAppend ==
  ASSUME NEW r \in Kept,
         NEW s \in Seq(BrokerEntries), NEW e \in BrokerEntries, NEW n \in PubNodes,
         NEW t \in Publisher!Topics
  PROVE  Publisher!Effective(r, Append(s, e), n, t) =
            IF Matches(e, n, t) THEN e.value ELSE Publisher!Effective(r, s, n, t)
<1> DEFINE u == Append(s, e)
<1>1. /\ u \in Seq(BrokerEntries) /\ Len(s) \in Nat /\ DOMAIN s = 1 .. Len(s)
      /\ DOMAIN u = 1 .. Len(s) + 1 /\ u[Len(s) + 1] = e
      /\ \A a \in DOMAIN s : u[a] = s[a]
  OBVIOUS
<1> HIDE DEF u
<1>2. CASE Matches(e, n, t)
  <2>1. /\ Len(s) + 1 \in DOMAIN u /\ Matches(u[Len(s) + 1], n, t)
        /\ \A j \in DOMAIN u : Matches(u[j], n, t) => j <= Len(s) + 1
    BY <1>1, <1>2
  <2>2. Publisher!Effective(r, u, n, t) = u[Len(s) + 1].value
    BY <1>1, <2>1, EffectiveLast
  <2>3. QED
    BY <1>1, <1>2, <2>2 DEF u
<1>3. CASE ~Matches(e, n, t)
  <2>1. CASE \A i \in DOMAIN s : ~Matches(s[i], n, t)
    <3>1. \A i \in DOMAIN u : ~Matches(u[i], n, t)
      BY <1>1, <1>3, <2>1
    <3>2. Publisher!Effective(r, u, n, t) = r[n][t]
      BY <1>1, <3>1, EffectiveNone
    <3>3. Publisher!Effective(r, s, n, t) = r[n][t]
      BY <2>1, EffectiveNone
    <3>4. QED
      BY <1>3, <3>2, <3>3 DEF u
  <2>2. ASSUME NEW m \in DOMAIN s, Matches(s[m], n, t),
               \A j \in DOMAIN s : Matches(s[j], n, t) => j <= m
        PROVE  Publisher!Effective(r, u, n, t) = Publisher!Effective(r, s, n, t)
    <3>1. /\ m \in DOMAIN u /\ u[m] = s[m] /\ Matches(u[m], n, t)
          /\ \A j \in DOMAIN u : Matches(u[j], n, t) => j <= m
      BY <1>1, <1>3, <2>2
    <3>2. Publisher!Effective(r, s, n, t) = s[m].value
      BY <2>2, EffectiveLast
    <3>3. Publisher!Effective(r, u, n, t) = u[m].value
      BY <1>1, <3>1, EffectiveLast
    <3>4. QED
      BY <3>1, <3>2, <3>3
  <2>3. QED
    BY <1>3, <2>1, <2>2, EffectiveCases DEF u
<1>4. QED
  BY <1>2, <1>3

LEMMA EffectiveDeliver ==
  ASSUME NEW r \in Kept,
         NEW s \in Seq(BrokerEntries), s # << >>,
         NEW q \in Kept,
         NEW n \in PubNodes, NEW t \in Publisher!Topics,
         q[n][t] = IF Matches(s[1], n, t) THEN s[1].value ELSE r[n][t],
         NEW u, u = s \/ u = Tail(s)
  PROVE  Publisher!Effective(q, u, n, t) = Publisher!Effective(r, s, n, t)
<1>1. /\ s[1] \in BrokerEntries /\ Len(s) \in Nat /\ Len(s) >= 1
      /\ DOMAIN s = 1 .. Len(s) /\ 1 \in DOMAIN s
  OBVIOUS
<1>2. q[n][t] = IF Matches(s[1], n, t) THEN s[1].value ELSE r[n][t]
  OBVIOUS
<1>3. CASE u = s
  <2>1. CASE \A i \in DOMAIN s : ~Matches(s[i], n, t)
    <3>1. Publisher!Effective(q, s, n, t) = q[n][t]
      BY <2>1, EffectiveNone
    <3>2. Publisher!Effective(r, s, n, t) = r[n][t]
      BY <2>1, EffectiveNone
    <3>3. QED
      BY <1>1, <1>2, <1>3, <2>1, <3>1, <3>2
  <2>2. ASSUME NEW m \in DOMAIN s, Matches(s[m], n, t),
               \A j \in DOMAIN s : Matches(s[j], n, t) => j <= m
        PROVE  Publisher!Effective(q, u, n, t) = Publisher!Effective(r, s, n, t)
    <3>1. Publisher!Effective(r, s, n, t) = s[m].value
      BY <2>2, EffectiveLast
    <3>2. Publisher!Effective(q, s, n, t) = s[m].value
      BY <2>2, EffectiveLast
    <3>3. QED
      BY <1>3, <3>1, <3>2
  <2>3. QED
    BY <2>1, <2>2, EffectiveCases
<1>4. CASE u = Tail(s)
  <2>1. /\ u \in Seq(BrokerEntries) /\ DOMAIN u = 1 .. Len(s) - 1
        /\ \A i \in DOMAIN u : i + 1 \in DOMAIN s /\ u[i] = s[i + 1]
    BY <1>1, <1>4
  <2>2. CASE \A i \in DOMAIN s : ~Matches(s[i], n, t)
    <3>1. \A i \in DOMAIN u : ~Matches(u[i], n, t)
      BY <2>1, <2>2
    <3>2. Publisher!Effective(q, u, n, t) = q[n][t]
      BY <2>1, <3>1, EffectiveNone
    <3>3. Publisher!Effective(r, s, n, t) = r[n][t]
      BY <2>2, EffectiveNone
    <3>4. QED
      BY <1>1, <1>2, <2>2, <3>2, <3>3
  <2>3. ASSUME NEW m \in DOMAIN s, Matches(s[m], n, t),
               \A j \in DOMAIN s : Matches(s[j], n, t) => j <= m
        PROVE  Publisher!Effective(q, u, n, t) = Publisher!Effective(r, s, n, t)
    <3>1. Publisher!Effective(r, s, n, t) = s[m].value
      BY <2>3, EffectiveLast
    <3>2. CASE m = 1
      <4>1. \A i \in DOMAIN u : ~Matches(u[i], n, t)
        <5>1. ASSUME NEW i \in DOMAIN u, Matches(u[i], n, t) PROVE FALSE
          <6>1. i + 1 \in DOMAIN s /\ Matches(s[i + 1], n, t) /\ i \in Nat /\ i >= 1
            BY <1>1, <2>1, <5>1
          <6>2. i + 1 <= m
            BY <6>1, <2>3
          <6>3. QED
            BY <6>1, <6>2, <3>2
        <5>2. QED
          BY <5>1
      <4>2. Publisher!Effective(q, u, n, t) = q[n][t]
        BY <2>1, <4>1, EffectiveNone
      <4>3. QED
        BY <1>1, <1>2, <2>3, <3>1, <3>2, <4>2
    <3>3. CASE m # 1
      <4>1. m - 1 \in DOMAIN u /\ u[m - 1] = s[m] /\ m \in Nat
        <5>1. m \in 1 .. Len(s)
          BY <1>1, <2>3
        <5>2. m - 1 \in 1 .. Len(s) - 1 /\ (m - 1) + 1 = m
          BY <5>1, <1>1, <3>3
        <5>3. QED
          BY <2>1, <5>1, <5>2
      <4>2. ASSUME NEW j \in DOMAIN u, Matches(u[j], n, t) PROVE j <= m - 1
        <5>1. j + 1 \in DOMAIN s /\ Matches(s[j + 1], n, t) /\ j \in Nat
          BY <1>1, <2>1, <4>2
        <5>2. j + 1 <= m
          BY <5>1, <2>3
        <5>3. QED
          BY <4>1, <5>1, <5>2
      <4>3. Matches(u[m - 1], n, t)
        BY <2>3, <4>1
      <4>4. Publisher!Effective(q, u, n, t) = u[m - 1].value
        BY <2>1, <4>1, <4>2, <4>3, EffectiveLast
      <4>5. QED
        BY <3>1, <4>1, <4>4
    <3>4. QED
      BY <3>2, <3>3
  <2>4. QED
    BY <2>2, <2>3, EffectiveCases
<1>5. QED
  BY <1>3, <1>4


LEMMA Adding ==
  ASSUME NEW S, NEW s \in Seq(S), NEW e \in S
  PROVE  /\ Append(s, e) \in Seq(S) /\ Len(s) \in Nat
         /\ DOMAIN s = 1 .. Len(s) /\ DOMAIN Append(s, e) = 1 .. Len(s) + 1
         /\ Append(s, e)[Len(s) + 1] = e
         /\ \A i \in DOMAIN s : i \in Nat /\ i \in DOMAIN Append(s, e) /\ Append(s, e)[i] = s[i] /\ i < Len(s) + 1
         /\ \A i \in DOMAIN Append(s, e) : i \in DOMAIN s \/ i = Len(s) + 1
OBVIOUS

(* What an entry at the end of the outbox does to the parts of the         *)
(* invariant.                                                              *)
LEMMA HasConfigAppend ==
  ASSUME NEW r, NEW s \in Seq(BrokerEntries), NEW e \in BrokerEntries, NEW n, NEW c
  PROVE  HasConfig(r, Append(s, e), n, c) <=> HasConfig(r, s, n, c) \/ Matches(e, n, c)
<1> DEFINE u == Append(s, e)
<1>1. /\ DOMAIN s = 1 .. Len(s) /\ Len(s) + 1 \in DOMAIN u /\ u[Len(s) + 1] = e
      /\ \A i \in DOMAIN s : i \in DOMAIN u /\ u[i] = s[i]
      /\ \A i \in DOMAIN u : i \in DOMAIN s \/ i = Len(s) + 1
  BY Adding
<1> HIDE DEF u
<1>2. HasConfig(r, u, n, c) <=> HasConfig(r, s, n, c) \/ Matches(e, n, c)
  BY <1>1 DEF HasConfig
<1>3. QED
  BY <1>2 DEF u

LEMMA ConfigsSetAppend ==
  ASSUME NEW s \in Seq(BrokerEntries), NEW e \in BrokerEntries, ConfigsSet(s),
         e.topic \in SensorConfigs => e.value = "set"
  PROVE  ConfigsSet(Append(s, e))
<1> DEFINE u == Append(s, e)
<1>1. /\ u[Len(s) + 1] = e
      /\ \A i \in DOMAIN s : i \in DOMAIN u /\ u[i] = s[i]
      /\ \A i \in DOMAIN u : i \in DOMAIN s \/ i = Len(s) + 1
  BY Adding
<1> HIDE DEF u
<1>2. ConfigsSet(u)
  BY <1>1 DEF ConfigsSet
<1>3. QED
  BY <1>2 DEF u

LEMMA CoveredAppend ==
  ASSUME NEW r, NEW s \in Seq(BrokerEntries), NEW e \in BrokerEntries, NEW n, NEW k,
         Covered(r, s, n, k),
         Matches(e, n, k) /\ IsReading(k, e.value) => HasConfig(r, s, n, ConfigFor(k))
  PROVE  Covered(r, Append(s, e), n, k)
<1> DEFINE u == Append(s, e)
           c == ConfigFor(k)
<1>1. /\ u[Len(s) + 1] = e /\ Len(s) + 1 \in DOMAIN u
      /\ \A i \in DOMAIN s : i \in DOMAIN u /\ u[i] = s[i] /\ i < Len(s) + 1
      /\ \A i \in DOMAIN u : i \in DOMAIN s \/ i = Len(s) + 1
  BY Adding
<1> HIDE DEF u, c
<1>2. ASSUME NEW i \in DOMAIN u, Matches(u[i], n, k), IsReading(k, u[i].value)
      PROVE  r[n][c] = "set" \/ \E j \in DOMAIN u : j < i /\ Matches(u[j], n, c)
  <2>1. CASE i \in DOMAIN s
    <3>1. r[n][c] = "set" \/ \E j \in DOMAIN s : j < i /\ Matches(s[j], n, c)
      BY <1>1, <1>2, <2>1 DEF Covered, c
    <3>2. QED
      BY <1>1, <3>1
  <2>2. CASE i = Len(s) + 1
    <3>1. HasConfig(r, s, n, c)
      BY <1>1, <1>2, <2>2 DEF c
    <3>2. QED
      BY <1>1, <2>2, <3>1 DEF HasConfig
  <2>3. QED
    BY <1>1, <2>1, <2>2
<1>3. IsReading(k, r[n][k]) => r[n][c] = "set"
  BY DEF Covered, c
<1>4. QED
  BY <1>2, <1>3 DEF Covered, c, u

LEMMA BackedAppend ==
  ASSUME NEW r, NEW s, NEW e \in BrokerEntries, NEW excused,
         Backed(r, s, excused),
         e.topic \in SensorConfigs => e.value = "set",
         e.node \in excused \/ \A k \in {"position", "telemetry"} :
            e.topic = k /\ IsReading(k, e.value) => HasConfig(r, s, e.node, ConfigFor(k))
  PROVE  Backed(r, Append(s, e), excused)
<1>1. s \in Seq(BrokerEntries) /\ ConfigsSet(s)
  BY DEF Backed
<1>2. ConfigsSet(Append(s, e)) /\ Append(s, e) \in Seq(BrokerEntries)
  BY <1>1, ConfigsSetAppend
<1>3. ASSUME NEW n \in PubNodes \ excused, NEW k \in {"position", "telemetry"}
      PROVE  Covered(r, Append(s, e), n, k)
  <2>1. Covered(r, s, n, k)
    BY <1>3 DEF Backed
  <2>2. Matches(e, n, k) /\ IsReading(k, e.value) => HasConfig(r, s, n, ConfigFor(k))
    BY <1>3 DEF Matches
  <2>3. QED
    BY <1>1, <2>1, <2>2, CoveredAppend
<1>4. QED
  BY <1>2, <1>3 DEF Backed

LEMMA BackedMore ==
  ASSUME NEW r, NEW s, NEW excused, NEW more, excused \subseteq more, Backed(r, s, excused)
  PROVE  Backed(r, s, more)
BY DEF Backed

(* From the invariant to the property: a reading the broker will hold has  *)
(* its sensor.                                                             *)
LEMMA EffectiveConfig ==
  ASSUME NEW r \in Kept, NEW s \in Seq(BrokerEntries), ConfigsSet(s), NEW n \in PubNodes,
         NEW c \in SensorConfigs, HasConfig(r, s, n, c)
  PROVE  Publisher!Effective(r, s, n, c) = "set"
<1>0. c \in Publisher!Topics
  BY Zenon DEF SensorConfigs, Publisher!Topics
<1>1. CASE \A i \in DOMAIN s : ~Matches(s[i], n, c)
  <2>1. Publisher!Effective(r, s, n, c) = r[n][c]
    BY <1>0, <1>1, EffectiveNone
  <2>2. r[n][c] = "set"
    BY <1>1 DEF HasConfig
  <2>3. QED
    BY <2>1, <2>2
<1>2. ASSUME NEW m \in DOMAIN s, Matches(s[m], n, c),
             \A j \in DOMAIN s : Matches(s[j], n, c) => j <= m
      PROVE  Publisher!Effective(r, s, n, c) = "set"
  <2>1. Publisher!Effective(r, s, n, c) = s[m].value
    BY <1>0, <1>2, EffectiveLast
  <2>2. s[m].value = "set"
    BY <1>2 DEF ConfigsSet, Matches
  <2>3. QED
    BY <2>1, <2>2
<1>3. QED
  BY <1>1, <1>2, EffectiveCases

LEMMA EffectiveCovered ==
  ASSUME NEW r \in Kept, NEW s \in Seq(BrokerEntries), ConfigsSet(s), NEW n \in PubNodes,
         NEW k \in {"position", "telemetry"}, Covered(r, s, n, k),
         IsReading(k, Publisher!Effective(r, s, n, k))
  PROVE  Publisher!Effective(r, s, n, ConfigFor(k)) = "set"
<1>0. k \in Publisher!Topics /\ ConfigFor(k) \in SensorConfigs
  BY Zenon DEF SensorConfigs, Publisher!Topics, ConfigFor
<1>1. HasConfig(r, s, n, ConfigFor(k))
  <2>1. CASE \A i \in DOMAIN s : ~Matches(s[i], n, k)
    <3>1. Publisher!Effective(r, s, n, k) = r[n][k]
      BY <1>0, <2>1, EffectiveNone
    <3>2. QED
      BY <3>1 DEF Covered, HasConfig
  <2>2. ASSUME NEW m \in DOMAIN s, Matches(s[m], n, k),
               \A j \in DOMAIN s : Matches(s[j], n, k) => j <= m
        PROVE  HasConfig(r, s, n, ConfigFor(k))
    <3>1. Publisher!Effective(r, s, n, k) = s[m].value
      BY <1>0, <2>2, EffectiveLast
    <3>2. QED
      BY <2>2, <3>1 DEF Covered, HasConfig
  <2>3. QED
    BY <2>1, <2>2, EffectiveCases
<1>2. QED
  BY <1>0, <1>1, EffectiveConfig

LEMMA EntityFromBacked ==
  ASSUME BrokerInv
  PROVE  Publisher!EntityForReading
<1>1. /\ retained \in Kept /\ outbox \in Seq(BrokerEntries) /\ ConfigsSet(outbox)
      /\ \A n \in PubNodes \ partial, k \in {"position", "telemetry"} : Covered(retained, outbox, n, k)
  BY DEF BrokerInv, Backed
<1>2. ASSUME NEW n \in PubNodes \ partial
      PROVE  /\ Publisher!Effective(retained, outbox, n, "position") \in {"approximate", "exact"} =>
                   Publisher!Effective(retained, outbox, n, "tracker config") = "set"
             /\ Publisher!Effective(retained, outbox, n, "telemetry") = "set" =>
                   Publisher!Effective(retained, outbox, n, "battery config") = "set"
  <2>1. IsReading("position", Publisher!Effective(retained, outbox, n, "position")) =>
           Publisher!Effective(retained, outbox, n, ConfigFor("position")) = "set"
    BY <1>1, <1>2, EffectiveCovered
  <2>2. IsReading("telemetry", Publisher!Effective(retained, outbox, n, "telemetry")) =>
           Publisher!Effective(retained, outbox, n, ConfigFor("telemetry")) = "set"
    BY <1>1, <1>2, EffectiveCovered
  <2>3. QED
    BY <2>1, <2>2, Zenon DEF IsReading, ConfigFor
<1>3. QED
  BY <1>2, Zenon DEF Publisher!EntityForReading


(* What a delivery at the head of the outbox does.                         *)
LEMMA Delivered ==
  ASSUME NEW r \in Kept, NEW s \in Seq(BrokerEntries), s # << >>
  PROVE  LET q == [r EXCEPT ![Head(s).node][Head(s).topic] = Head(s).value] IN
         /\ q \in Kept /\ s[1] \in BrokerEntries /\ 1 \in DOMAIN s
         /\ \A n \in PubNodes, t \in Publisher!Topics :
               q[n][t] = IF Matches(s[1], n, t) THEN s[1].value ELSE r[n][t]
<1> DEFINE q == [r EXCEPT ![Head(s).node][Head(s).topic] = Head(s).value]
<1>1. Head(s) = s[1] /\ s[1] \in BrokerEntries /\ 1 \in DOMAIN s
  OBVIOUS
<1>2. /\ s[1].node \in PubNodes /\ s[1].topic \in Publisher!Topics /\ s[1].value \in BrokerValues
  BY <1>1 DEF BrokerEntries
<1>3. q = [r EXCEPT ![s[1].node] = [r[s[1].node] EXCEPT ![s[1].topic] = s[1].value]]
  BY <1>1
<1> DEFINE a == s[1].node
           b == s[1].topic
           v == s[1].value
           inner == [r[a] EXCEPT ![b] = v]
<1>4. inner \in [Publisher!Topics -> BrokerValues]
      /\ \A t \in Publisher!Topics : inner[t] = IF b = t THEN v ELSE r[a][t]
  BY <1>2 DEF Kept
<1> HIDE DEF inner, a, b, v
<1>5. q = [r EXCEPT ![a] = inner] /\ a \in PubNodes
  BY <1>2, <1>3 DEF inner, a, b, v
<1> HIDE DEF q
<1>6. q \in Kept /\ \A n \in PubNodes : q[n] = IF a = n THEN inner ELSE r[n]
  BY <1>4, <1>5 DEF Kept
<1>7. \A n \in PubNodes, t \in Publisher!Topics :
         q[n][t] = IF Matches(s[1], n, t) THEN s[1].value ELSE r[n][t]
  BY <1>4, <1>6 DEF Matches, a, b, v
<1>8. QED
  BY <1>1, <1>6, <1>7 DEF q

LEMMA CoveredDeliver ==
  ASSUME NEW r \in Kept, NEW s \in Seq(BrokerEntries), s # << >>, ConfigsSet(s), NEW q \in Kept,
         \A a \in PubNodes, t \in Publisher!Topics :
            q[a][t] = IF Matches(s[1], a, t) THEN s[1].value ELSE r[a][t],
         NEW u, u = s \/ u = Tail(s),
         NEW n \in PubNodes, NEW k \in {"position", "telemetry"}, Covered(r, s, n, k)
  PROVE  Covered(q, u, n, k)
<1> DEFINE c == ConfigFor(k)
<1>a. c \in Publisher!Topics /\ k \in Publisher!Topics /\ c \in SensorConfigs /\ c # k
  BY Zenon DEF ConfigFor, Publisher!Topics, SensorConfigs
<1> HIDE DEF c
<1>b. 1 \in DOMAIN s /\ DOMAIN s = 1 .. Len(s) /\ Len(s) \in Nat
  OBVIOUS
<1>0. /\ c \in Publisher!Topics /\ k \in Publisher!Topics /\ c \in SensorConfigs /\ c # k
      /\ 1 \in DOMAIN s /\ DOMAIN s = 1 .. Len(s) /\ Len(s) \in Nat
  BY <1>a, <1>b
<1>1. r[n][c] = "set" => q[n][c] = "set"
  BY <1>0 DEF ConfigsSet, Matches
<1>2. Matches(s[1], n, c) => q[n][c] = "set"
  BY <1>0 DEF ConfigsSet, Matches
<1>3. IsReading(k, q[n][k]) => q[n][c] = "set"
  <2>1. CASE Matches(s[1], n, k)
    <3>1. IsReading(k, s[1].value) =>
             r[n][c] = "set" \/ \E j \in DOMAIN s : j < 1 /\ Matches(s[j], n, c)
      BY <1>0, <2>1 DEF Covered, c
    <3>2. \A j \in DOMAIN s : ~ (j < 1)
      BY <1>0
    <3>3. q[n][k] = s[1].value
      BY <1>0, <2>1
    <3>4. QED
      BY <1>1, <3>1, <3>2, <3>3
  <2>2. CASE ~Matches(s[1], n, k)
    <3>1. q[n][k] = r[n][k]
      BY <1>0, <2>2
    <3>2. QED
      BY <1>1, <3>1 DEF Covered, c
  <2>3. QED
    BY <2>1, <2>2
<1>4. ASSUME NEW i \in DOMAIN s, Matches(s[i], n, k), IsReading(k, s[i].value)
      PROVE  q[n][c] = "set" \/ \E j \in DOMAIN s : j < i /\ j # 1 /\ Matches(s[j], n, c)
  <2>1. r[n][c] = "set" \/ \E j \in DOMAIN s : j < i /\ Matches(s[j], n, c)
    BY <1>4 DEF Covered, c
  <2>2. QED
    BY <1>1, <1>2, <2>1
<1>5. CASE u = s
  BY <1>3, <1>4, <1>5 DEF Covered, c
<1>6. CASE u = Tail(s)
  <2>1. /\ DOMAIN u = 1 .. Len(s) - 1
        /\ \A i \in DOMAIN u : i + 1 \in DOMAIN s /\ u[i] = s[i + 1]
    BY <1>0, <1>6
  <2>2. ASSUME NEW i \in DOMAIN u, Matches(u[i], n, k), IsReading(k, u[i].value)
        PROVE  q[n][c] = "set" \/ \E j \in DOMAIN u : j < i /\ Matches(u[j], n, c)
    <3>1. i + 1 \in DOMAIN s /\ i \in Nat /\ u[i] = s[i + 1]
      BY <1>0, <2>1, <2>2
    <3>2. q[n][c] = "set" \/ \E j \in DOMAIN s : j < i + 1 /\ j # 1 /\ Matches(s[j], n, c)
      BY <1>4, <2>2, <3>1
    <3>3. ASSUME NEW j \in DOMAIN s, j < i + 1, j # 1, Matches(s[j], n, c)
          PROVE  \E h \in DOMAIN u : h < i /\ Matches(u[h], n, c)
      <4>1. j - 1 \in 1 .. Len(s) - 1 /\ (j - 1) + 1 = j /\ j - 1 < i
        BY <1>0, <3>1, <3>3
      <4>2. QED
        BY <2>1, <3>3, <4>1
    <3>4. QED
      BY <3>2, <3>3
  <2>3. QED
    BY <1>3, <2>2 DEF Covered, c
<1>7. QED
  BY <1>5, <1>6

LEMMA HasConfigDeliver ==
  ASSUME NEW r \in Kept, NEW s \in Seq(BrokerEntries), s # << >>, ConfigsSet(s), NEW q \in Kept,
         \A a \in PubNodes, t \in Publisher!Topics :
            q[a][t] = IF Matches(s[1], a, t) THEN s[1].value ELSE r[a][t],
         NEW u, u = s \/ u = Tail(s),
         NEW n, NEW c \in SensorConfigs, n \in PubNodes, HasConfig(r, s, n, c)
  PROVE  HasConfig(q, u, n, c)
<1>a. c \in Publisher!Topics
  BY Zenon DEF Publisher!Topics, SensorConfigs
<1>b. 1 \in DOMAIN s /\ DOMAIN s = 1 .. Len(s) /\ Len(s) \in Nat
  OBVIOUS
<1>0. /\ c \in Publisher!Topics /\ 1 \in DOMAIN s /\ DOMAIN s = 1 .. Len(s) /\ Len(s) \in Nat
  BY <1>a, <1>b
<1>1. r[n][c] = "set" => q[n][c] = "set"
  BY <1>0 DEF ConfigsSet, Matches
<1>2. Matches(s[1], n, c) => q[n][c] = "set"
  BY <1>0 DEF ConfigsSet, Matches
<1>3. q[n][c] = "set" \/ \E j \in DOMAIN s : j # 1 /\ Matches(s[j], n, c)
  BY <1>1, <1>2 DEF HasConfig
<1>4. CASE u = s
  BY <1>3, <1>4 DEF HasConfig
<1>5. CASE u = Tail(s)
  <2>1. /\ DOMAIN u = 1 .. Len(s) - 1
        /\ \A i \in DOMAIN u : i + 1 \in DOMAIN s /\ u[i] = s[i + 1]
    BY <1>0, <1>5
  <2>2. ASSUME NEW j \in DOMAIN s, j # 1, Matches(s[j], n, c)
        PROVE  \E h \in DOMAIN u : Matches(u[h], n, c)
    <3>1. j - 1 \in 1 .. Len(s) - 1 /\ (j - 1) + 1 = j
      BY <1>0, <2>2
    <3>2. QED
      BY <2>1, <2>2, <3>1
  <2>3. QED
    BY <1>3, <2>2 DEF HasConfig
<1>6. QED
  BY <1>4, <1>5

LEMMA DeliverStep ==
  ASSUME BrokerInv, NEW acked \in BOOLEAN, Publisher!Deliver(acked)
  PROVE  BrokerInv'
<1> DEFINE r == retained
           s == outbox
           q == retained'
           u == outbox'
<1>1. /\ r \in Kept /\ s \in Seq(BrokerEntries) /\ s # << >> /\ ConfigsSet(s)
      /\ \A n \in PubNodes \ partial, k \in {"position", "telemetry"} : Covered(r, s, n, k)
  BY DEF BrokerInv, Backed, Publisher!Deliver
<1>2. /\ q = [r EXCEPT ![Head(s).node][Head(s).topic] = Head(s).value]
      /\ u = s \/ u = Tail(s)
  BY DEF Publisher!Deliver
<1>3. UNCHANGED << mqttConf, allowed, listed, announced, letOut, outdated, partial >>
  BY DEF Publisher!Deliver, Publisher!clientVars
<1> HIDE DEF r, s, q, u
<1>4. /\ q \in Kept /\ s[1] \in BrokerEntries /\ 1 \in DOMAIN s
      /\ \A n \in PubNodes, t \in Publisher!Topics :
               q[n][t] = IF Matches(s[1], n, t) THEN s[1].value ELSE r[n][t]
  <2> DEFINE d == [r EXCEPT ![Head(s).node][Head(s).topic] = Head(s).value]
  <2>1. /\ d \in Kept /\ s[1] \in BrokerEntries /\ 1 \in DOMAIN s
        /\ \A n \in PubNodes, t \in Publisher!Topics :
              d[n][t] = IF Matches(s[1], n, t) THEN s[1].value ELSE r[n][t]
    BY <1>1, Delivered
  <2>2. q = d
    BY <1>2
  <2> HIDE DEF d
  <2>3. QED
    BY <2>1, <2>2
<1>5. u \in Seq(BrokerEntries) /\ ConfigsSet(u)
  <2>1. CASE u = s
    BY <1>1, <2>1
  <2>2. CASE u = Tail(s)
    <3>1. /\ u \in Seq(BrokerEntries)
          /\ \A i \in DOMAIN u : i + 1 \in DOMAIN s /\ u[i] = s[i + 1]
      BY <1>1, <2>2
    <3>2. QED
      BY <1>1, <3>1 DEF ConfigsSet
  <2>3. QED
    BY <1>2, <2>1, <2>2
<1>6. \A n \in PubNodes \ partial, k \in {"position", "telemetry"} : Covered(q, u, n, k)
  <2>1. ASSUME NEW n \in PubNodes \ partial, NEW k \in {"position", "telemetry"}
        PROVE  Covered(q, u, n, k)
    <3>1. Covered(r, s, n, k) /\ n \in PubNodes
      BY <1>1, <2>1
    <3>2. u = s \/ u = Tail(s)
      BY <1>2
    <3>3. QED
      BY <1>1, <1>4, <2>1, <3>1, <3>2, CoveredDeliver
  <2>2. QED
    BY <2>1
<1>7. Backed(q, u, partial)
  BY <1>5, <1>6 DEF Backed
<1>8. \A n \in announced : \E c \in SensorConfigs : HasConfig(q, u, n, c)
  <2>1. \A n \in announced : \E c \in SensorConfigs : HasConfig(r, s, n, c)
    BY DEF BrokerInv, r, s
  <2>2. u = s \/ u = Tail(s)
    BY <1>2
  <2>3. ASSUME NEW n \in announced PROVE \E c \in SensorConfigs : HasConfig(q, u, n, c)
    <3>1. PICK c \in SensorConfigs : HasConfig(r, s, n, c)
      BY <2>1, <2>3
    <3>2. n \in PubNodes
      BY <2>3 DEF BrokerInv
    <3>3. HasConfig(q, u, n, c)
      BY <1>1, <1>4, <2>2, <3>1, <3>2, HasConfigDeliver, Zenon
    <3>4. QED
      BY <3>3
  <2>4. QED
    BY <2>3
<1>9. \A n \in PubNodes : Publisher!Effective(q, u, n, "position") = Publisher!Effective(r, s, n, "position")
  <2>1. "position" \in Publisher!Topics
    BY DEF Publisher!Topics
  <2>2. u = s \/ u = Tail(s)
    BY <1>2
  <2>3. ASSUME NEW n \in PubNodes
        PROVE  Publisher!Effective(q, u, n, "position") = Publisher!Effective(r, s, n, "position")
    BY <1>1, <1>4, <2>1, <2>2, <2>3, EffectiveDeliver
  <2>4. QED
    BY <2>3
<1>10. Publisher!OverPolicy(mqttConf, outbox)' = Publisher!OverPolicy(mqttConf, outbox)
  BY <1>3, <1>9 DEF Publisher!OverPolicy, Publisher!Policy, r, s, q, u
<1>11. Publisher!PublicOnly'
  BY <1>3 DEF BrokerInv, Publisher!PublicOnly
<1>12. QED
  BY <1>3, <1>4, <1>7, <1>8, <1>10, <1>11 DEF BrokerInv, Publisher!RetainedWithinPolicy, q, u

(* What a packet puts into the outbox: nothing, a location taken back, or  *)
(* the announcement of a node followed by its readings.                    *)
EntryFor(p, t, v) == [node |-> p.node, topic |-> t, value |-> v]

LEMMA LocatedCases ==
  ASSUME NEW p \in Publisher!Packets
  PROVE  /\ Publisher!Located(p) \in {"none", "approximate", "exact"}
         /\ Publisher!Located(p) # "none" =>
               p.kind = "position" /\ Publisher!Located(p) = Publisher!Policy(mqttConf)
BY DEF Publisher!Located, Publisher!Policy, Publisher!Policies

LEMMA AnnounceCases ==
  ASSUME NEW p \in Publisher!Packets
  PROVE  /\ p.node \in announced => Publisher!Announce(p) = << >>
         /\ p.kind = "battery" =>
               /\ Publisher!Remembered(p) = {p.node}
               /\ p.node \notin announced =>
                     Publisher!Announce(p) = << EntryFor(p, "battery config", "set") >>
         /\ Publisher!Located(p) # "none" =>
               /\ Publisher!Remembered(p) = {p.node}
               /\ p.node \notin announced =>
                     Publisher!Announce(p) = << EntryFor(p, "tracker config", "set") >>
         /\ (p.kind # "battery" /\ Publisher!Located(p) = "none") =>
               Publisher!Announce(p) = << >> /\ Publisher!Remembered(p) = {}
<1>1. p.node \in announced => Publisher!Announce(p) = << >>
  BY DEF Publisher!Announce
<1>2. \A c : (CHOOSE s \in {c} : TRUE) = c
  OBVIOUS
<1>3. ASSUME NEW c, Publisher!SensorsOf(p) = {c}
      PROVE  /\ Publisher!Remembered(p) = {p.node}
             /\ p.node \notin announced => Publisher!Announce(p) = << EntryFor(p, c, "set") >>
  <2>1. Publisher!SensorsOf(p) # {}
    BY <1>3
  <2>2. (CHOOSE s \in Publisher!SensorsOf(p) : TRUE) = c
    BY <1>2, <1>3
  <2>3. Publisher!Remembered(p) = {p.node}
    BY <2>1 DEF Publisher!Remembered
  <2>4. p.node \notin announced =>
           Publisher!Announce(p) = << EntryFor(p, CHOOSE s \in Publisher!SensorsOf(p) : TRUE, "set") >>
    BY <2>1, Zenon DEF Publisher!Announce, Publisher!Entry, EntryFor
  <2>5. QED
    BY <2>2, <2>3, <2>4
<1>4. p.kind = "battery" => Publisher!SensorsOf(p) = {"battery config"}
  BY DEF Publisher!SensorsOf
<1>5. Publisher!Located(p) # "none" => Publisher!SensorsOf(p) = {"tracker config"}
  BY LocatedCases, Zenon DEF Publisher!SensorsOf
<1>6. (p.kind # "battery" /\ Publisher!Located(p) = "none") => Publisher!SensorsOf(p) = {}
  BY DEF Publisher!SensorsOf
<1>7. Publisher!SensorsOf(p) = {} => Publisher!Announce(p) = << >> /\ Publisher!Remembered(p) = {}
  BY DEF Publisher!Announce, Publisher!Remembered
<1>8. QED
  BY <1>1, <1>3, <1>4, <1>5, <1>6, <1>7, Zenon

LEMMA StateCases ==
  ASSUME NEW p \in Publisher!Packets
  PROVE  /\ p.kind = "battery" => Publisher!State(p) = << EntryFor(p, "telemetry", "set") >>
         /\ p.kind = "bare" => Publisher!State(p) = << EntryFor(p, "telemetry", "bare") >>
         /\ Publisher!Located(p) # "none" =>
               Publisher!State(p) = << EntryFor(p, "position", Publisher!Located(p)) >>
         /\ (p.kind \notin {"battery", "bare"} /\ Publisher!Located(p) = "none") =>
               Publisher!State(p) = << >>
BY LocatedCases DEF Publisher!State, Publisher!Entry, EntryFor

LEMMA ClearCases ==
  ASSUME NEW p \in Publisher!Packets
  PROVE  /\ (Publisher!IsPosition(p) /\ Publisher!Located(p) = "none") =>
               Publisher!Clear(p) = << EntryFor(p, "position", "empty") >>
         /\ ~(Publisher!IsPosition(p) /\ Publisher!Located(p) = "none") =>
               Publisher!Clear(p) = << >>
BY DEF Publisher!Clear, Publisher!Entry, EntryFor

LEMMA Joining ==
  ASSUME NEW S, NEW s \in Seq(S), NEW a \in S, NEW b \in S
  PROVE  /\ (s \o << >>) \o << >> = s
         /\ (s \o << >>) \o << b >> = Append(s, b)
         /\ (s \o (<< >> \o << b >>)) \o << >> = Append(s, b)
         /\ (s \o (<< a >> \o << b >>)) \o << >> = Append(Append(s, a), b)
         /\ (s \o (<< >> \o << >>)) \o << >> = s
         /\ (s \o (<< >> \o << >>)) \o << b >> = Append(s, b)
<1>1. << >> \in Seq(S) /\ << a >> \in Seq(S) /\ << b >> \in Seq(S) /\ Append(s, a) \in Seq(S)
      /\ Append(s, b) \in Seq(S) /\ Append(Append(s, a), b) \in Seq(S)
  OBVIOUS
<1>2. \A q \in Seq(S) : q \o << >> = q /\ << >> \o q = q
  BY ConcatEmptySeq
<1>3. \A q \in Seq(S) : Append(q, a) = q \o << a >> /\ Append(q, b) = q \o << b >>
  BY AppendIsConcat
<1>4. (s \o << a >>) \o << b >> = s \o (<< a >> \o << b >>)
  BY <1>1, ConcatAssociative
<1>5. s \o (<< a >> \o << b >>) = Append(Append(s, a), b)
  BY <1>1, <1>3, <1>4
<1>6. << >> \o << b >> = << b >> /\ << >> \o << >> = << >>
  BY <1>1, <1>2
<1>7. QED
  BY <1>1, <1>2, <1>3, <1>5, <1>6

Quiet(p) ==
  /\ outbox' = outbox /\ announced' = announced
  /\ ~(Publisher!IsPosition(p) /\ discovery /\ link)

Blanked(p, k, v) ==
  /\ outbox' = Append(outbox, EntryFor(p, k, v)) /\ announced' = announced
  /\ \/ k = "position" /\ v = "empty"
     \/ k = "telemetry" /\ v = "bare" /\ ~Publisher!IsPosition(p)

Reported(p, k, v) ==
  /\ \/ k = "position" /\ v \in {"approximate", "exact"} /\ v = Publisher!Policy(mqttConf)
     \/ k = "telemetry" /\ v = "set" /\ ~Publisher!IsPosition(p)
  /\ \/ /\ p.node \in announced /\ announced' = announced
        /\ outbox' = Append(outbox, EntryFor(p, k, v))
        /\ Publisher!HasEntity(p.node) => p.node \in partial'
     \/ /\ announced' = announced \cup {p.node}
        /\ outbox' = Append(Append(outbox, EntryFor(p, ConfigFor(k), "set")), EntryFor(p, k, v))

LEMMA EntryType ==
  ASSUME NEW p \in Publisher!Packets, NEW t \in Publisher!Topics, NEW v \in BrokerValues
  PROVE  EntryFor(p, t, v) \in BrokerEntries
BY DEF EntryFor, BrokerEntries, Publisher!Packets

LEMMA HearOutbox ==
  ASSUME outbox \in Seq(BrokerEntries), NEW p \in Publisher!Packets, Publisher!Hear(p),
         active, mqttUp, Publisher!PassesSafetyGates(p)
  PROVE  \/ Quiet(p)
         \/ \E k \in Publisher!Topics, v \in BrokerValues : Blanked(p, k, v) \/ Reported(p, k, v)
<1> DEFINE live == Publisher!HasMessage(p) /\ link
           shown == discovery /\ live
           A == Publisher!Announce(p)
           S == Publisher!State(p)
           C == Publisher!Clear(p)
           news == IF shown THEN A \o S ELSE << >>
           cleared == IF discovery THEN C ELSE << >>
           L == Publisher!Located(p)
<1>1. /\ outbox' = (outbox \o news) \o cleared
      /\ announced' = IF shown THEN announced \cup Publisher!Remembered(p) ELSE announced
      /\ (shown /\ p.node \in announced /\ Publisher!HasEntity(p.node)) => p.node \in partial'
  <2>1. /\ outbox' = (outbox \o news) \o cleared
        /\ announced' = IF shown THEN announced \cup Publisher!Remembered(p) ELSE announced
        /\ partial' = IF shown /\ p.node \in announced /\ Publisher!HasEntity(p.node)
                        THEN partial \cup {p.node} ELSE partial
    BY Zenon DEF Publisher!Hear
  <2>2. QED
    BY <2>1
<1>2. /\ L \in {"none", "approximate", "exact"}
      /\ L # "none" => p.kind = "position" /\ L = Publisher!Policy(mqttConf)
  BY LocatedCases
<1>3. Publisher!IsPosition(p) <=> p.kind \in {"position", "nowhere"}
  BY DEF Publisher!IsPosition
<1>4. p.kind \in {"position", "nowhere", "battery", "bare", "text"}
  BY DEF Publisher!Packets, Publisher!Kinds
<1>5. /\ ~Publisher!IsPosition(p) => Publisher!HasMessage(p)
      /\ L # "none" => Publisher!HasMessage(p)
  BY DEF Publisher!HasMessage
<1>6. \A t \in Publisher!Topics, v \in BrokerValues : EntryFor(p, t, v) \in BrokerEntries
  BY EntryType
<1>7. {"position", "telemetry", "tracker config", "battery config"} \subseteq Publisher!Topics
      /\ {"empty", "set", "bare", "none", "approximate", "exact"} \subseteq BrokerValues
  BY DEF Publisher!Topics, BrokerValues
<1>d. /\ shown => news = A \o S
      /\ ~shown => news = << >>
      /\ discovery => cleared = C
      /\ ~discovery => cleared = << >>
  OBVIOUS
<1>s. shown <=> discovery /\ live
  OBVIOUS
<1> HIDE DEF L, A, S, C, live, news, cleared, shown
<1>8. CASE p.kind = "battery"
  <2>1. S = << EntryFor(p, "telemetry", "set") >> /\ C = << >> /\ ~Publisher!IsPosition(p)
    BY <1>8, <1>3, StateCases, ClearCases DEF S, C
  <2>2. CASE ~shown
    <3>1. outbox' = outbox
      BY <1>1, <1>d, <1>s, <1>6, <1>7, <2>1, <2>2, Joining, Zenon
    <3>2. QED
      BY <1>1, <1>d, <1>s, <2>1, <2>2, <3>1 DEF Quiet
  <2>3. CASE shown /\ p.node \in announced
    <3>1. A = << >>
      BY <2>3, AnnounceCases, Zenon DEF A
    <3>2. outbox' = (outbox \o (<< >> \o << EntryFor(p, "telemetry", "set") >>)) \o << >>
      BY <1>1, <1>d, <1>s, <2>1, <2>3, <3>1
    <3>3. EntryFor(p, "telemetry", "set") \in BrokerEntries
      BY <1>6, <1>7, Zenon
    <3>4. outbox' = Append(outbox, EntryFor(p, "telemetry", "set"))
      BY <3>2, <3>3, Joining
    <3>5. Publisher!Remembered(p) = {p.node}
      BY <1>8, AnnounceCases, Zenon
    <3>6. announced' = announced
      BY <1>1, <1>d, <1>s, <2>3, <3>5
    <3>7. Reported(p, "telemetry", "set")
      BY <1>1, <1>d, <1>s, <2>1, <2>3, <3>4, <3>6 DEF Reported
    <3>8. QED
      BY <1>7, <3>7, Zenon
  <2>4. CASE shown /\ p.node \notin announced
    <3>1. A = << EntryFor(p, "battery config", "set") >> /\ Publisher!Remembered(p) = {p.node}
      BY <1>8, <2>4, AnnounceCases, Zenon DEF A
    <3>2. outbox' = (outbox \o (<< EntryFor(p, "battery config", "set") >> \o << EntryFor(p, "telemetry", "set") >>)) \o << >>
      BY <1>1, <1>d, <1>s, <2>1, <2>4, <3>1, Zenon
    <3>3. EntryFor(p, "telemetry", "set") \in BrokerEntries /\ EntryFor(p, "battery config", "set") \in BrokerEntries
      BY <1>6, <1>7, Zenon
    <3>4. outbox' = Append(Append(outbox, EntryFor(p, "battery config", "set")), EntryFor(p, "telemetry", "set"))
      <4> DEFINE a == EntryFor(p, "battery config", "set")
                 b == EntryFor(p, "telemetry", "set")
      <4>1. outbox' = (outbox \o (<< a >> \o << b >>)) \o << >> /\ a \in BrokerEntries /\ b \in BrokerEntries
        BY <3>2, <3>3, Zenon
      <4> HIDE DEF a, b
      <4>2. (outbox \o (<< a >> \o << b >>)) \o << >> = Append(Append(outbox, a), b)
        BY <4>1, Joining
      <4>3. QED
        BY <4>1, <4>2, Zenon DEF a, b
    <3>5. ConfigFor("telemetry") = "battery config"
      BY DEF ConfigFor
    <3>6. announced' = announced \cup {p.node}
      BY <1>1, <1>d, <1>s, <2>4, <3>1, Zenon
    <3>7. Reported(p, "telemetry", "set")
      BY <1>1, <1>d, <1>s, <2>1, <2>4, <3>4, <3>5, <3>6, Zenon DEF Reported
    <3>8. QED
      BY <1>7, <3>7, Zenon
  <2>5. QED
    BY <2>2, <2>3, <2>4
<1>9. CASE L # "none"
  <2>1. S = << EntryFor(p, "position", L) >> /\ C = << >> /\ Publisher!IsPosition(p)
    BY <1>9, <1>2, <1>3, StateCases, ClearCases DEF S, C, L
  <2>2. CASE ~shown
    <3>1. outbox' = outbox
      BY <1>1, <1>d, <1>s, <1>6, <1>7, <2>1, <2>2, Joining, Zenon
    <3>2. ~(discovery /\ link)
      BY <1>5, <1>9, <1>s, <2>2 DEF live
    <3>3. QED
      BY <1>1, <1>d, <1>s, <2>1, <2>2, <3>1, <3>2 DEF Quiet
  <2>3. CASE shown /\ p.node \in announced
    <3>1. A = << >>
      BY <2>3, AnnounceCases, Zenon DEF A
    <3>2. outbox' = (outbox \o (<< >> \o << EntryFor(p, "position", L) >>)) \o << >>
      BY <1>1, <1>d, <1>s, <2>1, <2>3, <3>1
    <3>3. EntryFor(p, "position", L) \in BrokerEntries
      BY <1>2, <1>6, <1>7, Zenon
    <3>4. outbox' = Append(outbox, EntryFor(p, "position", L))
      BY <3>2, <3>3, Joining
    <3>5. Publisher!Remembered(p) = {p.node}
      BY <1>9, AnnounceCases, Zenon DEF L
    <3>6. announced' = announced
      BY <1>1, <1>d, <1>s, <2>3, <3>5
    <3>7. Reported(p, "position", L)
      BY <1>1, <1>d, <1>s, <1>2, <1>9, <2>3, <3>4, <3>6 DEF Reported
    <3>8. QED
      BY <1>2, <1>7, <3>7, Zenon
  <2>4. CASE shown /\ p.node \notin announced
    <3>1. A = << EntryFor(p, "tracker config", "set") >> /\ Publisher!Remembered(p) = {p.node}
      BY <1>9, <2>4, AnnounceCases, Zenon DEF A, L
    <3>2. outbox' = (outbox \o (<< EntryFor(p, "tracker config", "set") >> \o << EntryFor(p, "position", L) >>)) \o << >>
      BY <1>1, <1>d, <1>s, <2>1, <2>4, <3>1, Zenon
    <3>3. EntryFor(p, "position", L) \in BrokerEntries /\ EntryFor(p, "tracker config", "set") \in BrokerEntries
      BY <1>2, <1>6, <1>7, Zenon
    <3>4. outbox' = Append(Append(outbox, EntryFor(p, "tracker config", "set")), EntryFor(p, "position", L))
      <4> DEFINE a == EntryFor(p, "tracker config", "set")
                 b == EntryFor(p, "position", L)
      <4>1. outbox' = (outbox \o (<< a >> \o << b >>)) \o << >> /\ a \in BrokerEntries /\ b \in BrokerEntries
        BY <3>2, <3>3, Zenon
      <4> HIDE DEF a, b
      <4>2. (outbox \o (<< a >> \o << b >>)) \o << >> = Append(Append(outbox, a), b)
        BY <4>1, Joining
      <4>3. QED
        BY <4>1, <4>2, Zenon DEF a, b
    <3>5. ConfigFor("position") = "tracker config"
      BY DEF ConfigFor
    <3>6. announced' = announced \cup {p.node}
      BY <1>1, <1>d, <1>s, <2>4, <3>1, Zenon
    <3>7. Reported(p, "position", L)
      BY <1>1, <1>d, <1>s, <1>2, <1>9, <2>4, <3>4, <3>5, <3>6, Zenon DEF Reported
    <3>8. QED
      BY <1>2, <1>7, <3>7, Zenon
  <2>5. QED
    BY <2>2, <2>3, <2>4
<1>10. CASE p.kind # "battery" /\ L = "none"
  <2>1. A = << >> /\ announced' = announced
    BY <1>1, <1>d, <1>s, <1>10, AnnounceCases, Zenon DEF A, L
  <2>2. CASE p.kind = "bare"
    <3>1. S = << EntryFor(p, "telemetry", "bare") >> /\ C = << >> /\ ~Publisher!IsPosition(p)
      BY <1>3, <2>2, StateCases, ClearCases DEF S, C
    <3>2. CASE ~shown
      <4>1. outbox' = outbox
        BY <1>1, <1>d, <1>s, <1>6, <1>7, <3>1, <3>2, Joining, Zenon
      <4>2. QED
        BY <2>1, <3>1, <4>1 DEF Quiet
    <3>3. CASE shown
      <4>1. outbox' = (outbox \o (<< >> \o << EntryFor(p, "telemetry", "bare") >>)) \o << >>
        BY <1>1, <1>d, <1>s, <2>1, <3>1, <3>3
      <4>2. EntryFor(p, "telemetry", "bare") \in BrokerEntries
        BY <1>6, <1>7, Zenon
      <4>3. outbox' = Append(outbox, EntryFor(p, "telemetry", "bare"))
        BY <4>1, <4>2, Joining
      <4>4. Blanked(p, "telemetry", "bare")
        BY <2>1, <3>1, <4>3 DEF Blanked
      <4>5. QED
        BY <1>7, <4>4, Zenon
    <3>4. QED
      BY <3>2, <3>3
  <2>3. CASE Publisher!IsPosition(p)
    <3>1. S = << >> /\ C = << EntryFor(p, "position", "empty") >>
      BY <1>3, <1>10, <2>3, StateCases, ClearCases DEF S, C, L
    <3>2. EntryFor(p, "position", "empty") \in BrokerEntries
      BY <1>6, <1>7, Zenon
    <3>3. CASE ~discovery
      <4>1. outbox' = outbox
        BY <1>1, <1>d, <1>s, <3>2, <3>3, Joining
      <4>2. QED
        BY <2>1, <3>3, <4>1 DEF Quiet
    <3>4. CASE discovery
      <4>1. outbox' = (outbox \o (<< >> \o << >>)) \o << EntryFor(p, "position", "empty") >> \/ outbox' = (outbox \o << >>) \o << EntryFor(p, "position", "empty") >>
        BY <1>1, <1>d, <1>s, <2>1, <3>1, <3>4
      <4>2. outbox' = Append(outbox, EntryFor(p, "position", "empty"))
        BY <3>2, <4>1, Joining
      <4>3. Blanked(p, "position", "empty")
        BY <2>1, <4>2 DEF Blanked
      <4>4. QED
        BY <1>7, <4>3, Zenon
    <3>5. QED
      BY <3>3, <3>4
  <2>4. CASE p.kind = "text"
    <3>1. S = << >> /\ C = << >> /\ ~Publisher!IsPosition(p)
      BY <1>3, <1>10, <2>4, StateCases, ClearCases DEF S, C, L
    <3>2. outbox' = (outbox \o (<< >> \o << >>)) \o << >> \/ outbox' = (outbox \o << >>) \o << >>
      BY <1>1, <1>d, <1>s, <2>1, <3>1
    <3>3. EntryFor(p, "position", "empty") \in BrokerEntries
      BY <1>6, <1>7, Zenon
    <3>4. outbox' = outbox
      BY <3>2, <3>3, Joining
    <3>5. QED
      BY <2>1, <3>1, <3>4 DEF Quiet
  <2>5. QED
    BY <1>3, <1>4, <1>10, <2>2, <2>3, <2>4
<1>11. QED
  BY <1>8, <1>9, <1>10

(* One lemma per action that the invariant does not survive trivially,     *)
(* then the step.                                                          *)
LEMMA OverAfter ==
  ASSUME NEW p \in Publisher!Packets, NEW k \in Publisher!Topics, NEW v \in BrokerValues,
         NEW n \in PubNodes, NEW s \in Seq(BrokerEntries), retained \in Kept,
         NEW r, r = retained
  PROVE  Publisher!Effective(r, Append(s, EntryFor(p, k, v)), n, "position") =
            IF n = p.node /\ k = "position" THEN v
            ELSE Publisher!Effective(r, s, n, "position")
<1> DEFINE e == EntryFor(p, k, v)
<1>1. e \in BrokerEntries /\ "position" \in Publisher!Topics
  BY EntryType, Zenon DEF Publisher!Topics
<1>2. Matches(e, n, "position") <=> n = p.node /\ k = "position"
  BY DEF Matches, EntryFor
<1>3. e.value = v
  BY DEF EntryFor
<1> HIDE DEF e
<1>4. Publisher!Effective(r, Append(s, e), n, "position") =
         IF Matches(e, n, "position") THEN e.value ELSE Publisher!Effective(r, s, n, "position")
  BY <1>1, EffectiveAppend
<1>5. QED
  BY <1>2, <1>3, <1>4 DEF e

LEMMA PublicStep ==
  ASSUME BrokerInv, NEW p \in Publisher!Packets, Publisher!Hear(p)
  PROVE  Publisher!PublicOnly'
<1>1. listed' = listed /\ allowed = listed /\ Publisher!PublicOnly
  BY DEF Publisher!Hear, BrokerInv
<1>2. letOut' = letOut \/ (Publisher!PassesSafetyGates(p) /\ letOut' = letOut \cup {[chan |-> p.chan, dest |-> p.dest]})
  BY DEF Publisher!Hear
<1>3. ASSUME Publisher!PassesSafetyGates(p)
      PROVE  /\ p.dest = "all"
             /\ \/ p.chan \in listed
                \/ ChanHash[p.chan] = 0
                \/ \E c \in PubChannels \ {p.chan} : ChanHash[c] = ChanHash[p.chan]
  <2>1. p.dest = "all" /\ Publisher!ResolveName(ChanHash[p.chan]) \in listed /\ p.chan \in PubChannels
    BY <1>1, <1>3 DEF Publisher!PassesSafetyGates, Publisher!Packets
  <2>2. CASE ChanHash[p.chan] # 0
    <3> DEFINE of == {c \in PubChannels : ChanHash[c] = ChanHash[p.chan]}
               x == CHOOSE c \in of : TRUE
    <3>1. p.chan \in of
      BY <2>1
    <3>2. x \in of
      BY <3>1
    <3>3. of # {}
      BY <3>1
    <3>4. Publisher!ResolveName(ChanHash[p.chan]) = x
      BY <2>2, <3>3, Zenon DEF Publisher!ResolveName
    <3>5. x \in listed /\ x \in PubChannels /\ ChanHash[x] = ChanHash[p.chan]
      BY <2>1, <3>2, <3>4
    <3> HIDE DEF x
    <3>6. QED
      BY <2>1, <3>5
  <2>3. QED
    BY <2>1, <2>2
<1> DEFINE new == [chan |-> p.chan, dest |-> p.dest]
<1>4. new.chan = p.chan /\ new.dest = p.dest
  OBVIOUS
<1> HIDE DEF new
<1>5. CASE letOut' = letOut
  BY <1>1, <1>5 DEF Publisher!PublicOnly
<1>6. CASE Publisher!PassesSafetyGates(p) /\ letOut' = letOut \cup {new}
  <2>1. ASSUME NEW q \in letOut'
        PROVE  /\ q.dest = "all"
               /\ \/ q.chan \in listed
                  \/ ChanHash[q.chan] = 0
                  \/ \E c \in PubChannels \ {q.chan} : ChanHash[c] = ChanHash[q.chan]
    <3>1. CASE q \in letOut
      BY <1>1, <3>1 DEF Publisher!PublicOnly
    <3>2. CASE q = new
      BY <1>3, <1>4, <1>6, <3>2
    <3>3. QED
      BY <1>6, <2>1, <3>1, <3>2
  <2>2. QED
    BY <1>1, <2>1 DEF Publisher!PublicOnly
<1>7. QED
  BY <1>2, <1>5, <1>6 DEF new

LEMMA HearStep ==
  ASSUME BrokerInv, NEW p \in Publisher!Packets, Publisher!Hear(p)
  PROVE  BrokerInv'
<1>1. /\ retained \in Kept /\ announced \subseteq PubNodes /\ outbox \in Seq(BrokerEntries)
      /\ Backed(retained, outbox, partial) /\ ConfigsSet(outbox) /\ p.node \in PubNodes
      /\ \A n \in announced : \E c \in SensorConfigs : HasConfig(retained, outbox, n, c)
      /\ Publisher!OverPolicy(mqttConf, outbox) \subseteq outdated
  BY DEF BrokerInv, Backed, Publisher!RetainedWithinPolicy, Publisher!Packets
<1>2. UNCHANGED << retained, mqttConf, allowed, listed >>
  BY DEF Publisher!Hear
<1>3. Publisher!PublicOnly' /\ allowed' = listed'
  BY <1>2, PublicStep DEF BrokerInv
<1>4. CASE ~(active /\ mqttUp /\ Publisher!PassesSafetyGates(p))
  <2>1. UNCHANGED << outbox, announced, partial, outdated >>
    BY <1>4 DEF Publisher!Hear
  <2>2. Publisher!OverPolicy(mqttConf, outbox)' = Publisher!OverPolicy(mqttConf, outbox)
    BY <1>2, <2>1 DEF Publisher!OverPolicy, Publisher!Policy
  <2>3. QED
    BY <1>1, <1>2, <1>3, <2>1, <2>2 DEF BrokerInv, Publisher!RetainedWithinPolicy
<1>5. CASE active /\ mqttUp /\ Publisher!PassesSafetyGates(p)
  <2>1. /\ partial \subseteq partial'
        /\ outdated' = IF Publisher!IsPosition(p) /\ discovery /\ link
                         THEN outdated \ {p.node} ELSE outdated
    BY <1>5 DEF Publisher!Hear
  <2>2. Backed(retained, outbox, partial')
    BY <1>1, <2>1, BackedMore
  <2> DEFINE Goal == /\ Backed(retained, outbox', partial')
                     /\ announced' \subseteq PubNodes
                     /\ \A n \in announced' : \E c \in SensorConfigs : HasConfig(retained, outbox', n, c)
                     /\ \A n \in PubNodes : n \notin outdated' =>
                           ~ (Publisher!Rank[Publisher!Effective(retained, outbox', n, "position")]
                                > Publisher!Rank[Publisher!Policy(mqttConf)])
  <2>3. \A n \in PubNodes : n \notin outdated =>
           ~ (Publisher!Rank[Publisher!Effective(retained, outbox, n, "position")]
                > Publisher!Rank[Publisher!Policy(mqttConf)])
    BY <1>1 DEF Publisher!OverPolicy
  <2>4. ASSUME Quiet(p) PROVE Goal
    <3>1. outdated' = outdated /\ outbox' = outbox /\ announced' = announced
      BY <2>1, <2>4 DEF Quiet
    <3>2. QED
      BY <1>1, <2>2, <2>3, <3>1
  <2>5. Publisher!Policy(mqttConf) \in {"none", "approximate", "exact"}
    BY DEF Publisher!Policy, Publisher!Policies
  <2>6. ASSUME NEW k \in Publisher!Topics, NEW v \in BrokerValues, Blanked(p, k, v)
        PROVE  Goal
    <3> DEFINE e == EntryFor(p, k, v)
    <3>1. e \in BrokerEntries /\ e.node = p.node /\ e.topic = k /\ e.value = v
      BY EntryType DEF EntryFor
    <3>2. outbox' = Append(outbox, e) /\ announced' = announced
      BY <2>6 DEF Blanked
    <3>3. /\ e.topic \notin SensorConfigs
          /\ \A h \in {"position", "telemetry"} : ~ (e.topic = h /\ IsReading(h, e.value))
      BY <2>6, <3>1, Zenon DEF Blanked, SensorConfigs, IsReading
    <3>4. ASSUME NEW n \in PubNodes, n \notin outdated'
          PROVE  ~ (Publisher!Rank[Publisher!Effective(retained, outbox', n, "position")]
                      > Publisher!Rank[Publisher!Policy(mqttConf)])
      <4>1. Publisher!Effective(retained, outbox', n, "position") =
               IF n = p.node /\ k = "position" THEN v
               ELSE Publisher!Effective(retained, outbox, n, "position")
        BY <1>1, <3>2, OverAfter
      <4>2. CASE n = p.node /\ k = "position"
        <5>1. v = "empty"
          BY <2>6, <4>2 DEF Blanked
        <5>2. QED
          BY <2>5, <4>1, <4>2, <5>1 DEF Publisher!Rank
      <4>3. CASE ~ (n = p.node /\ k = "position")
        <5>1. n \notin outdated
          BY <2>1, <2>6, <3>4, <4>3 DEF Blanked
        <5>2. QED
          BY <2>3, <4>1, <4>3, <5>1
      <4>4. QED
        BY <4>2, <4>3
    <3> HIDE DEF e
    <3>5. Backed(retained, outbox', partial')
      BY <2>2, <3>1, <3>2, <3>3, BackedAppend
    <3>6. \A n \in announced' : \E c \in SensorConfigs : HasConfig(retained, outbox', n, c)
      BY <1>1, <3>1, <3>2, HasConfigAppend
    <3>7. QED
      BY <1>1, <3>2, <3>4, <3>5, <3>6
  <2>7. ASSUME NEW k \in Publisher!Topics, NEW v \in BrokerValues, Reported(p, k, v)
        PROVE  Goal
    <3> DEFINE e == EntryFor(p, k, v)
               f == EntryFor(p, ConfigFor(k), "set")
    <3>1. /\ k \in {"position", "telemetry"} /\ ConfigFor(k) \in Publisher!Topics
          /\ ConfigFor(k) # "position" /\ "set" \in BrokerValues /\ ConfigFor(k) \in SensorConfigs
      BY <2>7, Zenon DEF Reported, ConfigFor, Publisher!Topics, BrokerValues, SensorConfigs
    <3>2. e \in BrokerEntries /\ e.node = p.node /\ e.topic = k /\ e.value = v
      BY EntryType DEF EntryFor
    <3>3. f \in BrokerEntries /\ f.node = p.node /\ f.topic = ConfigFor(k) /\ f.value = "set"
      BY <3>1, EntryType DEF EntryFor
    <3>4. e.topic \notin SensorConfigs
      BY <3>1, <3>2, Zenon DEF SensorConfigs
    <3>5. /\ k = "position" => v = Publisher!Policy(mqttConf)
          /\ k # "position" => ~Publisher!IsPosition(p)
      BY <2>7 DEF Reported
    <3>6. ASSUME NEW s \in Seq(BrokerEntries), outbox' = Append(s, e),
                 \A n \in PubNodes : Publisher!Effective(retained, s, n, "position") =
                                     Publisher!Effective(retained, outbox, n, "position")
          PROVE  \A n \in PubNodes : n \notin outdated' =>
                    ~ (Publisher!Rank[Publisher!Effective(retained, outbox', n, "position")]
                         > Publisher!Rank[Publisher!Policy(mqttConf)])
      <4>1. ASSUME NEW n \in PubNodes, n \notin outdated'
            PROVE  ~ (Publisher!Rank[Publisher!Effective(retained, outbox', n, "position")]
                        > Publisher!Rank[Publisher!Policy(mqttConf)])
        <5>1. Publisher!Effective(retained, outbox', n, "position") =
                 IF n = p.node /\ k = "position" THEN v
                 ELSE Publisher!Effective(retained, s, n, "position")
          BY <1>1, <3>6, OverAfter
        <5>2. CASE n = p.node /\ k = "position"
          BY <2>5, <3>5, <5>1, <5>2 DEF Publisher!Rank
        <5>3. CASE ~ (n = p.node /\ k = "position")
          <6>1. n \notin outdated
            BY <2>1, <3>5, <4>1, <5>3
          <6>2. QED
            BY <2>3, <3>6, <5>1, <5>3, <6>1
        <5>4. QED
          BY <5>2, <5>3
      <4>2. QED
        BY <4>1
    <3>7. CASE /\ p.node \in announced /\ announced' = announced /\ outbox' = Append(outbox, e)
               /\ Publisher!HasEntity(p.node) => p.node \in partial'
      <4>1. PICK c \in SensorConfigs : HasConfig(retained, outbox, p.node, c)
        BY <1>1, <3>7
      <4>2. Publisher!Effective(retained, outbox, p.node, c) = "set"
        BY <1>1, <4>1, EffectiveConfig
      <4>3. p.node \in partial'
        BY <3>7, <4>1, <4>2, Zenon DEF Publisher!HasEntity, SensorConfigs
      <4> HIDE DEF e
      <4>4. Backed(retained, outbox', partial')
        BY <2>2, <3>2, <3>4, <3>7, <4>3, BackedAppend
      <4>5. \A n \in announced' : \E d \in SensorConfigs : HasConfig(retained, outbox', n, d)
        BY <1>1, <3>2, <3>7, HasConfigAppend
      <4>6. QED
        BY <1>1, <3>6, <3>7, <4>4, <4>5
    <3>8. CASE announced' = announced \cup {p.node} /\ outbox' = Append(Append(outbox, f), e)
      <4> DEFINE s == Append(outbox, f)
      <4>1. s \in Seq(BrokerEntries)
        BY <1>1, <3>3
      <4>2. \A n \in PubNodes : Publisher!Effective(retained, s, n, "position") =
                                Publisher!Effective(retained, outbox, n, "position")
        <5> DEFINE c == ConfigFor(k)
        <5>1. c \in Publisher!Topics /\ c # "position" /\ "set" \in BrokerValues
          BY <3>1
        <5> HIDE DEF c
        <5>2. ASSUME NEW n \in PubNodes
              PROVE  Publisher!Effective(retained, Append(outbox, EntryFor(p, c, "set")), n, "position") =
                     Publisher!Effective(retained, outbox, n, "position")
          BY <1>1, <5>1, <5>2, OverAfter
        <5>3. QED
          BY <5>2 DEF c
      <4> HIDE DEF e, f
      <4>3. /\ f.topic \in SensorConfigs => f.value = "set"
            /\ \A h \in {"position", "telemetry"} : ~ (f.topic = h)
        BY <3>1, <3>3, Zenon DEF SensorConfigs
      <4>4. Backed(retained, s, partial')
        BY <2>2, <3>3, <4>3, BackedAppend
      <4>5. HasConfig(retained, s, p.node, ConfigFor(k))
        BY <1>1, <3>3, HasConfigAppend DEF Matches
      <4>6. \A n \in announced : \E c \in SensorConfigs : HasConfig(retained, s, n, c)
        BY <1>1, <3>3, HasConfigAppend
      <4>7. outbox' = Append(s, e)
        BY <3>8
      <4> HIDE DEF s
      <4>8. \A h \in {"position", "telemetry"} :
               e.topic = h /\ IsReading(h, e.value) => HasConfig(retained, s, e.node, ConfigFor(h))
        BY <3>2, <4>5
      <4>9. Backed(retained, outbox', partial')
        BY <3>2, <3>4, <4>4, <4>7, <4>8, BackedAppend
      <4>10. \A n \in announced' : \E c \in SensorConfigs : HasConfig(retained, outbox', n, c)
        <5>1. \A n \in announced' : \E c \in SensorConfigs : HasConfig(retained, s, n, c)
          BY <3>1, <3>8, <4>5, <4>6
        <5>2. QED
          BY <3>2, <4>1, <4>7, <5>1, HasConfigAppend
      <4>11. QED
        BY <1>1, <3>6, <3>8, <4>1, <4>2, <4>7, <4>9, <4>10
    <3>9. QED
      BY <2>7, <3>7, <3>8 DEF Reported
  <2>8. Goal
    BY <1>1, <1>5, <2>4, <2>6, <2>7, HearOutbox
  <2>9. Publisher!RetainedWithinPolicy'
    BY <1>2, <2>8 DEF Publisher!RetainedWithinPolicy, Publisher!OverPolicy, Publisher!Policy
  <2>10. QED
    BY <1>1, <1>2, <1>3, <2>8, <2>9 DEF BrokerInv
<1>6. QED
  BY <1>4, <1>5

LEMMA BrokerStart ==
  ASSUME Publisher!Init
  PROVE  BrokerInv
<1>1. /\ outbox = << >> /\ announced = {} /\ letOut = {} /\ listed = allowed
      /\ retained = [n \in PubNodes |-> [t \in Publisher!Topics |-> "empty"]]
  BY DEF Publisher!Init
<1>2. retained \in Kept
  BY <1>1 DEF Kept, BrokerValues
<1>3. /\ outbox \in Seq(BrokerEntries) /\ DOMAIN outbox = {}
  BY <1>1
<1>4. \A n \in PubNodes, t \in Publisher!Topics : retained[n][t] = "empty"
  BY <1>1
<1>5. Backed(retained, outbox, partial)
  BY <1>3, <1>4, Zenon DEF Backed, ConfigsSet, Covered, IsReading, Publisher!Topics
<1>6. \A n \in PubNodes : Publisher!Effective(retained, outbox, n, "position") = "empty"
  BY <1>2, <1>3, <1>4, EffectiveNone, Zenon DEF Publisher!Topics
<1>7. Publisher!RetainedWithinPolicy
  BY <1>6 DEF Publisher!RetainedWithinPolicy, Publisher!OverPolicy, Publisher!Policy,
     Publisher!Policies, Publisher!Rank
<1>8. Publisher!PublicOnly
  BY <1>1 DEF Publisher!PublicOnly
<1>9. QED
  BY <1>1, <1>2, <1>5, <1>7, <1>8 DEF BrokerInv

LEMMA BrokerStep ==
  ASSUME BrokerInv, [Publisher!Next]_mqttVars
  PROVE  BrokerInv'
<1>1. ASSUME NEW p \in Publisher!Packets, Publisher!Hear(p) PROVE BrokerInv'
  BY <1>1, HearStep
<1>2. ASSUME UNCHANGED << retained, outbox, partial, allowed, listed, letOut, mqttConf, outdated >>,
             announced' = announced \/ announced' = {}
      PROVE  BrokerInv'
  <2>1. Publisher!OverPolicy(mqttConf, outbox)' = Publisher!OverPolicy(mqttConf, outbox)
    BY <1>2 DEF Publisher!OverPolicy, Publisher!Policy
  <2>2. Publisher!PublicOnly'
    BY <1>2 DEF BrokerInv, Publisher!PublicOnly
  <2>3. Backed(retained, outbox, partial)' /\ retained' \in Kept
    BY <1>2 DEF BrokerInv
  <2>4. announced' \subseteq PubNodes /\ \A n \in announced' : \E c \in SensorConfigs : HasConfig(retained', outbox', n, c)
    BY <1>2 DEF BrokerInv
  <2>5. QED
    BY <1>2, <2>1, <2>2, <2>3, <2>4 DEF BrokerInv, Publisher!RetainedWithinPolicy
<1>3. CASE Publisher!OnConnect
  BY <1>2, <1>3 DEF Publisher!OnConnect
<1>4. CASE Publisher!LinkDrops
  BY <1>2, <1>4 DEF Publisher!LinkDrops
<1>5. CASE Publisher!OnDisconnect
  BY <1>2, <1>5 DEF Publisher!OnDisconnect
<1>6. CASE Publisher!LinkReturns
  BY <1>2, <1>6 DEF Publisher!LinkReturns
<1>7. ASSUME NEW acked \in BOOLEAN, Publisher!Deliver(acked) PROVE BrokerInv'
  BY <1>7, DeliverStep
<1>8. ASSUME NEW u \in MqttSaves, NEW ok \in BOOLEAN, Publisher!UpdateMqtt(u, ok) PROVE BrokerInv'
  <2>1. /\ UNCHANGED << retained, outbox, partial, allowed, listed, letOut, announced >>
        /\ mqttConf' = u /\ outdated' = outdated \cup Publisher!OverPolicy(u, outbox)
    BY <1>8 DEF Publisher!UpdateMqtt, Publisher!clientVars
  <2>2. Publisher!OverPolicy(mqttConf, outbox)' = Publisher!OverPolicy(u, outbox)
    BY <2>1 DEF Publisher!OverPolicy, Publisher!Policy
  <2>3. Publisher!PublicOnly'
    BY <2>1 DEF BrokerInv, Publisher!PublicOnly
  <2>4. Publisher!RetainedWithinPolicy'
    BY <2>1, <2>2 DEF Publisher!RetainedWithinPolicy
  <2>5. QED
    BY <2>1, <2>3, <2>4 DEF BrokerInv
<1>9. ASSUME NEW answers \in BOOLEAN, Publisher!Restart(answers) PROVE BrokerInv'
  <2>1. /\ outbox' = << >> /\ UNCHANGED << retained, partial >> /\ announced' = {}
        /\ mqttConf' = mqttDisk /\ listed' = mqttDisk.channels /\ allowed' = mqttDisk.channels
        /\ letOut' = {} /\ outdated' = outdated \cup Publisher!OverPolicy(mqttDisk, << >>)
    BY <1>9 DEF Publisher!Restart, Publisher!Setup
  <2>2. Publisher!OverPolicy(mqttConf, outbox)' = Publisher!OverPolicy(mqttDisk, << >>)
    BY <2>1 DEF Publisher!OverPolicy, Publisher!Policy
  <2>3. Publisher!PublicOnly'
    BY <2>1 DEF Publisher!PublicOnly
  <2>4. Publisher!RetainedWithinPolicy'
    BY <2>1, <2>2 DEF Publisher!RetainedWithinPolicy
  <2>5. outbox' \in Seq(BrokerEntries) /\ DOMAIN outbox' = {}
    BY <2>1
  <2>6. Backed(retained', outbox', partial')
    BY <2>1, <2>5 DEF BrokerInv, Backed, ConfigsSet, Covered
  <2>7. retained' \in Kept
    BY <2>1 DEF BrokerInv
  <2>8. QED
    BY <2>1, <2>3, <2>4, <2>6, <2>7 DEF BrokerInv
<1>10. CASE UNCHANGED mqttVars
  BY <1>2, <1>10 DEF mqttVars
<1>11. QED
  BY <1>1, <1>3, <1>4, <1>5, <1>6, <1>7, <1>8, <1>9, <1>10 DEF Publisher!Next

-----------------------------------------------------------------------------
(***************************************************************************)
(* The collector.  As long as nothing was missed (behind), at most one     *)
(* connection is at work on the row, a page that is loading reads the row  *)
(* as it is, and a page at rest shows it.                                  *)
(***************************************************************************)
(* Types: a handler, a load of the page, the page, and a row that was      *)
(* written.                                                                *)
Handlers == {Radar!Idle, [at |-> "written"]} \cup [at : {"selected"}, row : Radar!Rows]
Loads == {Radar!Idle} \cup [at : {"read"}, row : Radar!Rows]
Views == [live : BOOLEAN, shown : Radar!Rows, load : Loads]

NoName == ""
RowNames == {"", "known"}
Sensed == {"known", "NULL", "null"}
Written == [is : {"row"}, name : RowNames, tele : Sensed, count : Nat]

RadarTypes ==
  /\ row \in Radar!Rows /\ twin \in Radar!Rows
  /\ conn \in [RadarLinks -> Handlers]
  /\ tab \in Views

(* What connects the page with the row while nothing was missed.           *)
ViewFollows ==
  ~behind =>
     /\ \A a \in Radar!Busy, b \in Radar!Busy : a = b
     /\ tab.load # Radar!Idle => Radar!Busy = {} /\ tab.load.row = row
     /\ \A c \in Radar!Busy : tab.live /\ (conn[c].at = "selected" => conn[c].row = row)
     /\ Radar!Busy = {} /\ tab.load = Radar!Idle => tab.shown = row

(* The inductive invariant.                                                *)
RadarInv == RadarTypes /\ Radar!NameKept /\ Radar!TelemetryShown /\ ViewFollows

(* What each write makes of a row: it stays a row and loses neither a name *)
(* nor telemetry.                                                          *)
LEMMA RowsWritten ==
  /\ Radar!Rows = {Radar!NoRow} \cup Written /\ NoName \in RowNames /\ "known" \in RowNames
  /\ "known" # NoName /\ \A n \in RowNames : n = NoName \/ n = "known"
<1>1. {"known"} \cup Radar!Missing = Sensed
  BY Zenon DEF Radar!Missing, Sensed
<1>2. Radar!Rows = {Radar!NoRow} \cup [is : {"row"}, name : {"", "known"}, tele : {"known"} \cup Radar!Missing, count : Nat]
  BY Zenon DEF Radar!Rows
<1>3. Radar!Rows = {Radar!NoRow} \cup Written
  BY <1>1, <1>2, Zenon DEF Written, RowNames
<1>4. QED
  BY <1>3, Zenon DEF NoName, RowNames

LEMMA RowShape ==
  ASSUME NEW r \in Radar!Rows, r # Radar!NoRow
  PROVE  /\ r \in Written /\ r.name \in RowNames /\ r.tele \in Sensed /\ r.count \in Nat
<1>1. r \in Written
  BY RowsWritten
<1>2. QED
  BY <1>1 DEF Written

LEMMA WrittenIsRow ==
  ASSUME NEW r \in Written
  PROVE  r \in Radar!Rows /\ r # Radar!NoRow
<1>1. r.is = "row"
  BY DEF Written
<1>2. Radar!NoRow.is = "none"
  BY DEF Radar!NoRow
<1>3. QED
  BY <1>1, <1>2, RowsWritten

LEMMA RowMade ==
  ASSUME NEW n \in RowNames, NEW t \in Sensed, NEW k \in Nat
  PROVE  /\ Radar!RowOf(n, t, k) \in Radar!Rows /\ Radar!RowOf(n, t, k) # Radar!NoRow
         /\ Radar!RowOf(n, t, k).name = n /\ Radar!RowOf(n, t, k).tele = t
<1>1. Radar!RowOf(n, t, k) \in Written
  BY DEF Radar!RowOf, Written
<1>2. Radar!RowOf(n, t, k).name = n /\ Radar!RowOf(n, t, k).tele = t
  BY DEF Radar!RowOf
<1>3. QED
  BY <1>1, <1>2, WrittenIsRow

LEMMA NoRowIsRow == Radar!NoRow \in Radar!Rows
BY RowsWritten

LEMMA BackfillRow ==
  ASSUME NEW r \in Radar!Rows, NEW packet
  PROVE  LET q == Radar!Backfill(r, packet) IN
         /\ q \in Radar!Rows
         /\ q = Radar!NoRow <=> r = Radar!NoRow
         /\ r # Radar!NoRow => q.name = r.name
         /\ (r # Radar!NoRow /\ packet) => q.tele = "known"
<1> DEFINE q == Radar!Backfill(r, packet)
<1>1. CASE r # Radar!NoRow /\ r.tele \in Radar!Missing /\ packet
  <2>1. q = [r EXCEPT !.tele = "known"]
    BY <1>1, Zenon DEF Radar!Backfill
  <2>2. r \in Written
    BY <1>1, RowShape
  <2>3. q \in Written /\ q.name = r.name /\ q.tele = "known"
    BY <2>1, <2>2 DEF Written, Sensed
  <2>4. QED
    BY <1>1, <2>3, WrittenIsRow
<1>2. CASE ~ (r # Radar!NoRow /\ r.tele \in Radar!Missing /\ packet)
  <2>1. q = r
    BY <1>2, Zenon DEF Radar!Backfill
  <2>2. (r # Radar!NoRow /\ packet) => r.tele = "known"
    BY <1>2, RowShape, Zenon DEF Radar!Missing, Sensed
  <2>3. QED
    BY <2>1, <2>2
<1>3. QED
  BY <1>1, <1>2

LEMMA Coalescing ==
  /\ \A a \in RowNames, b \in RowNames :
        /\ Radar!Coalesce(a, b, {""}) \in RowNames
        /\ (a # NoName \/ b # NoName) => Radar!Coalesce(a, b, {""}) # NoName
        /\ Radar!Pick(a, b, {""}) \in RowNames
        /\ (a # NoName \/ b # NoName) => Radar!Pick(a, b, {""}) # NoName
  /\ \A a \in {"known", "NULL"}, b \in Sensed :
        /\ Radar!Coalesce(a, b, {"NULL"}) \in Sensed
        /\ (a = "known" \/ b = "known") => Radar!Coalesce(a, b, {"NULL"}) = "known"
  /\ \A a \in Sensed, b \in Sensed : Radar!Pick(a, b, {"NULL"}) \in Sensed
BY Zenon DEF Radar!Coalesce, Radar!Pick, NoName, RowNames, Sensed

LEMMA TouchRow ==
  ASSUME NEW r \in Radar!Rows, NEW kind
  PROVE  /\ Radar!TouchNode(kind, r) \in Radar!Rows /\ Radar!TouchNode(kind, r) # Radar!NoRow
         /\ (kind = "nodeinfo" \/ (r # Radar!NoRow /\ r.name # NoName)) =>
               Radar!TouchNode(kind, r).name # NoName
         /\ (kind = "telemetry" \/ (r # Radar!NoRow /\ r.tele = "known")) =>
               Radar!TouchNode(kind, r).tele = "known"
<1> DEFINE name == IF kind = "nodeinfo" THEN "known" ELSE ""
           tele == IF kind = "telemetry" THEN "known" ELSE "NULL"
           q == Radar!TouchNode(kind, r)
<1>0. 1 \in Nat
  OBVIOUS
<1>1. /\ name \in RowNames /\ (kind = "nodeinfo" => name # NoName)
      /\ tele \in {"known", "NULL"} /\ (kind = "telemetry" => tele = "known")
  BY Zenon DEF RowNames, NoName
<1>2. CASE r = Radar!NoRow
  <2>1. q = Radar!RowOf(name, tele, 1)
    BY <1>2, Zenon DEF Radar!TouchNode
  <2> HIDE DEF q, name, tele
  <2>2. tele \in Sensed
    BY <1>1 DEF Sensed
  <2>3. q \in Radar!Rows /\ q # Radar!NoRow /\ q.name = name /\ q.tele = tele
    BY <1>0, <1>1, <2>1, <2>2, RowMade
  <2>4. QED
    BY <1>1, <1>2, <2>3 DEF q
<1>3. CASE r # Radar!NoRow
  <2> DEFINE n == Radar!Coalesce(name, r.name, {""})
             t == Radar!Coalesce(tele, r.tele, {"NULL"})
             k == r.count + 1
  <2>1. q = Radar!RowOf(n, t, k)
    BY <1>3, Zenon DEF Radar!TouchNode
  <2>2. /\ r.name \in RowNames /\ r.tele \in Sensed /\ r.count \in Nat
    BY <1>3, RowShape
  <2>3. k \in Nat
    BY <2>2
  <2> HIDE DEF name, tele
  <2>4. /\ n \in RowNames /\ t \in Sensed
        /\ (kind = "nodeinfo" \/ r.name # NoName) => n # NoName
        /\ (kind = "telemetry" \/ r.tele = "known") => t = "known"
    BY <1>1, <2>2, Coalescing, Zenon
  <2> HIDE DEF q, n, t, k
  <2>5. q \in Radar!Rows /\ q # Radar!NoRow /\ q.name = n /\ q.tele = t
    BY <2>1, <2>3, <2>4, RowMade
  <2>6. QED
    BY <1>3, <2>4, <2>5 DEF q
<1>4. QED
  BY <1>2, <1>3

LEMMA UpsertRow ==
  ASSUME NEW r \in Radar!Rows, NEW entry \in Radar!Entries
  PROVE  /\ Radar!UpsertNode(entry, r) \in Radar!Rows /\ Radar!UpsertNode(entry, r) # Radar!NoRow
         /\ (entry.name # NoName \/ (r # Radar!NoRow /\ r.name # NoName)) =>
               Radar!UpsertNode(entry, r).name # NoName
         /\ (r # Radar!NoRow /\ r.tele = "known") => Radar!UpsertNode(entry, r).tele = "known"
<1> DEFINE tele == Radar!BoundTelemetry(entry)
           q == Radar!UpsertNode(entry, r)
<1>a. Radar!Entries = [name : RowNames, tele : BOOLEAN, count : {1}]
  BY Zenon DEF Radar!Entries, RowNames
<1>b. entry.name \in RowNames /\ entry.count \in {1}
  BY <1>a
<1>c. entry.count \in Nat
  BY <1>b
<1>d. tele \in {"known", "NULL"} /\ tele \in Sensed
  BY Zenon DEF Radar!BoundTelemetry, Sensed
<1>1. CASE r = Radar!NoRow
  <2>1. q = Radar!RowOf(entry.name, tele, entry.count)
    BY <1>1, Zenon DEF Radar!UpsertNode
  <2> HIDE DEF q, tele
  <2>2. q \in Radar!Rows /\ q # Radar!NoRow /\ q.name = entry.name /\ q.tele = tele
    BY <1>b, <1>c, <1>d, <2>1, RowMade
  <2>3. QED
    BY <1>1, <2>2 DEF q
<1>2. CASE r # Radar!NoRow
  <2> DEFINE n == Radar!Coalesce(entry.name, r.name, {""})
             t == Radar!Coalesce(tele, r.tele, {"NULL"})
  <2>1. q = Radar!RowOf(n, t, entry.count)
    BY <1>2, Zenon DEF Radar!UpsertNode
  <2>2. /\ r.name \in RowNames /\ r.tele \in Sensed
    BY <1>2, RowShape
  <2> HIDE DEF tele
  <2>3. /\ n \in RowNames /\ t \in Sensed
        /\ (entry.name # NoName \/ r.name # NoName) => n # NoName
        /\ r.tele = "known" => t = "known"
    BY <1>b, <1>d, <2>2, Coalescing, Zenon
  <2> HIDE DEF q, n, t
  <2>4. q \in Radar!Rows /\ q # Radar!NoRow /\ q.name = n /\ q.tele = t
    BY <1>c, <2>1, <2>3, RowMade
  <2>5. QED
    BY <1>2, <2>3, <2>4 DEF q
<1>3. QED
  BY <1>1, <1>2

(* What a step of one connection leaves of the others.                     *)
LEMMA BusySet ==
  ASSUME NEW c
  PROVE  c \in Radar!Busy <=> c \in RadarLinks /\ conn[c] # Radar!Idle
BY DEF Radar!Busy

LEMMA BusyNext ==
  ASSUME NEW c \in RadarLinks, NEW h \in Handlers, conn \in [RadarLinks -> Handlers],
         conn' = [conn EXCEPT ![c] = h]
  PROVE  /\ conn' \in [RadarLinks -> Handlers] /\ conn'[c] = h
         /\ \A d \in RadarLinks : d # c => conn'[d] = conn[d]
         /\ h # Radar!Idle => Radar!Busy' = Radar!Busy \cup {c}
         /\ h = Radar!Idle => Radar!Busy' = Radar!Busy \ {c}
<1>1. conn' \in [RadarLinks -> Handlers] /\ conn'[c] = h
      /\ \A d \in RadarLinks : d # c => conn'[d] = conn[d]
  OBVIOUS
<1>2. Radar!Busy' = {d \in RadarLinks : conn'[d] # Radar!Idle}
  BY DEF Radar!Busy, Radar!Idle
<1>3. QED
  BY <1>1, <1>2 DEF Radar!Busy

LEMMA HandlerShape ==
  /\ Radar!Idle \in Handlers /\ [at |-> "written"] \in Handlers
  /\ [at |-> "written"] # Radar!Idle /\ [at |-> "written"].at # "selected" /\ Radar!Idle.at = "idle"
  /\ \A r \in Radar!Rows : /\ [at |-> "selected", row |-> r] \in Handlers
                           /\ [at |-> "selected", row |-> r] # Radar!Idle
                           /\ [at |-> "selected", row |-> r].row = r
                           /\ [at |-> "selected", row |-> r].at = "selected"
                           /\ [at |-> "read", row |-> r] \in Loads
                           /\ [at |-> "read", row |-> r] # Radar!Idle
                           /\ [at |-> "read", row |-> r].row = r
  /\ Radar!Idle \in Loads
  /\ \A h \in Handlers : h.at = "selected" => h # Radar!Idle /\ h.row \in Radar!Rows
  /\ \A h \in Loads : h # Radar!Idle => h.row \in Radar!Rows
<1>1. Radar!Idle.at = "idle" /\ [at |-> "written"].at = "written"
  BY DEF Radar!Idle
<1>2. [at |-> "written"] # Radar!Idle
  BY <1>1
<1>3. Radar!Idle \in Handlers /\ [at |-> "written"] \in Handlers /\ Radar!Idle \in Loads
  BY DEF Handlers, Loads
<1>4. ASSUME NEW r \in Radar!Rows
      PROVE  /\ [at |-> "selected", row |-> r] \in Handlers
             /\ [at |-> "selected", row |-> r] # Radar!Idle
             /\ [at |-> "selected", row |-> r].row = r
             /\ [at |-> "selected", row |-> r].at = "selected"
             /\ [at |-> "read", row |-> r] \in Loads
             /\ [at |-> "read", row |-> r] # Radar!Idle
             /\ [at |-> "read", row |-> r].row = r
  <2>1. [at |-> "selected", row |-> r].at = "selected" /\ [at |-> "read", row |-> r].at = "read"
        /\ [at |-> "selected", row |-> r].row = r /\ [at |-> "read", row |-> r].row = r
    OBVIOUS
  <2>2. [at |-> "selected", row |-> r] \in [at : {"selected"}, row : Radar!Rows]
        /\ [at |-> "read", row |-> r] \in [at : {"read"}, row : Radar!Rows]
    OBVIOUS
  <2>3. QED
    BY <1>1, <2>1, <2>2 DEF Handlers, Loads
<1>5. \A h \in Handlers : h.at = "selected" => h # Radar!Idle /\ h.row \in Radar!Rows
  <2>1. ASSUME NEW h \in Handlers, h.at = "selected" PROVE h # Radar!Idle /\ h.row \in Radar!Rows
    <3>1. h # Radar!Idle /\ h # [at |-> "written"]
      BY <1>1, <2>1
    <3>2. h \in [at : {"selected"}, row : Radar!Rows]
      BY <2>1, <3>1 DEF Handlers
    <3>3. QED
      BY <3>1, <3>2
  <2>2. QED
    BY <2>1
<1>6. \A h \in Loads : h # Radar!Idle => h.row \in Radar!Rows
  BY DEF Loads
<1>7. QED
  BY <1>1, <1>2, <1>3, <1>4, <1>5, <1>6

LEMMA ViewShape ==
  ASSUME NEW t \in Views
  PROVE  /\ t.live \in BOOLEAN /\ t.shown \in Radar!Rows /\ t.load \in Loads
         /\ \A b \in BOOLEAN : LET u == [t EXCEPT !.live = b]
                               IN  u \in Views /\ u.live = b /\ u.shown = t.shown /\ u.load = t.load
         /\ \A r \in Radar!Rows : LET u == [t EXCEPT !.shown = r]
                               IN  u \in Views /\ u.live = t.live /\ u.shown = r /\ u.load = t.load
         /\ \A l \in Loads : LET u == [t EXCEPT !.load = l]
                               IN  u \in Views /\ u.live = t.live /\ u.shown = t.shown /\ u.load = l
         /\ \A b \in BOOLEAN, l \in Loads : LET u == [t EXCEPT !.live = b, !.load = l]
                               IN  u \in Views /\ u.live = b /\ u.shown = t.shown /\ u.load = l
         /\ \A l \in Loads, r \in Radar!Rows : LET u == [t EXCEPT !.load = l, !.shown = r]
                               IN  u \in Views /\ u.live = t.live /\ u.shown = r /\ u.load = l
BY Zenon DEF Views

LEMMA NameMeans ==
  ASSUME Radar!NameKept
  PROVE  named => (row # Radar!NoRow /\ row.name # NoName) \/ (twin # Radar!NoRow /\ twin.name # NoName)
<1> SUFFICES ASSUME named
             PROVE  (row # Radar!NoRow /\ row.name # NoName) \/ (twin # Radar!NoRow /\ twin.name # NoName)
  OBVIOUS
<1>1. PICK r \in {row, twin} : r # Radar!NoRow /\ r.name # NoName
  BY Zenon DEF Radar!NameKept, NoName
<1>2. r = row \/ r = twin
  BY <1>1
<1>3. QED
  BY <1>1, <1>2

LEMMA WriteStep ==
  ASSUME RadarInv, NEW c \in RadarLinks, NEW r \in Radar!Rows, Radar!Write(c, r)
  PROVE  RadarTypes' /\ ViewFollows'
<1>1. /\ conn[c] = Radar!Idle /\ row' = r /\ conn' = [conn EXCEPT ![c] = [at |-> "written"]]
      /\ behind' = (behind \/ Radar!Unseen(c)) /\ UNCHANGED << twin, tab >>
  BY DEF Radar!Write
<1>2. RadarTypes /\ ViewFollows
  BY DEF RadarInv
<1>3. /\ conn' \in [RadarLinks -> Handlers] /\ conn'[c] = [at |-> "written"]
      /\ Radar!Busy' = Radar!Busy \cup {c}
  BY <1>1, <1>2, BusyNext, HandlerShape, Zenon DEF RadarTypes
<1>4. RadarTypes'
  BY <1>1, <1>2, <1>3 DEF RadarTypes
<1>5. ASSUME ~behind'
      PROVE  /\ \A a \in Radar!Busy', b \in Radar!Busy' : a = b
             /\ tab'.load # Radar!Idle => Radar!Busy' = {} /\ tab'.load.row = row'
             /\ \A d \in Radar!Busy' : tab'.live /\ (conn'[d].at = "selected" => conn'[d].row = row')
             /\ Radar!Busy' = {} /\ tab'.load = Radar!Idle => tab'.shown = row'
  <2>1. ~Radar!Unseen(c)
    BY <1>1, <1>5
  <2>2. tab.live /\ Radar!Busy \ {c} = {} /\ tab.load = Radar!Idle
    BY <2>1, Zenon DEF Radar!Unseen
  <2>3. Radar!Busy' = {c}
    BY <1>3, <2>2
  <2>4. conn'[c].at # "selected"
    BY <1>3, HandlerShape
  <2>5. tab' = tab
    BY <1>1
  <2>6. QED
    BY <2>2, <2>3, <2>4, <2>5, Zenon
<1>6. ViewFollows'
  BY <1>5, Zenon DEF ViewFollows
<1>7. QED
  BY <1>4, <1>6

LEMMA PacketStep ==
  ASSUME RadarInv, NEW c \in RadarLinks, NEW kind, Radar!HandlePacket(c, kind)
  PROVE  RadarInv'
<1> DEFINE r == Radar!TouchNode(kind, row)
<1>0. row \in Radar!Rows /\ twin \in Radar!Rows
  BY DEF RadarInv, RadarTypes
<1>1. Radar!Write(c, r) /\ (stored' <=> stored \/ kind = "telemetry") /\ (named' <=> named \/ kind = "nodeinfo")
  BY DEF Radar!HandlePacket
<1>2. /\ r \in Radar!Rows /\ r # Radar!NoRow
      /\ (kind = "nodeinfo" \/ (row # Radar!NoRow /\ row.name # NoName)) => r.name # NoName
      /\ (kind = "telemetry" \/ (row # Radar!NoRow /\ row.tele = "known")) => r.tele = "known"
  BY <1>0, TouchRow
<1> HIDE DEF r
<1>3. RadarTypes' /\ ViewFollows'
  BY <1>1, <1>2, WriteStep
<1>4. row' = r /\ twin' = twin /\ (merged' <=> merged \/ (row = Radar!NoRow /\ stored))
  BY <1>1 DEF Radar!Write
<1>5. /\ named => (row # Radar!NoRow /\ row.name # NoName) \/ (twin # Radar!NoRow /\ twin.name # NoName)
      /\ (stored /\ row # Radar!NoRow /\ ~merged) => row.tele = "known"
  BY NameMeans DEF RadarInv, Radar!TelemetryShown
<1>6. named' => (row' # Radar!NoRow /\ row'.name # NoName) \/ (twin' # Radar!NoRow /\ twin'.name # NoName)
  BY <1>1, <1>2, <1>4, <1>5
<1>7. (stored' /\ row' # Radar!NoRow /\ ~merged') => row'.tele = "known"
  BY <1>1, <1>2, <1>4, <1>5
<1>8. Radar!NameKept' /\ Radar!TelemetryShown'
  BY <1>6, <1>7, Zenon DEF Radar!NameKept, Radar!TelemetryShown, NoName, Radar!NoRow
<1>9. QED
  BY <1>3, <1>8 DEF RadarInv

LEMMA HeartbeatStep ==
  ASSUME RadarInv, NEW c \in RadarLinks, NEW entry \in Radar!Entries, Radar!HandleHeartbeat(c, entry)
  PROVE  RadarInv'
<1> DEFINE r == Radar!UpsertNode(entry, row)
<1>0. row \in Radar!Rows /\ twin \in Radar!Rows
  BY DEF RadarInv, RadarTypes
<1>1. Radar!Write(c, r) /\ stored' = stored /\ (named' <=> named \/ entry.name # NoName)
  BY Zenon DEF Radar!HandleHeartbeat, NoName
<1>2. /\ r \in Radar!Rows /\ r # Radar!NoRow
      /\ (entry.name # NoName \/ (row # Radar!NoRow /\ row.name # NoName)) => r.name # NoName
      /\ (row # Radar!NoRow /\ row.tele = "known") => r.tele = "known"
  BY <1>0, UpsertRow
<1> HIDE DEF r
<1>3. RadarTypes' /\ ViewFollows'
  BY <1>1, <1>2, WriteStep
<1>4. row' = r /\ twin' = twin /\ (merged' <=> merged \/ (row = Radar!NoRow /\ stored))
  BY <1>1 DEF Radar!Write
<1>5. /\ named => (row # Radar!NoRow /\ row.name # NoName) \/ (twin # Radar!NoRow /\ twin.name # NoName)
      /\ (stored /\ row # Radar!NoRow /\ ~merged) => row.tele = "known"
  BY NameMeans DEF RadarInv, Radar!TelemetryShown
<1>6. named' => (row' # Radar!NoRow /\ row'.name # NoName) \/ (twin' # Radar!NoRow /\ twin'.name # NoName)
  BY <1>1, <1>2, <1>4, <1>5
<1>7. (stored' /\ row' # Radar!NoRow /\ ~merged') => row'.tele = "known"
  BY <1>1, <1>2, <1>4, <1>5
<1>8. Radar!NameKept' /\ Radar!TelemetryShown'
  BY <1>6, <1>7, Zenon DEF Radar!NameKept, Radar!TelemetryShown, NoName, Radar!NoRow
<1>9. QED
  BY <1>3, <1>8 DEF RadarInv

LEMMA RowsStay ==
  ASSUME RadarInv, UNCHANGED << row, twin, stored, named, merged >>
  PROVE  Radar!NameKept' /\ Radar!TelemetryShown' /\ row' \in Radar!Rows /\ twin' \in Radar!Rows
<1>1. Radar!NameKept /\ Radar!TelemetryShown /\ row' \in Radar!Rows /\ twin' \in Radar!Rows
  BY DEF RadarInv, RadarTypes
<1>2. QED
  BY <1>1, Zenon DEF Radar!NameKept, Radar!TelemetryShown, Radar!NoRow

LEMMA ReselectStep ==
  ASSUME RadarInv, NEW c \in RadarLinks, Radar!Reselect(c)
  PROVE  RadarInv'
<1>1. /\ conn[c] = [at |-> "written"] /\ conn' = [conn EXCEPT ![c] = [at |-> "selected", row |-> row]]
      /\ UNCHANGED << row, twin, stored, tab, named, behind, merged >>
  BY DEF Radar!Reselect
<1>2. RadarTypes /\ ViewFollows
  BY DEF RadarInv
<1>3. Radar!NameKept' /\ Radar!TelemetryShown' /\ row' \in Radar!Rows /\ twin' \in Radar!Rows
  BY <1>1, RowsStay
<1> DEFINE h == [at |-> "selected", row |-> row]
<1>4. h \in Handlers /\ h # Radar!Idle /\ h.row = row
  BY <1>2, HandlerShape DEF RadarTypes
<1>5. c \in Radar!Busy
  BY <1>1, HandlerShape, BusySet
<1> HIDE DEF h
<1>6. /\ conn' \in [RadarLinks -> Handlers] /\ conn'[c] = h
      /\ \A d \in RadarLinks : d # c => conn'[d] = conn[d]
      /\ Radar!Busy' = Radar!Busy
  <2>1. conn' = [conn EXCEPT ![c] = h]
    BY <1>1 DEF h
  <2>2. conn \in [RadarLinks -> Handlers]
    BY <1>2 DEF RadarTypes
  <2>3. /\ conn' \in [RadarLinks -> Handlers] /\ conn'[c] = h
        /\ \A d \in RadarLinks : d # c => conn'[d] = conn[d]
        /\ Radar!Busy' = Radar!Busy \cup {c}
    BY <1>4, <2>1, <2>2, BusyNext
  <2>4. QED
    BY <1>5, <2>3
<1>7. ASSUME ~behind'
      PROVE  /\ \A a \in Radar!Busy', b \in Radar!Busy' : a = b
             /\ tab'.load # Radar!Idle => Radar!Busy' = {} /\ tab'.load.row = row'
             /\ \A d \in Radar!Busy' : tab'.live /\ (conn'[d].at = "selected" => conn'[d].row = row')
             /\ Radar!Busy' = {} /\ tab'.load = Radar!Idle => tab'.shown = row'
  <2>1. tab' = tab /\ row' = row /\ ~behind
    BY <1>1, <1>7
  <2>2. /\ \A a \in Radar!Busy, b \in Radar!Busy : a = b
        /\ tab.load # Radar!Idle => Radar!Busy = {} /\ tab.load.row = row
        /\ \A d \in Radar!Busy : tab.live
        /\ Radar!Busy = {} /\ tab.load = Radar!Idle => tab.shown = row
    BY <1>2, <2>1, Zenon DEF ViewFollows
  <2>3. ASSUME NEW d \in Radar!Busy PROVE conn'[d].row = row
    <3>1. d = c
      BY <1>5, <2>2, <2>3
    <3>2. QED
      BY <1>4, <1>6, <3>1
  <2>4. QED
    BY <1>6, <2>1, <2>2, <2>3, Zenon
<1>8. ViewFollows'
  BY <1>7, Zenon DEF ViewFollows
<1>9. RadarTypes'
  BY <1>1, <1>2, <1>3, <1>6 DEF RadarTypes
<1>10. QED
  BY <1>3, <1>8, <1>9 DEF RadarInv

LEMMA BroadcastStep ==
  ASSUME RadarInv, NEW c \in RadarLinks, Radar!BroadcastUpdate(c)
  PROVE  RadarInv'
<1>1. /\ conn[c].at = "selected" /\ conn' = [conn EXCEPT ![c] = Radar!Idle]
      /\ tab' = IF tab.live THEN [tab EXCEPT !.shown = conn[c].row] ELSE tab
      /\ UNCHANGED << row, twin, stored, named, behind, merged >>
  BY DEF Radar!BroadcastUpdate
<1>2. RadarTypes /\ ViewFollows
  BY DEF RadarInv
<1>3. Radar!NameKept' /\ Radar!TelemetryShown' /\ row' \in Radar!Rows /\ twin' \in Radar!Rows
  BY <1>1, RowsStay
<1>4. conn \in [RadarLinks -> Handlers] /\ conn[c] \in Handlers /\ tab \in Views
  BY <1>2 DEF RadarTypes
<1>5. conn[c] # Radar!Idle /\ conn[c].row \in Radar!Rows /\ c \in Radar!Busy
  BY <1>1, <1>4, HandlerShape, BusySet
<1>6. /\ conn' \in [RadarLinks -> Handlers]
      /\ Radar!Busy' = Radar!Busy \ {c}
  BY <1>1, <1>4, HandlerShape, BusyNext
<1>7. /\ tab' \in Views /\ tab'.load = tab.load
      /\ tab.live => tab'.shown = conn[c].row
  <2> DEFINE r == conn[c].row
  <2>1. r \in Radar!Rows /\ tab' = IF tab.live THEN [tab EXCEPT !.shown = r] ELSE tab
    BY <1>1, <1>5
  <2> HIDE DEF r
  <2>2. tab' \in Views /\ tab'.load = tab.load /\ (tab.live => tab'.shown = r)
    BY <1>4, <2>1 DEF Views
  <2>3. QED
    BY <2>2 DEF r
<1>8. ASSUME ~behind'
      PROVE  /\ \A a \in Radar!Busy', b \in Radar!Busy' : a = b
             /\ tab'.load # Radar!Idle => Radar!Busy' = {} /\ tab'.load.row = row'
             /\ \A d \in Radar!Busy' : tab'.live /\ (conn'[d].at = "selected" => conn'[d].row = row')
             /\ Radar!Busy' = {} /\ tab'.load = Radar!Idle => tab'.shown = row'
  <2>1. row' = row /\ ~behind
    BY <1>1, <1>8
  <2>2. /\ \A a \in Radar!Busy, b \in Radar!Busy : a = b
        /\ tab.load # Radar!Idle => Radar!Busy = {}
        /\ tab.live /\ conn[c].row = row
    BY <1>1, <1>2, <1>5, <2>1, Zenon DEF ViewFollows
  <2>3. Radar!Busy' = {}
    BY <1>5, <1>6, <2>2
  <2>4. tab'.load = Radar!Idle /\ tab'.shown = row'
    BY <1>5, <1>7, <2>1, <2>2
  <2>5. QED
    BY <2>3, <2>4, Zenon
<1>9. ViewFollows'
  BY <1>8, Zenon DEF ViewFollows
<1>10. RadarTypes'
  BY <1>3, <1>6, <1>7 DEF RadarTypes
<1>11. QED
  BY <1>3, <1>9, <1>10 DEF RadarInv

LEMMA TabStep ==
  ASSUME RadarInv,
         Radar!Subscribe \/ Radar!TabLeaves \/ Radar!LoadRead \/ Radar!LoadShown
  PROVE  RadarInv'
<1>1. UNCHANGED << row, twin, stored, named, merged, conn >>
  BY DEF Radar!Subscribe, Radar!TabLeaves, Radar!LoadRead, Radar!LoadShown
<1>2. RadarTypes /\ ViewFollows /\ tab \in Views /\ row \in Radar!Rows
  BY DEF RadarInv, RadarTypes
<1>3. Radar!NameKept' /\ Radar!TelemetryShown' /\ row' \in Radar!Rows /\ twin' \in Radar!Rows
  BY <1>1, RowsStay
<1>4. Radar!Busy' = Radar!Busy
  BY <1>1 DEF Radar!Busy, Radar!Idle
<1> DEFINE Goal == /\ tab' \in Views
                   /\ ~behind' =>
                      /\ \A a \in Radar!Busy, b \in Radar!Busy : a = b
                      /\ tab'.load # Radar!Idle => Radar!Busy = {} /\ tab'.load.row = row
                      /\ \A d \in Radar!Busy : tab'.live /\ (conn[d].at = "selected" => conn[d].row = row)
                      /\ Radar!Busy = {} /\ tab'.load = Radar!Idle => tab'.shown = row
<1>5. ASSUME Radar!Subscribe \/ Radar!TabLeaves PROVE Goal
  <2>1. \E b \in BOOLEAN : tab' = [tab EXCEPT !.live = b]
    BY <1>5 DEF Radar!Subscribe, Radar!TabLeaves
  <2>2. behind' <=> behind \/ Radar!Busy # {}
    BY <1>5 DEF Radar!Subscribe, Radar!TabLeaves
  <2>3. tab' \in Views /\ tab'.shown = tab.shown /\ tab'.load = tab.load
    BY <1>2, <2>1 DEF Views
  <2>4. QED
    BY <1>2, <2>2, <2>3, Zenon DEF ViewFollows
<1>6. ASSUME Radar!LoadRead PROVE Goal
  <2> DEFINE l == [at |-> "read", row |-> row]
  <2>1. tab' = [tab EXCEPT !.load = l] /\ (behind' <=> Radar!Busy # {})
    BY <1>6 DEF Radar!LoadRead
  <2>2. l \in Loads /\ l # Radar!Idle /\ l.row = row
    BY <1>2, HandlerShape
  <2> HIDE DEF l
  <2>3. tab' \in Views /\ tab'.load = l
    BY <1>2, <2>1, <2>2 DEF Views
  <2>4. QED
    BY <2>1, <2>2, <2>3, Zenon
<1>7. ASSUME Radar!LoadShown PROVE Goal
  <2>1. tab.load # Radar!Idle /\ tab' = [tab EXCEPT !.load = Radar!Idle, !.shown = tab.load.row] /\ behind' = behind
    BY <1>7 DEF Radar!LoadShown
  <2>2. tab.load \in Loads
    BY <1>2, ViewShape, Zenon
  <2>3. tab.load.row \in Radar!Rows /\ Radar!Idle \in Loads
    BY <2>1, <2>2, HandlerShape
  <2>4. tab' \in Views /\ tab'.load = Radar!Idle /\ tab'.shown = tab.load.row
    <3> DEFINE r == tab.load.row
               l == Radar!Idle
    <3>1. r \in Radar!Rows /\ l \in Loads /\ tab' = [tab EXCEPT !.load = l, !.shown = r]
      BY <2>1, <2>3
    <3> HIDE DEF r, l
    <3>2. tab' \in Views /\ tab'.load = l /\ tab'.shown = r
      BY <1>2, <3>1 DEF Views
    <3>3. QED
      BY <3>2 DEF r, l
  <2>5. QED
    BY <1>2, <2>1, <2>4, Zenon DEF ViewFollows
<1>8. Goal
  BY <1>5, <1>6, <1>7
<1>9. ViewFollows'
  BY <1>1, <1>4, <1>8, Zenon DEF ViewFollows
<1>10. RadarTypes'
  BY <1>1, <1>2, <1>3, <1>8 DEF RadarTypes
<1>11. QED
  BY <1>3, <1>9, <1>10 DEF RadarInv

LEMMA CollectorRestartStep ==
  ASSUME RadarInv, Radar!Restart
  PROVE  RadarInv'
<1>1. /\ row' = Radar!Backfill(row, stored) /\ twin' = Radar!Backfill(twin, stored)
      /\ conn' = [c \in RadarLinks |-> Radar!Idle]
      /\ tab' = [tab EXCEPT !.live = FALSE, !.load = Radar!Idle]
      /\ behind' /\ stored' = stored /\ named' = named
  BY DEF Radar!Restart
<1>2. row \in Radar!Rows /\ twin \in Radar!Rows /\ tab \in Views
  BY DEF RadarInv, RadarTypes
<1>3. /\ row' \in Radar!Rows /\ (row' = Radar!NoRow <=> row = Radar!NoRow)
      /\ (row # Radar!NoRow => row'.name = row.name) /\ ((row # Radar!NoRow /\ stored) => row'.tele = "known")
  BY <1>1, <1>2, BackfillRow
<1>4. /\ twin' \in Radar!Rows /\ (twin' = Radar!NoRow <=> twin = Radar!NoRow)
      /\ (twin # Radar!NoRow => twin'.name = twin.name)
  BY <1>1, <1>2, BackfillRow
<1>5. tab' \in Views /\ conn' \in [RadarLinks -> Handlers]
  BY <1>1, <1>2, ViewShape, HandlerShape, Zenon
<1>6. named => (row # Radar!NoRow /\ row.name # NoName) \/ (twin # Radar!NoRow /\ twin.name # NoName)
  BY NameMeans DEF RadarInv
<1>7. named' => (row' # Radar!NoRow /\ row'.name # NoName) \/ (twin' # Radar!NoRow /\ twin'.name # NoName)
  BY <1>1, <1>3, <1>4, <1>6
<1>8. Radar!NameKept'
  BY <1>7, Zenon DEF Radar!NameKept, NoName, Radar!NoRow
<1>9. Radar!TelemetryShown'
  BY <1>1, <1>3, Zenon DEF Radar!TelemetryShown, Radar!NoRow
<1>10. ViewFollows'
  BY <1>1, Zenon DEF ViewFollows
<1>11. QED
  BY <1>3, <1>4, <1>5, <1>8, <1>9, <1>10 DEF RadarInv, RadarTypes

LEMMA MergeStep ==
  ASSUME RadarInv, Radar!MergeDuplicates
  PROVE  RadarInv'
<1> DEFINE n == Radar!Pick(twin.name, row.name, {""})
           t == Radar!Pick(twin.tele, row.tele, {"NULL"})
           k == twin.count + row.count
<1>1. /\ twin # Radar!NoRow /\ twin' = Radar!NoRow /\ behind' /\ merged'
      /\ row' = IF row = Radar!NoRow THEN twin ELSE Radar!RowOf(n, t, k)
      /\ UNCHANGED << stored, conn, tab, named >>
  BY Zenon DEF Radar!MergeDuplicates
<1>2. row \in Radar!Rows /\ twin \in Radar!Rows /\ RadarTypes
  BY DEF RadarInv, RadarTypes
<1>3. named => (row # Radar!NoRow /\ row.name # NoName) \/ (twin # Radar!NoRow /\ twin.name # NoName)
  BY NameMeans DEF RadarInv
<1>4. row' \in Radar!Rows /\ (named => row' # Radar!NoRow /\ row'.name # NoName)
  <2>1. CASE row = Radar!NoRow
    BY <1>1, <1>2, <1>3, <2>1
  <2>2. CASE row # Radar!NoRow
    <3>1. /\ twin.name \in RowNames /\ twin.tele \in Sensed /\ twin.count \in Nat
          /\ row.name \in RowNames /\ row.tele \in Sensed /\ row.count \in Nat
      BY <1>1, <1>2, <2>2, RowShape, Zenon
    <3>2. k \in Nat
      BY <3>1
    <3>3. n \in RowNames /\ ((twin.name # NoName \/ row.name # NoName) => n # NoName) /\ t \in Sensed
      BY <3>1, Coalescing, Zenon
    <3> HIDE DEF n, t, k
    <3>4. row' = Radar!RowOf(n, t, k)
      BY <1>1, <2>2, Zenon
    <3>5. row' \in Radar!Rows /\ row' # Radar!NoRow /\ row'.name = n
      BY <3>2, <3>3, <3>4, RowMade
    <3>6. QED
      BY <1>3, <3>3, <3>5
  <2>3. QED
    BY <2>1, <2>2
<1>5. Radar!NameKept'
  BY <1>1, <1>4, Zenon DEF Radar!NameKept, NoName, Radar!NoRow
<1>6. Radar!TelemetryShown' /\ ViewFollows'
  BY <1>1, Zenon DEF Radar!TelemetryShown, ViewFollows
<1>7. RadarTypes'
  <2>1. twin' \in Radar!Rows
    BY <1>1, NoRowIsRow, Zenon
  <2>2. conn' = conn /\ tab' = tab
    BY <1>1, Zenon
  <2>3. QED
    BY <1>2, <1>4, <2>1, <2>2 DEF RadarTypes
<1>8. QED
  BY <1>5, <1>6, <1>7 DEF RadarInv

LEMMA RadarStart ==
  ASSUME Radar!Init
  PROVE  RadarInv
<1>1. PICK old \in KeptRows :
         /\ row = Radar!Backfill(old.row, old.stored) /\ twin = Radar!Backfill(old.twin, old.stored)
         /\ stored = old.stored
         /\ named = \E r \in {old.row, old.twin} : r # Radar!NoRow /\ r.name # NoName
  BY Zenon DEF Radar!Init, NoName
<1>2. old.row \in Radar!Rows /\ old.twin \in Radar!Rows
  BY RadarAssumption
<1>3. /\ row \in Radar!Rows /\ (row = Radar!NoRow <=> old.row = Radar!NoRow)
      /\ (old.row # Radar!NoRow => row.name = old.row.name)
      /\ ((old.row # Radar!NoRow /\ old.stored) => row.tele = "known")
  BY <1>1, <1>2, BackfillRow
<1>4. /\ twin \in Radar!Rows /\ (twin = Radar!NoRow <=> old.twin = Radar!NoRow)
      /\ (old.twin # Radar!NoRow => twin.name = old.twin.name)
  BY <1>1, <1>2, BackfillRow
<1>5. /\ conn = [c \in RadarLinks |-> Radar!Idle] /\ behind
      /\ tab = [live |-> FALSE, shown |-> Radar!NoRow, load |-> Radar!Idle]
  BY Zenon DEF Radar!Init
<1>6. RadarTypes
  <2>1. conn \in [RadarLinks -> Handlers]
    BY <1>5, HandlerShape
  <2>2. tab \in Views
    BY <1>5, HandlerShape, NoRowIsRow DEF Views
  <2>3. QED
    BY <1>3, <1>4, <2>1, <2>2 DEF RadarTypes
<1>7. Radar!NameKept
  <2>1. named => (row # Radar!NoRow /\ row.name # NoName) \/ (twin # Radar!NoRow /\ twin.name # NoName)
    <3> SUFFICES ASSUME named
                 PROVE  (row # Radar!NoRow /\ row.name # NoName) \/ (twin # Radar!NoRow /\ twin.name # NoName)
      OBVIOUS
    <3>1. PICK r \in {old.row, old.twin} : r # Radar!NoRow /\ r.name # NoName
      BY <1>1, Zenon
    <3>2. r = old.row \/ r = old.twin
      BY <3>1
    <3>3. QED
      BY <1>3, <1>4, <3>1, <3>2
  <2>2. QED
    BY <2>1, Zenon DEF Radar!NameKept, NoName
<1>8. Radar!TelemetryShown
  BY <1>1, <1>3 DEF Radar!TelemetryShown
<1>9. ViewFollows
  BY <1>5, Zenon DEF ViewFollows
<1>10. QED
  BY <1>6, <1>7, <1>8, <1>9 DEF RadarInv

LEMMA RadarStep ==
  ASSUME RadarInv, [Radar!Next]_radarVars
  PROVE  RadarInv'
<1>1. ASSUME NEW c \in RadarLinks, NEW kind \in {"nodeinfo", "telemetry", "text"}, Radar!HandlePacket(c, kind)
      PROVE  RadarInv'
  BY <1>1, PacketStep
<1>2. ASSUME NEW c \in RadarLinks, NEW entry \in Radar!Entries, Radar!HandleHeartbeat(c, entry)
      PROVE  RadarInv'
  BY <1>2, HeartbeatStep
<1>3. ASSUME NEW c \in RadarLinks, Radar!Reselect(c) PROVE RadarInv'
  BY <1>3, ReselectStep
<1>4. ASSUME NEW c \in RadarLinks, Radar!BroadcastUpdate(c) PROVE RadarInv'
  BY <1>4, BroadcastStep
<1>5. CASE Radar!Subscribe \/ Radar!TabLeaves \/ Radar!LoadRead \/ Radar!LoadShown
  BY <1>5, TabStep
<1>6. CASE Radar!Restart
  BY <1>6, CollectorRestartStep
<1>7. CASE Radar!MergeDuplicates
  BY <1>7, MergeStep
<1>8. CASE UNCHANGED radarVars
  <2>1. UNCHANGED << row, twin, stored, conn, tab, named, behind, merged >>
    BY <1>8 DEF radarVars
  <2>2. Radar!NameKept' /\ Radar!TelemetryShown' /\ row' \in Radar!Rows /\ twin' \in Radar!Rows
    BY <2>1, RowsStay
  <2>3. Radar!Busy' = Radar!Busy
    BY <2>1 DEF Radar!Busy, Radar!Idle
  <2>4. ViewFollows /\ RadarTypes
    BY DEF RadarInv
  <2>5. ViewFollows'
    BY <2>1, <2>3, <2>4, Zenon DEF ViewFollows
  <2>6. RadarTypes'
    BY <2>1, <2>2, <2>4 DEF RadarTypes
  <2>7. QED
    BY <2>2, <2>5, <2>6 DEF RadarInv
<1>9. QED
  BY <1>1, <1>2, <1>3, <1>4, <1>5, <1>6, <1>7, <1>8, Zenon DEF Radar!Next

LEMMA ViewFromInv ==
  ASSUME RadarInv
  PROVE  Radar!NameKept /\ Radar!TelemetryShown /\ Radar!ViewCurrent
BY Zenon DEF RadarInv, ViewFollows, Radar!ViewCurrent

(* What leaves the machine: only packets of public channels, a location at *)
(* the broker never more exact than the policy, a sensor for every reading *)
(* the broker will show; and the collector loses no name or telemetry it   *)
(* knew and shows what it has stored.  For every set of nodes and          *)
(* channels, every sequence of packets, lost connections, settings and     *)
(* restarts.                                                               *)
THEOREM PublishedHolds == Spec => []PublishedWithinPolicy
<1> DEFINE BrokerKept == part = "mqtt" => BrokerInv
           RadarKept == part = "radar" => RadarInv
<1>1. Init => BrokerKept /\ RadarKept
  BY NetworkInit, BrokerStart, RadarStart
<1>2. BrokerKept /\ RadarKept /\ [Next]_vars => BrokerKept' /\ RadarKept'
  BY PublisherAlone, RadarAlone, BrokerStep, RadarStep
<1>3. BrokerKept /\ RadarKept => PublishedWithinPolicy
  <2>1. BrokerInv => /\ Publisher!PublicOnly /\ Publisher!RetainedWithinPolicy
                     /\ Publisher!EntityForReading
    BY EntityFromBacked DEF BrokerInv
  <2>2. RadarInv => Radar!NameKept /\ Radar!TelemetryShown /\ Radar!ViewCurrent
    BY ViewFromInv DEF RadarInv
  <2>3. QED
    BY <2>1, <2>2, Zenon DEF PublishedWithinPolicy
<1>4. QED
  BY <1>1, <1>2, <1>3, PTL DEF Spec

-----------------------------------------------------------------------------
(***************************************************************************)
(* Direct messages.  The row holds the last key that was stored, and       *)
(* outside the moment between the row and the cache a lookup finds it.     *)
(***************************************************************************)
DirectInv ==
    /\ keyRow = peerAnnounced
    /\ updating = 0 => Direct!Lookup(keyCache, keyRow) = peerAnnounced
    /\ updating # 0 => updating = peerAnnounced
    /\ peerKey \in Nat \ {0}
    /\ ~ unread /\ ~ garbled

LEMMA DirectStart == Direct!Init => DirectInv
BY DEF Direct!Init, DirectInv, Direct!Lookup

(* What is sent is readable when each side has the key of the other, or    *)
(* when we have none.                                                      *)
LEMMA SentIsReadable ==
  ASSUME peerKey # 0, ~ garbled, NEW r, Direct!Sent(r)
  PROVE  ~ garbled'
BY DEF Direct!Sent, Direct!PeerReads, Direct!Encrypted, Direct!OnAirHash

LEMMA DirectStep ==
  ASSUME DirectInv, [Direct!Next]_directVars
  PROVE  DirectInv'
<1> USE DEF DirectInv, Direct!Lookup
<1>1. CASE Direct!Restart
  BY <1>1 DEF Direct!Restart
<1>2. CASE Direct!PeerResets
  BY <1>2 DEF Direct!PeerResets
<1>3. CASE Direct!SendNodeInfo
  BY <1>3 DEF Direct!SendNodeInfo
<1>4. CASE Direct!Register
  BY <1>4 DEF Direct!Register
<1>5. ASSUME NEW f \in {Direct!Missing, Direct!Torn}, Direct!LoseFile(f)
      PROVE  DirectInv'
  BY <1>5 DEF Direct!LoseFile
<1>6. ASSUME NEW k \in {0, peerKey}, NEW fails \in BOOLEAN, Direct!HearNode(k, fails)
      PROVE  DirectInv'
  BY <1>6 DEF Direct!HearNode, Direct!PipelineFree, Direct!Upsert
<1>7. ASSUME NEW sound \in BOOLEAN, Direct!HearPki(sound)
      PROVE  DirectInv'
  BY <1>7 DEF Direct!HearPki, Direct!PipelineFree, Direct!Opens, Direct!Refresh
<1>8. CASE Direct!HearChannel
  BY <1>8 DEF Direct!HearChannel
<1>9. CASE Direct!SendText
  <2>1. ~ garbled'
    BY <1>9, SentIsReadable DEF Direct!SendText
  <2>2. QED
    BY <1>9, <2>1 DEF Direct!SendText
<1>10. CASE Direct!SendReply
  <2>1. ~ garbled'
    BY <1>10, SentIsReadable DEF Direct!SendReply, Direct!Refresh
  <2>2. QED
    BY <1>10, <2>1 DEF Direct!SendReply, Direct!Refresh
<1>11. CASE UNCHANGED directVars
  BY <1>11 DEF directVars
<1>12. QED
  BY <1>1, <1>2, <1>3, <1>4, <1>5, <1>6, <1>7, <1>8, <1>9, <1>10, <1>11, Zenon
  DEF Direct!Next

-----------------------------------------------------------------------------
(***************************************************************************)
(* The radio a text leaves by.  Rows are stored in the order of their      *)
(* stamps until the addressee's clock is set back, so that the lookup      *)
(* finds the row that was stored last; and as long as a channel message is *)
(* under way, a companion that stayed connected has sent it or is still to *)
(* come.                                                                   *)
(***************************************************************************)
(* Types: the names of channels, a stored packet, a direct message (whose  *)
(* source may be anything the lookup returned) and a channel message.      *)
SendNames == ExtraChannels \cup {"primary"}
Stored == [radio : Routing!Radios, stamp : Nat]
TextsFrom(S) == [at : {"idle", "asked", "found", "waiting"}, index : 0 .. 1, wanted : SendNames,
                 source : S, last : Routing!Radios \cup {Routing!None}]
IsText(t) == \E S : t \in TextsFrom(S)
Casts == [at : {"idle", "sending", "done"}, todo : Seq(Routing!Radios),
          took : SUBSET Routing!Radios, steady : SUBSET Routing!Radios]

RoutingTypes ==
    /\ radiosUp \subseteq Routing!Radios /\ peerBand \in Routing!Radios
    /\ heardRows \in Seq(Stored) /\ peerClock \in Nat /\ clockSet \in BOOLEAN
    /\ sendChannels \in Seq(ExtraChannels)
    /\ stickTable \in Routing!Tables /\ stickKnown \in Routing!Tables
    /\ IsText(directText) /\ channelText \in Casts

(* Who stayed connected has sent the message or is still to come.          *)
Covers(c) == \A r \in c.steady : r \in c.took \/ \E i \in DOMAIN c.todo : c.todo[i] = r

(* The rows are in the order of their stamps, and the clock is ahead.      *)
StampsGrow ==
    \A j \in DOMAIN heardRows :
        /\ heardRows[j].stamp < peerClock
        /\ \A i \in DOMAIN heardRows : i < j => heardRows[i].stamp < heardRows[j].stamp

(* The inductive invariant.                                                *)
RoutingInv ==
    /\ RoutingTypes
    /\ ~ clockSet => StampsGrow /\ directText.source = directText.last
    /\ channelText.at = "sending" => Covers(channelText)
    /\ Routing!LeavesWhereHeard /\ Routing!RightChannel /\ Routing!CastReachesAll

(* A finite set as a sequence: nothing is left out.                        *)
LEMMA AllListed ==
  ASSUME NEW S, IsFiniteSet(S)
  PROVE  /\ Routing!SetToSeq(S) \in Seq(S)
         /\ \A r \in S : \E i \in DOMAIN Routing!SetToSeq(S) : Routing!SetToSeq(S)[i] = r
<1> DEFINE n == Cardinality(S)
           f == Routing!SetToSeq(S)
<1>1. n \in Nat /\ ExistsBijection(1 .. n, S)
  BY FS_CardinalityType
<1>2. PICK b \in [1 .. n -> S] : \A i, j \in 1 .. n : b[i] = b[j] => i = j
  BY <1>1, Zenon DEF ExistsBijection, Bijection, Injection, IsInjective
<1>3. Routing!IsInjective(b)
  BY <1>2 DEF Routing!IsInjective
<1>4. f \in [1 .. n -> S] /\ Routing!IsInjective(f)
  <2>1. Routing!Cardinality(S) = n
    BY DEF Routing!Cardinality, Cardinality
  <2>2. f = CHOOSE g \in [1 .. Routing!Cardinality(S) -> S] : Routing!IsInjective(g)
    BY DEF Routing!SetToSeq
  <2> HIDE DEF f, n
  <2>3. QED
    BY <1>3, <2>1, <2>2, Zenon
<1> HIDE DEF f
<1>5. f \in Injection(1 .. n, S)
  BY <1>4, Zenon DEF Injection, IsInjective, Routing!IsInjective
<1>6. Cardinality(1 .. n) = n
  BY <1>1, FS_Interval
<1>7. f \in Surjection(1 .. n, S)
  BY <1>5, <1>6, FS_Injection
<1>8. \A r \in S : \E i \in 1 .. n : f[i] = r
  BY <1>7, Zenon DEF Surjection
<1>9. f \in Seq(S) /\ DOMAIN f = 1 .. n
  BY <1>1, <1>4, SeqDef
<1>10. QED
  BY <1>8, <1>9 DEF f

LEMMA TablesAreSequences ==
  /\ Routing!Tables \subseteq Seq(SendNames)
  /\ {<< >>} \cup {<< n >> : n \in ExtraChannels} \subseteq Seq(ExtraChannels)
<1>1. \A n \in ExtraChannels : << "primary", n >> \in Seq(SendNames) /\ << n, "primary" >> \in Seq(SendNames)
                               /\ << n >> \in Seq(ExtraChannels)
  BY DEF SendNames
<1>2. << "primary" >> \in Seq(SendNames) /\ << >> \in Seq(ExtraChannels)
  BY DEF SendNames
<1>3. QED
  BY <1>1, <1>2 DEF Routing!Tables

(* The first index of a name has that name; the row with the greatest      *)
(* stamp is the last one.                                                  *)
LEMMA SelectedFits ==
  ASSUME NEW S, NEW q \in Seq(S), NEW e, NEW I, I = {i \in 1 .. Len(q) : q[i] = e},
         NEW i \in DOMAIN q, i = IF I # {} THEN Routing!Min(I) ELSE 0
  PROVE  q[i] = e
<1>1. Len(q) \in Nat /\ 0 \notin DOMAIN q
  OBVIOUS
<1>2. I # {} /\ i = Routing!Min(I)
  BY <1>1
<1>3. I \in SUBSET (1 .. Len(q))
  OBVIOUS
<1>4. PICK m \in I : \A k \in I : m <= k
  BY <1>1, <1>2, <1>3, LeastNat
<1>5. i \in I
  BY <1>2, <1>4, Zenon DEF Routing!Min
<1>6. QED
  BY <1>5

LEMMA LatestIsLast ==
  ASSUME heardRows \in Seq(Stored), heardRows # << >>, StampsGrow
  PROVE  Routing!Latest = Routing!Last(heardRows).radio
<1> DEFINE n == Len(heardRows)
           I == {i \in 1 .. n : \A j \in DOMAIN heardRows : heardRows[j].stamp <= heardRows[i].stamp}
<1>1. /\ n \in Nat /\ n \in DOMAIN heardRows /\ DOMAIN heardRows = 1 .. n
      /\ n \in 1 .. n /\ n = Len(heardRows)
  OBVIOUS
<1> HIDE DEF n
<1>2. \A i \in 1 .. n : heardRows[i].stamp \in Nat
  <2>1. \A i \in 1 .. n : heardRows[i] \in Stored
    BY <1>1
  <2>2. QED
    BY <2>1 DEF Stored
<1>3. \A i \in 1 .. n : i # n => heardRows[i].stamp < heardRows[n].stamp
  <2>1. \A i \in DOMAIN heardRows : i < n => heardRows[i].stamp < heardRows[n].stamp
    BY <1>1, Zenon DEF StampsGrow
  <2>2. \A i \in 1 .. n : i # n => i < n /\ i \in DOMAIN heardRows
    <3>1. n \in Nat
      BY <1>1
    <3>2. \A i \in 1 .. n : i # n => i < n
      BY <3>1
    <3>3. QED
      BY <1>1, <3>2
  <2>3. QED
    BY <2>1, <2>2, Zenon
<1>4. I = {n}
  <2> DEFINE s == [i \in 1 .. n |-> heardRows[i].stamp]
  <2>1. \A i \in 1 .. n : s[i] = heardRows[i].stamp /\ s[i] \in Nat
    BY <1>2
  <2>2. \A i \in 1 .. n : i # n => s[i] < s[n]
    BY <1>1, <1>3, <2>1
  <2>3. I = {i \in 1 .. n : \A j \in 1 .. n : s[j] <= s[i]}
    BY <1>1, <2>1
  <2> HIDE DEF s, I
  <2>4. n \in I
    <3>1. ASSUME NEW j \in 1 .. n PROVE s[j] <= s[n]
      <4>1. s[j] \in Nat /\ s[n] \in Nat /\ (j # n => s[j] < s[n])
        BY <1>1, <2>1, <2>2, Zenon
      <4>2. QED
        BY <4>1
    <3>2. QED
      BY <1>1, <2>3, <3>1
  <2>5. ASSUME NEW i \in I PROVE i = n
    <3>1. i \in 1 .. n /\ s[n] <= s[i]
      BY <1>1, <2>3
    <3>2. s[i] \in Nat /\ s[n] \in Nat
      BY <1>1, <2>1, <3>1
    <3>3. QED
      BY <2>2, <3>1, <3>2
  <2>6. QED
    BY <2>4, <2>5
<1>5. Routing!Min({n}) = n
  BY <1>1 DEF Routing!Min
<1>6. Routing!SelectInSeq(heardRows, LAMBDA e : \A j \in DOMAIN heardRows : heardRows[j].stamp <= e.stamp)
        = IF I # {} THEN Routing!Min(I) ELSE 0
  BY <1>1 DEF Routing!SelectInSeq
<1>7. QED
  BY <1>1, <1>4, <1>5, <1>6 DEF Routing!Latest, Routing!Last

(* The invariant at the start, then one lemma per kind of step.            *)
LEMMA IdleText ==
  /\ Routing!Idle \in TextsFrom({Routing!None}) /\ Routing!Idle.source = Routing!Idle.last
  /\ IsText(Routing!Idle) /\ Routing!NoCast \in Casts
<1>1. /\ Routing!Idle \in TextsFrom({Routing!None}) /\ Routing!Idle.source = Routing!Idle.last
      /\ Routing!NoCast \in Casts
  BY DEF Routing!Idle, Routing!NoCast, TextsFrom, Casts, SendNames, Routing!None
<1>2. QED
  BY <1>1, Zenon DEF IsText

LEMMA RoutingStart == Routing!Init => RoutingInv
<1> SUFFICES ASSUME Routing!Init PROVE RoutingInv
  OBVIOUS
<1>1. /\ radiosUp = Routing!Radios /\ peerBand \in Routing!Radios /\ heardRows = << >>
      /\ peerClock = MaxRouted + 1 /\ \E n \in ExtraChannels : sendChannels = << n >>
      /\ stickTable \in Routing!Tables /\ stickKnown = stickTable /\ directText = Routing!Idle
      /\ channelText = Routing!NoCast /\ clockSet = FALSE /\ lastAired = Routing!NotAired
  BY DEF Routing!Init
<1>2. RoutingTypes
  <2>1. sendChannels \in Seq(ExtraChannels)
    BY <1>1, TablesAreSequences
  <2>2. heardRows \in Seq(Stored) /\ peerClock \in Nat /\ clockSet \in BOOLEAN
    <3>1. << >> \in Seq(Stored) /\ MaxRouted + 1 \in Nat
      BY RoutingAssumption
    <3>2. QED
      BY <1>1, <3>1, Zenon
  <2>3. IsText(directText) /\ channelText \in Casts
    BY <1>1, IdleText, Zenon
  <2>4. radiosUp \subseteq Routing!Radios
    BY <1>1
  <2>5. QED
    BY <1>1, <2>1, <2>2, <2>3, <2>4, Zenon DEF RoutingTypes
<1>3. StampsGrow /\ directText.source = directText.last
  BY <1>1, IdleText DEF StampsGrow
<1>4. channelText.at = "idle" /\ lastAired.via = Routing!None
  BY <1>1 DEF Routing!NoCast, Routing!NotAired
<1>5. Routing!LeavesWhereHeard /\ Routing!RightChannel /\ Routing!CastReachesAll
  BY <1>4 DEF Routing!LeavesWhereHeard, Routing!RightChannel, Routing!CastReachesAll
<1>6. QED
  BY <1>2, <1>3, <1>4, <1>5 DEF RoutingInv

LEMMA PeerHeard == RoutingInv /\ Routing!Hear => RoutingInv'
<1> SUFFICES ASSUME RoutingInv, Routing!Hear PROVE RoutingInv'
  OBVIOUS
<1> DEFINE new == [radio |-> peerBand, stamp |-> peerClock]
<1>1. /\ heardRows' = Append(heardRows, new) /\ peerClock' = peerClock + 1
      /\ UNCHANGED << sendKind, radiosUp, peerBand, sendChannels, stickTable, stickKnown,
                      directText, channelText, textsSent, peerMoves, clockSet, lastAired >>
  BY DEF Routing!Hear
<1>2. new \in Stored /\ new.stamp = peerClock
  BY DEF RoutingInv, RoutingTypes, Stored
<1> HIDE DEF new
<1>3. heardRows \in Seq(Stored) /\ peerClock \in Nat
  BY DEF RoutingInv, RoutingTypes
<1>4. heardRows' \in Seq(Stored) /\ peerClock' \in Nat
  BY <1>1, <1>2, <1>3
<1>5. RoutingTypes'
  BY <1>1, <1>4 DEF RoutingInv, RoutingTypes
<1>6. ASSUME StampsGrow PROVE StampsGrow'
  <2>1. /\ DOMAIN heardRows' = 1 .. Len(heardRows) + 1 /\ Len(heardRows) \in Nat
        /\ DOMAIN heardRows = 1 .. Len(heardRows)
        /\ heardRows'[Len(heardRows) + 1] = new
        /\ \A i \in DOMAIN heardRows : heardRows'[i] = heardRows[i]
    BY <1>1, <1>2, <1>3
  <2>2. \A i \in DOMAIN heardRows : heardRows[i].stamp \in Nat
    <3>1. \A i \in DOMAIN heardRows : heardRows[i] \in Stored
      BY <1>3
    <3>2. QED
      BY <3>1 DEF Stored
  <2>3. ASSUME NEW j \in DOMAIN heardRows'
        PROVE  /\ heardRows'[j].stamp < peerClock'
               /\ \A i \in DOMAIN heardRows' : i < j => heardRows'[i].stamp < heardRows'[j].stamp
    <3>1. CASE j \in DOMAIN heardRows
      <4>1. /\ heardRows'[j] = heardRows[j] /\ heardRows[j].stamp \in Nat /\ heardRows[j].stamp < peerClock
        BY <1>6, <2>1, <2>2, <3>1, Zenon DEF StampsGrow
      <4>2. \A i \in DOMAIN heardRows' : i < j => i \in DOMAIN heardRows
        BY <2>1, <3>1
      <4>3. \A i \in DOMAIN heardRows' : i < j => heardRows'[i].stamp < heardRows'[j].stamp
        BY <1>6, <2>1, <3>1, <4>1, <4>2, Zenon DEF StampsGrow
      <4>4. heardRows'[j].stamp < peerClock'
        BY <1>1, <1>3, <4>1
      <4>5. QED
        BY <4>3, <4>4
    <3>2. CASE j \notin DOMAIN heardRows
      <4>1. heardRows'[j].stamp = peerClock
        BY <1>2, <2>1, <3>2
      <4>2. \A i \in DOMAIN heardRows' : i < j => i \in DOMAIN heardRows
        BY <2>1, <3>2
      <4>3. \A i \in DOMAIN heardRows' : i < j => heardRows'[i].stamp < heardRows'[j].stamp
        BY <1>6, <2>1, <4>1, <4>2, Zenon DEF StampsGrow
      <4>4. heardRows'[j].stamp < peerClock'
        BY <1>1, <1>3, <4>1
      <4>5. QED
        BY <4>3, <4>4
    <3>3. QED
      BY <3>1, <3>2
  <2>4. QED
    BY <2>3, Zenon DEF StampsGrow
<1>7. QED
  BY <1>1, <1>5, <1>6 DEF RoutingInv, Covers, Routing!LeavesWhereHeard, Routing!RightChannel,
                          Routing!CastReachesAll

LEMMA PeerAndRadios ==
  ASSUME RoutingInv, RoutingTypes', UNCHANGED << directText, channelText, lastAired >>,
         \/ UNCHANGED << heardRows, peerClock, clockSet >>
         \/ heardRows' = << >> /\ UNCHANGED << peerClock, clockSet >>
         \/ clockSet'
  PROVE  RoutingInv'
<1>1. ~ clockSet' => StampsGrow' /\ directText'.source = directText'.last
  BY DEF RoutingInv, StampsGrow
<1>2. QED
  BY <1>1 DEF RoutingInv, Covers, Routing!LeavesWhereHeard, Routing!RightChannel,
              Routing!CastReachesAll

LEMMA CastChanged ==
  ASSUME RoutingInv, RoutingTypes', channelText'.at = "sending" => Covers(channelText'),
         Routing!CastReachesAll', UNCHANGED << heardRows, peerClock, clockSet, lastAired >>,
         clockSet \/ directText'.source = directText'.last
  PROVE  RoutingInv'
BY DEF RoutingInv, StampsGrow, Covers, Routing!LeavesWhereHeard, Routing!RightChannel

LEMMA SteadyShrinks ==
  ASSUME RoutingInv, NEW c \in Casts,
         c.at = channelText.at, c.todo = channelText.todo, c.took = channelText.took,
         c.steady \subseteq channelText.steady
  PROVE  /\ c.at = "sending" => Covers(c)
         /\ c.at = "done" => c.steady \subseteq c.took
BY DEF RoutingInv, Covers, Routing!CastReachesAll

LEMMA RadioLost ==
  ASSUME RoutingInv, NEW gone, radiosUp' \subseteq radiosUp,
         channelText' = [channelText EXCEPT !.steady = @ \ gone],
         UNCHANGED << peerBand, heardRows, peerClock, sendChannels, stickTable, stickKnown,
                      clockSet, lastAired >>,
         IsText(directText'), clockSet \/ directText'.source = directText'.last
  PROVE  RoutingInv'
<1>1. channelText \in Casts
  BY DEF RoutingInv, RoutingTypes
<1>2. /\ channelText' \in Casts /\ channelText'.at = channelText.at
      /\ channelText'.todo = channelText.todo /\ channelText'.took = channelText.took
      /\ channelText'.steady \subseteq channelText.steady
  BY <1>1 DEF Casts
<1>3. RoutingTypes'
  BY <1>2 DEF RoutingInv, RoutingTypes
<1>4. /\ channelText'.at = "sending" => Covers(channelText')
      /\ channelText'.at = "done" => channelText'.steady \subseteq channelText'.took
  BY <1>2, SteadyShrinks
<1>5. Routing!CastReachesAll'
  BY <1>4, Zenon DEF Routing!CastReachesAll
<1>6. QED
  BY <1>3, <1>4, <1>5, CastChanged, Zenon

LEMMA TextAsked ==
  ASSUME RoutingInv, NEW index \in 0 .. 1, Routing!Ask(index)
  PROVE  RoutingInv'
<1>1. /\ directText' = [Routing!Idle EXCEPT !.at = "asked", !.index = index,
                                            !.wanted = Routing!NameFor(index)]
      /\ lastAired' = Routing!NotAired
      /\ UNCHANGED << sendKind, radiosUp, peerBand, heardRows, peerClock, sendChannels, stickTable,
                      stickKnown, channelText, peerHeard, peerMoves, clockSet >>
  BY DEF Routing!Ask
<1>2. Routing!NameFor(index) \in SendNames
  <2>1. sendChannels \in Seq(ExtraChannels)
    BY DEF RoutingInv, RoutingTypes
  <2>2. \A i \in DOMAIN sendChannels : sendChannels[i] \in ExtraChannels
    BY <2>1
  <2>3. QED
    BY <2>2, Zenon DEF Routing!NameFor, SendNames
<1>3. IsText(directText') /\ directText'.source = directText'.last
  <2>1. directText' \in TextsFrom({Routing!None}) /\ directText'.source = directText'.last
    BY <1>1, <1>2, IdleText DEF TextsFrom
  <2>2. QED
    BY <2>1, Zenon DEF IsText
<1>4. RoutingTypes'
  BY <1>1, <1>3 DEF RoutingInv, RoutingTypes
<1>5. Routing!LeavesWhereHeard' /\ Routing!RightChannel'
  <2>1. lastAired'.via = Routing!None
    BY <1>1 DEF Routing!NotAired
  <2>2. QED
    BY <2>1 DEF Routing!LeavesWhereHeard, Routing!RightChannel
<1>6. QED
  BY <1>1, <1>3, <1>4, <1>5 DEF RoutingInv, StampsGrow, Covers, Routing!CastReachesAll

LEMMA TextLooked == RoutingInv /\ Routing!Look => RoutingInv'
<1> SUFFICES ASSUME RoutingInv, Routing!Look PROVE RoutingInv'
  OBVIOUS
<1> DEFINE last == IF heardRows = << >> THEN Routing!None ELSE Routing!Last(heardRows).radio
<1>1. /\ \/ directText' = [directText EXCEPT !.at = "found", !.source = Routing!Latest, !.last = last]
         \/ directText' = [directText EXCEPT !.at = "found"]
      /\ UNCHANGED << sendKind, radiosUp, peerBand, heardRows, peerClock, sendChannels, stickTable,
                      stickKnown, channelText, peerHeard, textsSent, clockSet, lastAired >>
  BY DEF Routing!Look
<1>2. /\ heardRows \in Seq(Stored) /\ IsText(directText)
      /\ clockSet \/ (StampsGrow /\ directText.source = directText.last)
  BY DEF RoutingInv, RoutingTypes
<1>3. last \in Routing!Radios \cup {Routing!None}
  <2>1. CASE heardRows = << >>
    BY <2>1
  <2>2. CASE heardRows # << >>
    <3>1. heardRows[Len(heardRows)] \in Stored
      BY <1>2, <2>2
    <3>2. QED
      BY <2>2, <3>1 DEF Routing!Last, Stored
  <2>3. QED
    BY <2>1, <2>2
<1>4. PICK S : directText \in TextsFrom(S)
  BY <1>2, Zenon DEF IsText
<1>5. clockSet \/ Routing!Latest = last
  <2>1. CASE heardRows = << >>
    BY <2>1 DEF Routing!Latest
  <2>2. CASE heardRows # << >>
    BY <1>2, <2>2, LatestIsLast
  <2>3. QED
    BY <2>1, <2>2
<1> HIDE DEF last
<1>6. directText' \in TextsFrom(S \cup {Routing!Latest})
  BY <1>1, <1>3, <1>4 DEF TextsFrom
<1>7. clockSet \/ directText'.source = directText'.last
  BY <1>1, <1>2, <1>4, <1>5 DEF TextsFrom
<1>8. RoutingTypes'
  BY <1>1, <1>6, SMT DEF IsText, RoutingInv, RoutingTypes
<1>9. Routing!CastReachesAll' /\ (channelText'.at = "sending" => Covers(channelText'))
  BY <1>1 DEF RoutingInv, Routing!CastReachesAll, Covers
<1>10. QED
  BY <1>1, <1>7, <1>8, <1>9, CastChanged

LEMMA TextSent == RoutingInv /\ Routing!Send => RoutingInv'
<1> SUFFICES ASSUME RoutingInv, Routing!Send PROVE RoutingInv'
  OBVIOUS
<1> DEFINE sure == peerBand \in radiosUp /\ ~ clockSet /\ directText.last = peerBand
           same == Routing!NameFor(directText.index) = directText.wanted /\ stickTable = stickKnown
           on == Routing!OnChannel(directText.index)
<1>1. /\ lastAired' = [via |-> Routing!Via, on |-> on, band |-> peerBand, wanted |-> directText.wanted,
                       sure |-> sure, same |-> same]
      /\ \E a \in {"waiting", "idle"} : directText' = [directText EXCEPT !.at = a]
      /\ UNCHANGED << sendKind, radiosUp, peerBand, heardRows, peerClock, sendChannels, stickTable,
                      stickKnown, channelText, peerHeard, textsSent, peerMoves, clockSet >>
  BY DEF Routing!Send
<1>2. PICK S : directText \in TextsFrom(S)
  BY Zenon DEF RoutingInv, RoutingTypes, IsText
<1>3. directText' \in TextsFrom(S) /\ directText'.source = directText.source /\ directText'.last = directText.last
  BY <1>1, <1>2 DEF TextsFrom
<1>4. RoutingTypes'
  BY <1>1, <1>3, SMT DEF IsText, RoutingInv, RoutingTypes
<1>5. sure => Routing!Via = peerBand
  BY DEF RoutingInv, Routing!Via
<1>6. same => on = directText.wanted
  <2>1. CASE on = Routing!NameFor(directText.index)
    BY <2>1
  <2>2. ASSUME on = Routing!OnStick(directText.index), on # Routing!None, same PROVE on = directText.wanted
    <3> DEFINE e == Routing!NameFor(directText.index)
               i == Routing!SelectInSeq(stickKnown, LAMBDA n : n = e)
    <3>1. i \in DOMAIN stickTable /\ on = stickTable[i]
      BY <2>2, Zenon DEF Routing!OnStick
    <3>2. stickKnown \in Seq(SendNames)
      BY TablesAreSequences DEF RoutingInv, RoutingTypes
    <3>3. i \in DOMAIN stickKnown /\ on = stickKnown[i]
      BY <2>2, <3>1
    <3>4. stickKnown[i] = e
      <4> DEFINE I == {k \in 1 .. Len(stickKnown) : stickKnown[k] = e}
      <4>1. i = IF I # {} THEN Routing!Min(I) ELSE 0
        BY DEF Routing!SelectInSeq
      <4> HIDE DEF e, i
      <4>2. QED
        BY <3>2, <3>3, <4>1, SelectedFits
    <3> HIDE DEF e
    <3>5. QED
      BY <2>2, <3>3, <3>4 DEF e
  <2>3. on # Routing!None
    BY DEF Routing!Send
  <2>4. QED
    BY <2>1, <2>2, <2>3, Zenon DEF Routing!OnChannel
<1> HIDE DEF sure, same, on
<1>7. /\ lastAired'.via = Routing!Via /\ lastAired'.band = peerBand /\ lastAired'.sure = sure
      /\ lastAired'.same = same /\ lastAired'.on = on /\ lastAired'.wanted = directText.wanted
  BY <1>1
<1>8. Routing!LeavesWhereHeard' /\ Routing!RightChannel'
  BY <1>5, <1>6, <1>7, Zenon DEF Routing!LeavesWhereHeard, Routing!RightChannel
<1>9. QED
  BY <1>1, <1>3, <1>4, <1>8 DEF RoutingInv, StampsGrow, Covers, Routing!CastReachesAll

LEMMA TextDropped ==
  ASSUME RoutingInv, directText' = Routing!Idle,
         UNCHANGED << radiosUp, peerBand, heardRows, peerClock, sendChannels, stickTable, stickKnown,
                      channelText, clockSet, lastAired >>
  PROVE  RoutingInv'
<1>1. IsText(directText') /\ directText'.source = directText'.last
  BY IdleText
<1>2. RoutingTypes'
  BY <1>1 DEF RoutingInv, RoutingTypes
<1>3. QED
  BY <1>1, <1>2 DEF RoutingInv, StampsGrow, Covers, Routing!LeavesWhereHeard, Routing!RightChannel,
                    Routing!CastReachesAll

LEMMA TextTimesOut == RoutingInv /\ Routing!TimesOut => RoutingInv'
<1> SUFFICES ASSUME RoutingInv, Routing!TimesOut PROVE RoutingInv'
  OBVIOUS
<1>1. /\ directText' = Routing!Idle /\ radiosUp' \subseteq radiosUp
      /\ channelText' = [channelText EXCEPT !.steady = @ \cap radiosUp']
      /\ UNCHANGED << sendKind, peerBand, heardRows, peerClock, sendChannels, stickTable, stickKnown,
                      peerHeard, textsSent, clockSet, lastAired >>
  BY DEF Routing!TimesOut
<1>2. IsText(directText') /\ directText'.source = directText'.last
  BY <1>1, IdleText
<1>3. channelText.steady \cap radiosUp' = channelText.steady \ (Routing!Radios \ radiosUp')
  <2>1. channelText.steady \subseteq Routing!Radios
    BY DEF RoutingInv, RoutingTypes, Casts
  <2>2. QED
    BY <2>1
<1>4. channelText' = [channelText EXCEPT !.steady = @ \ (Routing!Radios \ radiosUp')]
  BY <1>1, <1>3
<1>5. QED
  BY <1>1, <1>2, <1>4, RadioLost

LEMMA CastStarted == RoutingInv /\ Routing!CastBegins => RoutingInv'
<1> SUFFICES ASSUME RoutingInv, Routing!CastBegins PROVE RoutingInv'
  OBVIOUS
<1>1. /\ channelText' = [at |-> "sending", todo |-> Routing!SetToSeq(radiosUp), took |-> {}, steady |-> radiosUp]
      /\ UNCHANGED << sendKind, radiosUp, peerBand, heardRows, peerClock, sendChannels, stickTable,
                      stickKnown, directText, peerHeard, peerMoves, clockSet, lastAired >>
  BY DEF Routing!CastBegins
<1>2. radiosUp \subseteq Routing!Radios
  BY DEF RoutingInv, RoutingTypes
<1>3. IsFiniteSet(radiosUp)
  <2>1. IsFiniteSet({"first"}) /\ IsFiniteSet(OtherRadios)
    BY RoutingAssumption, FS_Singleton
  <2>2. IsFiniteSet(Routing!Radios)
    BY <2>1, FS_Union DEF Routing!Radios
  <2>3. QED
    BY <1>2, <2>2, FS_Subset
<1> DEFINE q == Routing!SetToSeq(radiosUp)
<1>4. q \in Seq(radiosUp) /\ \A r \in radiosUp : \E i \in DOMAIN q : q[i] = r
  BY <1>3, AllListed
<1> HIDE DEF q
<1>5. channelText' = [at |-> "sending", todo |-> q, took |-> {}, steady |-> radiosUp]
  BY <1>1 DEF q
<1>6. q \in Seq(Routing!Radios)
  BY <1>2, <1>4
<1>7. /\ channelText' \in Casts /\ channelText'.at = "sending" /\ channelText'.todo = q
      /\ channelText'.steady = radiosUp
  BY <1>2, <1>5, <1>6 DEF Casts
<1>8. Covers(channelText') /\ Routing!CastReachesAll'
  BY <1>4, <1>7 DEF Covers, Routing!CastReachesAll
<1>9. RoutingTypes'
  BY <1>1, <1>7 DEF RoutingInv, RoutingTypes
<1>10. clockSet \/ directText'.source = directText'.last
  BY <1>1 DEF RoutingInv
<1>11. QED
  BY <1>1, <1>8, <1>9, <1>10, CastChanged

LEMMA CastGoesOn ==
  ASSUME RoutingInv, channelText.at = "sending", channelText.todo # << >>,
         NEW took \in SUBSET Routing!Radios, NEW steady \in SUBSET Routing!Radios,
         channelText' = [channelText EXCEPT !.took = took, !.todo = Tail(@), !.steady = steady],
         channelText.took \subseteq took, steady \subseteq channelText.steady,
         Head(channelText.todo) \in took \/ Head(channelText.todo) \notin steady,
         radiosUp' \subseteq radiosUp,
         UNCHANGED << peerBand, heardRows, peerClock, sendChannels, stickTable, stickKnown,
                      directText, clockSet, lastAired >>
  PROVE  RoutingInv'
<1> DEFINE q == channelText.todo
<1>1. q \in Seq(Routing!Radios) /\ channelText \in Casts /\ Covers(channelText)
  BY DEF RoutingInv, RoutingTypes, Casts
<1>2. /\ channelText' \in Casts /\ channelText'.at = "sending" /\ channelText'.todo = Tail(q)
      /\ channelText'.took = took /\ channelText'.steady = steady
  <2>1. Tail(q) \in Seq(Routing!Radios)
    BY <1>1
  <2>2. QED
    BY <1>1, <2>1 DEF Casts
<1>3. ASSUME NEW r \in steady, r \notin took PROVE \E i \in DOMAIN Tail(q) : Tail(q)[i] = r
  <2>1. PICK i \in DOMAIN q : q[i] = r
    BY <1>1, <1>3, Zenon DEF Covers
  <2> HIDE DEF q
  <2>2. q # << >> /\ Head(q) # r
    BY <1>3 DEF q
  <2>3. i \in 2 .. Len(q) /\ Len(q) \in Nat
    BY <1>1, <2>1, <2>2
  <2>4. i - 1 \in DOMAIN Tail(q) /\ Tail(q)[i - 1] = q[i]
    BY <1>1, <2>2, <2>3
  <2>5. QED
    BY <2>1, <2>4
<1> HIDE DEF q
<1>4. Covers(channelText') /\ Routing!CastReachesAll'
  BY <1>2, <1>3 DEF Covers, Routing!CastReachesAll
<1>5. RoutingTypes'
  BY <1>2 DEF RoutingInv, RoutingTypes
<1>6. clockSet \/ directText'.source = directText'.last
  BY DEF RoutingInv
<1>7. QED
  BY <1>4, <1>5, <1>6, CastChanged

LEMMA RoutingStep == RoutingInv /\ Routing!Next => RoutingInv'
<1> SUFFICES ASSUME RoutingInv, Routing!Next PROVE RoutingInv'
  OBVIOUS
<1>1. CASE Routing!Hear
  BY <1>1, PeerHeard
<1>2. CASE Routing!SetClockBack
  <2>1. RoutingTypes'
    BY <1>2 DEF RoutingInv, RoutingTypes, Routing!SetClockBack
  <2>2. QED
    BY <1>2, <2>1, PeerAndRadios DEF Routing!SetClockBack
<1>3. CASE Routing!Prune
  <2>1. RoutingTypes'
    BY <1>3 DEF RoutingInv, RoutingTypes, Routing!Prune
  <2>2. QED
    BY <1>3, <2>1, PeerAndRadios DEF Routing!Prune
<1>4. ASSUME NEW r \in Routing!Radios, Routing!Move(r) PROVE RoutingInv'
  <2>1. RoutingTypes'
    BY <1>4 DEF RoutingInv, RoutingTypes, Routing!Move
  <2>2. QED
    BY <1>4, <2>1, PeerAndRadios DEF Routing!Move
<1>5. ASSUME NEW r \in Routing!Radios, Routing!Disconnect(r) PROVE RoutingInv'
  <2>1. IsText(directText) /\ (clockSet \/ directText.source = directText.last)
    BY DEF RoutingInv, RoutingTypes
  <2>2. /\ radiosUp' \subseteq radiosUp /\ directText' = directText
        /\ channelText' = [channelText EXCEPT !.steady = @ \ {r}]
        /\ UNCHANGED << peerBand, heardRows, peerClock, sendChannels, stickTable, stickKnown,
                        clockSet, lastAired >>
    BY <1>5 DEF Routing!Disconnect
  <2>3. QED
    BY <2>1, <2>2, RadioLost
<1>6. ASSUME NEW r \in Routing!Radios, Routing!Connect(r) PROVE RoutingInv'
  <2>1. RoutingTypes'
    BY <1>6 DEF RoutingInv, RoutingTypes, Routing!Connect
  <2>2. QED
    BY <1>6, <2>1, PeerAndRadios DEF Routing!Connect
<1>7. ASSUME NEW t \in Routing!Tables, Routing!EditStick(t) PROVE RoutingInv'
  <2>1. RoutingTypes'
    BY <1>7 DEF RoutingInv, RoutingTypes, Routing!EditStick
  <2>2. QED
    BY <1>7, <2>1, PeerAndRadios DEF Routing!EditStick
<1>8. ASSUME NEW list \in {<< >>} \cup {<< n >> : n \in ExtraChannels}, Routing!EditChannels(list)
      PROVE  RoutingInv'
  <2>1. list \in Seq(ExtraChannels)
    BY TablesAreSequences
  <2>2. /\ sendChannels' = list
        /\ UNCHANGED << radiosUp, peerBand, heardRows, peerClock, stickTable, stickKnown,
                        directText, channelText, clockSet, lastAired >>
    BY <1>8 DEF Routing!EditChannels
  <2>3. RoutingTypes'
    BY <2>1, <2>2 DEF RoutingInv, RoutingTypes
  <2>4. QED
    BY <2>2, <2>3, PeerAndRadios
<1>9. ASSUME NEW index \in 0 .. 1, Routing!Ask(index) PROVE RoutingInv'
  BY <1>9, TextAsked
<1>10. CASE Routing!Look \/ Routing!Send \/ Routing!TimesOut
  BY <1>10, TextLooked, TextSent, TextTimesOut
<1>11. CASE Routing!SendRefused \/ Routing!Answered
  BY <1>11, TextDropped DEF Routing!SendRefused, Routing!Answered
<1>12. CASE Routing!CastBegins
  BY <1>12, CastStarted
<1>13. CASE Routing!CastTook
  <2> DEFINE r == Head(channelText.todo)
  <2>1. /\ channelText.at = "sending" /\ channelText.todo # << >> /\ r \in radiosUp
        /\ channelText' = [channelText EXCEPT !.took = @ \cup {r}, !.todo = Tail(@)]
        /\ UNCHANGED << radiosUp, peerBand, heardRows, peerClock, sendChannels, stickTable, stickKnown,
                        directText, clockSet, lastAired >>
    BY <1>13 DEF Routing!CastTook
  <2>2. channelText \in Casts /\ radiosUp \subseteq Routing!Radios
    BY DEF RoutingInv, RoutingTypes
  <2>3. channelText.took \cup {r} \in SUBSET Routing!Radios /\ channelText.steady \in SUBSET Routing!Radios
    BY <2>1, <2>2 DEF Casts
  <2>4. channelText' = [channelText EXCEPT !.took = channelText.took \cup {r}, !.todo = Tail(@),
                                           !.steady = channelText.steady]
    BY <2>1, <2>2 DEF Casts
  <2>5. QED
    BY <2>1, <2>3, <2>4, CastGoesOn
<1>14. CASE Routing!CastMissed
  <2> DEFINE r == Head(channelText.todo)
  <2>1. /\ channelText.at = "sending" /\ channelText.todo # << >> /\ radiosUp' \subseteq radiosUp
        /\ channelText' = [channelText EXCEPT !.todo = Tail(@), !.steady = @ \ {r}]
        /\ UNCHANGED << peerBand, heardRows, peerClock, sendChannels, stickTable, stickKnown,
                        directText, clockSet, lastAired >>
    BY <1>14 DEF Routing!CastMissed, Routing!AfterFailure
  <2>2. channelText \in Casts
    BY DEF RoutingInv, RoutingTypes
  <2>3. channelText.took \in SUBSET Routing!Radios /\ channelText.steady \ {r} \in SUBSET Routing!Radios
    BY <2>2 DEF Casts
  <2>4. channelText' = [channelText EXCEPT !.took = channelText.took, !.todo = Tail(@),
                                           !.steady = channelText.steady \ {r}]
    BY <2>1, <2>2 DEF Casts
  <2>5. QED
    BY <2>1, <2>3, <2>4, CastGoesOn
<1>15. CASE Routing!CastEnds
  <2>1. /\ channelText.at = "sending" /\ channelText.todo = << >>
        /\ channelText' = [channelText EXCEPT !.at = "done"]
        /\ UNCHANGED << radiosUp, peerBand, heardRows, peerClock, sendChannels, stickTable, stickKnown,
                        directText, clockSet, lastAired >>
    BY <1>15 DEF Routing!CastEnds
  <2>2. channelText \in Casts /\ Covers(channelText)
    BY <2>1 DEF RoutingInv, RoutingTypes
  <2>3. channelText.steady \subseteq channelText.took
    BY <2>1, <2>2 DEF Covers
  <2>4. /\ channelText' \in Casts /\ channelText'.at = "done"
        /\ channelText'.took = channelText.took /\ channelText'.steady = channelText.steady
    BY <2>1, <2>2 DEF Casts
  <2>5. RoutingTypes' /\ Routing!CastReachesAll'
    BY <2>1, <2>3, <2>4 DEF RoutingInv, RoutingTypes, Routing!CastReachesAll
  <2>6. clockSet \/ directText'.source = directText'.last
    BY <2>1 DEF RoutingInv
  <2>7. QED
    BY <2>1, <2>4, <2>5, <2>6, CastChanged
<1>16. QED
  BY <1>1, <1>2, <1>3, <1>4, <1>5, <1>6, <1>7, <1>8, <1>9, <1>10, <1>11, <1>12, <1>13, <1>14, <1>15
     DEF Routing!Next

LEMMA RoutingStands == RoutingInv /\ UNCHANGED routingVars => RoutingInv'
<1> SUFFICES ASSUME RoutingInv, UNCHANGED routingVars PROVE RoutingInv'
  OBVIOUS
<1>1. RoutingTypes'
  BY DEF RoutingInv, RoutingTypes, routingVars
<1>2. UNCHANGED << heardRows, peerClock, clockSet, directText, channelText, lastAired >>
  BY DEF routingVars
<1>3. QED
  BY <1>1, <1>2, PeerAndRadios

-----------------------------------------------------------------------------
(***************************************************************************)
(* Replies.  The hop limit is computed from the copy that is answered and  *)
(* the limit that is configured then, the key from the list as it is then: *)
(* a name is compared with the key at its own index as long as there is a  *)
(* default key, and the first that fits is the channel itself when no      *)
(* other has its hash.                                                     *)
(***************************************************************************)
(* A copy of a request whose reply is due.                                 *)
Tasks == [id : Nat, channel : ReplyNames \cup {"primary"}, start : 0 .. HopMax, limit : 0 .. HopMax]

(* The inductive invariant.                                                *)
RepliesInv ==
    /\ defaultKey \in BOOLEAN /\ replyChannels \in Seq(ReplyNames) /\ replyHops \in 0 .. HopMax
    /\ replyTasks \subseteq Tasks /\ requestCopies \in Nat
    /\ \A t \in replyTasks : t.limit <= t.start
    /\ Replies!ReplyReaches /\ Replies!ReplyReadable

LEMMA ListsAreSequences == Replies!Lists \subseteq Seq(ReplyNames)
<1> SUFFICES ASSUME NEW n \in 0 .. Cardinality(ReplyNames), NEW l \in [1 .. n -> ReplyNames]
             PROVE  l \in Seq(ReplyNames)
  BY DEF Replies!Lists
<1>1. Cardinality(ReplyNames) \in Nat
  BY RepliesAssumption, FS_CardinalityType
<1>2. n \in Nat
  BY <1>1
<1>3. QED
  BY <1>2, SeqDef

(* What the two computations return.                                       *)
LEMMA HopsForResponse ==
  ASSUME NEW limit \in 0 .. HopMax, NEW start \in 0 .. HopMax, limit <= start,
         replyHops \in 0 .. HopMax
  PROVE  Replies!HopLimitForResponse(limit, start) \in start - limit .. start - limit + 2
BY RepliesAssumption DEF Replies!HopLimitForResponse

LEMMA KeyOfRequest ==
  ASSUME replyChannels \in Seq(ReplyNames), defaultKey, NEW channel,
         Replies!Distinct(channel)
  PROVE  Replies!KeyFor(Replies!Hash(channel, channel)) = channel
<1> DEFINE keys == Replies!AllKeys
           h == Replies!Hash(channel, channel)
           fits == {i \in DOMAIN replyChannels :
                      i < Len(keys) /\ Replies!Hash(replyChannels[i], keys[i + 1]) = h}
<1>1. /\ keys = << "primary" >> \o replyChannels
      /\ Len(keys) = Len(replyChannels) + 1 /\ keys[1] = "primary"
      /\ DOMAIN keys = 1 .. Len(replyChannels) + 1
      /\ \A i \in DOMAIN replyChannels : i \in Nat /\ i < Len(keys) /\ keys[i + 1] = replyChannels[i]
  BY DEF Replies!AllKeys
<1>2. \A i \in DOMAIN keys : Replies!Hash(keys[i], keys[i]) = h => keys[i] = channel
  BY DEF Replies!Distinct, Replies!ToSet
<1>3. \E i \in DOMAIN keys : keys[i] = channel
  BY DEF Replies!Distinct, Replies!ToSet
<1>4. fits = {i \in DOMAIN replyChannels : replyChannels[i] = channel}
  <2>1. \A i \in DOMAIN replyChannels : i + 1 \in DOMAIN keys
    BY <1>1
  <2>2. \A i \in DOMAIN replyChannels :
          Replies!Hash(replyChannels[i], replyChannels[i]) = h <=> replyChannels[i] = channel
    BY <1>1, <1>2, <2>1
  <2>3. QED
    BY <1>1, <2>2
<1>5. keys # << >> /\ 1 \in DOMAIN keys
  BY <1>1
<1>6. Replies!KeyFor(h) = IF Replies!Hash("primary", keys[1]) = h \/ fits = {} THEN keys[1]
                          ELSE keys[Replies!Min(fits) + 1]
  BY <1>5 DEF Replies!KeyFor
<1> HIDE DEF keys, h, fits
<1>7. CASE Replies!Hash("primary", "primary") = h
  BY <1>1, <1>2, <1>5, <1>6, <1>7
<1>8. CASE Replies!Hash("primary", "primary") # h
  <2>1. "primary" # channel
    BY <1>8 DEF h
  <2>2. fits # {}
    <3>1. PICK i \in DOMAIN keys : keys[i] = channel
      BY <1>3
    <3>2. i # 1 /\ i \in Nat /\ i - 1 \in DOMAIN replyChannels /\ keys[i] = replyChannels[i - 1]
      BY <1>1, <2>1, <3>1
    <3>3. QED
      BY <1>4, <3>1, <3>2
  <2>3. Replies!Min(fits) \in fits
    <3>1. fits \subseteq 1 .. Len(replyChannels) /\ Len(replyChannels) \in Nat
      BY <1>4
    <3>2. PICK m \in fits : \A k \in fits : m <= k
      BY <2>2, <3>1, LeastNat
    <3>3. QED
      BY <3>2, Zenon DEF Replies!Min
  <2>4. keys[Replies!Min(fits) + 1] = channel
    <3>1. PICK m : m = Replies!Min(fits)
      OBVIOUS
    <3>2. m \in DOMAIN replyChannels /\ replyChannels[m] = channel
      BY <1>4, <2>3, <3>1
    <3>3. QED
      BY <1>1, <3>1, <3>2
  <2>5. Replies!Hash("primary", keys[1]) # h
    BY <1>1, <1>8
  <2>6. QED
    BY <1>6, <2>2, <2>4, <2>5 DEF h
<1>9. QED
  BY <1>7, <1>8 DEF h

(* The invariant at the start and through the steps.                       *)
LEMMA RepliesStart == Replies!Init => RepliesInv
<1> SUFFICES ASSUME Replies!Init PROVE RepliesInv
  OBVIOUS
<1>1. /\ defaultKey \in BOOLEAN /\ replyChannels \in Replies!Lists /\ replyHops \in 0 .. HopMax
      /\ replyTasks = {} /\ lastReply = Replies!NoReply /\ requestCopies = 0
  BY DEF Replies!Init
<1>2. lastReply.key = Replies!None
  BY <1>1 DEF Replies!NoReply
<1>3. Replies!ReplyReaches /\ Replies!ReplyReadable
  BY <1>2 DEF Replies!ReplyReaches, Replies!ReplyReadable
<1>4. replyChannels \in Seq(ReplyNames)
  BY <1>1, ListsAreSequences
<1>5. QED
  BY <1>1, <1>3, <1>4 DEF RepliesInv

LEMMA RequestHeard ==
  ASSUME RepliesInv, NEW channel \in ReplyNames \cup {"primary"},
         NEW start \in 0 .. HopMax, NEW taken \in 0 .. HopMax,
         Replies!Hear(channel, start, taken)
  PROVE  RepliesInv'
<1> DEFINE new == [id |-> requestCopies, channel |-> channel, start |-> start, limit |-> start - taken]
<1>1. /\ replyTasks' = replyTasks \cup {new} /\ requestCopies' = requestCopies + 1
      /\ UNCHANGED << defaultKey, replyChannels, replyHops, lastReply, replyEdits >> /\ taken <= start
  BY DEF Replies!Hear
<1>2. new \in Tasks /\ new.limit <= new.start
  BY <1>1, RepliesAssumption DEF RepliesInv, Tasks
<1> HIDE DEF new
<1>3. QED
  BY <1>1, <1>2 DEF RepliesInv, Replies!ReplyReaches, Replies!ReplyReadable

LEMMA RequestAnswered ==
  ASSUME RepliesInv, NEW t \in replyTasks, Replies!Reply(t)
  PROVE  RepliesInv'
<1>1. /\ replyTasks' = replyTasks \ {t}
      /\ UNCHANGED << defaultKey, replyChannels, replyHops, requestCopies, replyEdits >>
      /\ lastReply' = [limit |-> Replies!HopLimitForResponse(t.limit, t.start),
                       key |-> Replies!KeyFor(Replies!Hash(t.channel, t.channel)),
                       taken |-> t.start - t.limit, channel |-> t.channel,
                       known |-> defaultKey /\ Replies!Distinct(t.channel)]
  BY DEF Replies!Reply
<1>2. t.limit \in 0 .. HopMax /\ t.start \in 0 .. HopMax /\ t.limit <= t.start
  BY DEF RepliesInv, Tasks
<1>3. Replies!HopLimitForResponse(t.limit, t.start) \in t.start - t.limit .. t.start - t.limit + 2
  BY <1>2, HopsForResponse DEF RepliesInv
<1>4. Replies!ReplyReaches'
  BY <1>1, <1>3 DEF Replies!ReplyReaches
<1>5. Replies!ReplyReadable'
  <2>1. ASSUME defaultKey, Replies!Distinct(t.channel)
        PROVE  Replies!KeyFor(Replies!Hash(t.channel, t.channel)) = t.channel
    BY <2>1, KeyOfRequest, Zenon DEF RepliesInv
  <2>2. /\ lastReply'.key = Replies!KeyFor(Replies!Hash(t.channel, t.channel))
        /\ lastReply'.channel = t.channel
        /\ lastReply'.known = (defaultKey /\ Replies!Distinct(t.channel))
    BY <1>1
  <2>3. QED
    BY <2>1, <2>2, Zenon DEF Replies!ReplyReadable
<1>6. QED
  BY <1>1, <1>4, <1>5 DEF RepliesInv

LEMMA RepliesStep == RepliesInv /\ Replies!Next => RepliesInv'
<1> SUFFICES ASSUME RepliesInv, Replies!Next PROVE RepliesInv'
  OBVIOUS
<1>1. CASE \E channel \in ReplyNames \cup {"primary"}, start, taken \in 0 .. HopMax :
             Replies!Hear(channel, start, taken)
  BY <1>1, RequestHeard
<1>2. ASSUME NEW l \in Replies!Lists, Replies!EditList(l) PROVE RepliesInv'
  <2>1. l \in Seq(ReplyNames)
    BY ListsAreSequences
  <2>2. QED
    BY <1>2, <2>1 DEF RepliesInv, Replies!EditList, Replies!ReplyReaches, Replies!ReplyReadable
<1>3. ASSUME NEW h \in 0 .. HopMax, Replies!EditHopLimit(h) PROVE RepliesInv'
  BY <1>3 DEF RepliesInv, Replies!EditHopLimit, Replies!ReplyReaches, Replies!ReplyReadable
<1>4. ASSUME NEW t \in replyTasks, Replies!Unanswered(t) PROVE RepliesInv'
  BY <1>4 DEF RepliesInv, Replies!Unanswered, Replies!ReplyReaches, Replies!ReplyReadable
<1>5. QED
  BY <1>1, <1>2, <1>3, <1>4, RequestAnswered DEF Replies!Next

LEMMA RepliesStand == RepliesInv /\ UNCHANGED repliesVars => RepliesInv'
BY DEF RepliesInv, repliesVars, Replies!ReplyReaches, Replies!ReplyReadable

(* Texts arrive.  The last stored key of a peer is the one that is looked  *)
(* up, a message whose keys are at hand is read, and what is sent to a     *)
(* peer that has our key can be read; a direct message leaves by the radio *)
(* that heard its addressee last and on the channel it was written for,    *)
(* and a channel message by every companion that stayed connected; a reply *)
(* has as many hops as its request took and at most two more, and the      *)
(* request's key.  For every set of radios, channels and channel lists,    *)
(* through any number of restarts, torn key files, lost cables, timeouts   *)
(* and edits.                                                              *)
THEOREM TextsArrive == Spec => []TextsReach
<1> DEFINE DirectKept == part = "direct" => DirectInv
           RoutingKept == part = "routing" => RoutingInv
           RepliesKept == part = "replies" => RepliesInv
<1>1. Init => DirectKept /\ RoutingKept /\ RepliesKept
  BY NetworkInit, DirectStart, RoutingStart, RepliesStart
<1>2. DirectKept /\ RoutingKept /\ RepliesKept /\ [Next]_vars
        => DirectKept' /\ RoutingKept' /\ RepliesKept'
  <2>1. RoutingInv /\ [Routing!Next]_routingVars => RoutingInv'
    BY RoutingStep, RoutingStands
  <2>2. RepliesInv /\ [Replies!Next]_repliesVars => RepliesInv'
    BY RepliesStep, RepliesStand
  <2>3. QED
    BY <2>1, <2>2, DirectAlone, RoutingAlone, RepliesAlone, DirectStep
<1>3. DirectKept /\ RoutingKept /\ RepliesKept => TextsReach
  <2>1. DirectInv => Direct!KeyRemembered /\ Direct!AtHandIsRead /\ Direct!SentReadable
    BY DEF DirectInv, Direct!KeyRemembered, Direct!AtHandIsRead, Direct!SentReadable
  <2>2. QED
    BY <2>1, Zenon DEF TextsReach, RoutingInv, RepliesInv
<1>4. QED
  BY <1>1, <1>2, <1>3, PTL DEF Spec
=============================================================================
