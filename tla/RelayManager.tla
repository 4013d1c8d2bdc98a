----------------------------- MODULE RelayManager ----------------------------
(***************************************************************************)
(* The relay engine of src/relay/relay_manager.py: every captured packet   *)
(* is evaluated against the duplicate filter, the static filters and the   *)
(* rate limiter; an approved one is handed to the transmit function, which *)
(* is awaited.  The pipeline loop awaits process_packet, so at most one    *)
(* packet is between its approval and the end of its transmission.         *)
(*                                                                         *)
(* Two of the filters have a memory.  The sliding-window limiter of        *)
(* src/relay/rate_limiter.py, of which the upstream client owns one too,   *)
(* keeps one deque of monotonic timestamps, oldest first.  The duplicate   *)
(* filter of src/relay/dedup_filter.py keeps an OrderedDict from           *)
(* "source_id:packet_id" to the time of its first sighting, oldest first,  *)
(* here a sequence of entries [key, at].                                   *)
(***************************************************************************)
EXTENDS Integers, Sequences, FiniteSets, TLC

CONSTANTS
    MaxPerMinute,    \* max_per_minute
    BurstSize,       \* burst_size
    WindowSeconds,   \* _window_seconds (60 in the code)
    BurstSeconds,    \* the 5.0 of allow()
    MaxEntries,      \* max_entries
    TtlSeconds,      \* ttl_seconds
    Keys,         \* (source_id, packet_id) pairs
    Heard,        \* the packets the radio may capture
    LocalNode,    \* _local_node_hex, or NoNode while it is None
    NoNode,
    Broadcasts,   \* {"ffffffff", "ffff"}
    Dests,        \* destination ids
    Types, RelayWorthyTypes,
    MinRssi, MaxRssi,
    NoSignal,     \* packet.signal is None
    MaxTime,      \* bound: ticks of the monotonic clock
    MaxPackets    \* bound: packets given to process_packet

Reasons == { "relay_disabled", "duplicate", "no_hops_remaining", "dest_local",
             "non_relayable_type", "signal_too_strong", "signal_too_weak",
             "rate_limited" }

Packet == [key : Keys, hop_limit : Int, dest : Dests, ptype : Types,
           rssi : Int \cup {NoSignal}]

(* An entry of the duplicate filter, and an approval with its place among  *)
(* the recorded packets.                                                   *)
Entry == [key : Keys, at : Nat]
Approval == [key : Keys, at : Nat, nth : Nat]

ASSUME LimiterAssumption ==
    /\ MaxPerMinute \in Nat \ {0}
    /\ BurstSize \in Nat \ {0}
    /\ WindowSeconds \in Nat \ {0}
    /\ BurstSeconds \in 1 .. WindowSeconds

ASSUME DedupAssumption == MaxEntries \in Nat \ {0} /\ TtlSeconds \in Nat \ {0}

ASSUME RelayAssumption ==
    /\ Heard \subseteq Packet
    /\ RelayWorthyTypes \subseteq Types
    /\ MinRssi \in Int /\ MaxRssi \in Int
    /\ NoSignal \notin Int
    /\ MaxTime \in Nat /\ MaxPackets \in Nat

-----------------------------------------------------------------------------
(* Variants of the definitions below that carry a plausible slip each.     *)
AdmitAtLimit(ts, now) == Len(ts) <= MaxPerMinute
AdmitBurstAtLimit(ts, now) ==
    Cardinality({i \in DOMAIN ts : now - ts[i] < BurstSeconds}) <= BurstSize

ForgetEarly(entry, cutoff) == entry.at <= cutoff + 1
KeepOneLess(seen) ==
    SubSeq(seen, IF Len(seen) >= MaxEntries THEN 2 ELSE 1, Len(seen))

-----------------------------------------------------------------------------
(* The test _prune() pops the oldest timestamp on.                         *)
Stale(t, cutoff) == t < cutoff

(* How many timestamps the loop of _prune() pops: it stops at the first    *)
(* one that is not stale, whatever comes after it.                         *)
StaleCount(ts, cutoff) ==
    CHOOSE n \in 0 .. Len(ts) :
        /\ \A i \in 1 .. n : Stale(ts[i], cutoff)
        /\ n < Len(ts) => ~ Stale(ts[n + 1], cutoff)

Prune(ts, now) ==
    SubSeq(ts, StaleCount(ts, now - WindowSeconds) + 1, Len(ts))

(* The two tests of allow() on the pruned deque.                           *)
WithinWindow(ts, now) == Len(ts) < MaxPerMinute
WithinBurst(ts, now) ==
    Cardinality({i \in DOMAIN ts : now - ts[i] < BurstSeconds}) < BurstSize

Allows(ts, now) == WithinWindow(ts, now) /\ WithinBurst(ts, now)

-----------------------------------------------------------------------------
(* _evict_expired() stops at the first entry with oldest_time > cutoff.    *)
Expired(entry, cutoff) == entry.at <= cutoff

ExpiredCount(seen, cutoff) ==
    CHOOSE n \in 0 .. Len(seen) :
        /\ \A i \in 1 .. n : Expired(seen[i], cutoff)
        /\ n < Len(seen) => ~ Expired(seen[n + 1], cutoff)

EvictExpired(seen, now) ==
    SubSeq(seen, ExpiredCount(seen, now - TtlSeconds) + 1, Len(seen))

(* _enforce_max_size(): one insertion needs at most one pop, and a         *)
(* duplicate sighting never moves its entry, so the order is insertion     *)
(* order.                                                                  *)
EnforceMaxSize(seen) ==
    SubSeq(seen, IF Len(seen) > MaxEntries THEN 2 ELSE 1, Len(seen))

Knows(seen, key) == \E i \in DOMAIN seen : seen[i].key = key

(* What is_duplicate() leaves behind when the key is new.                  *)
Insert(seen, key, now) == EnforceMaxSize(Append(seen, [key |-> key, at |-> now]))

-----------------------------------------------------------------------------
VARIABLES
    now,          \* time.monotonic()
    enabled,      \* _enabled
    seen,         \* _dedup._seen
    timestamps,   \* _limiter._timestamps
    relaying,     \* the packet inside "await self._relay", or none: a set
    relayCount,   \* _relay_count
    rejections,   \* _rejection_reasons; _rejected_count is their sum
    \* history: what was recorded by the filter and what was approved, and when
    recorded,
    approved

vars == << now, enabled, seen, timestamps, relaying, relayCount, rejections,
           recorded, approved >>

Init ==
    /\ now = 0
    /\ enabled \in BOOLEAN
    /\ seen = << >> /\ timestamps = << >>
    /\ relaying = {}
    /\ relayCount = 0 /\ rejections = [r \in Reasons |-> 0]
    /\ recorded = << >> /\ approved = << >>

-----------------------------------------------------------------------------
(***************************************************************************)
(* The filters between the duplicate check and the rate limiter, in the    *)
(* code's order; "none" when the packet passes them all.                   *)
(***************************************************************************)
StaticRejection(p) ==
    IF p.hop_limit <= 0 THEN "no_hops_remaining"
    ELSE IF LocalNode # NoNode /\ p.dest = LocalNode /\ p.dest \notin Broadcasts
         THEN "dest_local"
    ELSE IF p.ptype \notin RelayWorthyTypes THEN "non_relayable_type"
    ELSE IF p.rssi = NoSignal THEN "none"
    ELSE IF p.rssi > MaxRssi THEN "signal_too_strong"
    ELSE IF p.rssi < MinRssi THEN "signal_too_weak"
    ELSE "none"

Reject(reason) ==
    /\ rejections' = [rejections EXCEPT ![reason] = @ + 1]
    /\ UNCHANGED << relaying, relayCount, approved >>

(* evaluate() past the enabled test: the filter records the key before any *)
(* other test is made, and keeps it whatever they say.                     *)
Fresh(p) == ~ Knows(EvictExpired(seen, now), p.key)

Record(p) ==
    /\ seen' = Insert(EvictExpired(seen, now), p.key, now)
    /\ recorded' = Append(recorded, [key |-> p.key, at |-> now])

RejectDisabled(p) ==
    /\ ~ enabled
    /\ Reject("relay_disabled")
    /\ UNCHANGED << seen, timestamps, recorded >>

RejectDuplicate(p) ==
    /\ enabled /\ ~ Fresh(p)
    /\ seen' = EvictExpired(seen, now)
    /\ Reject("duplicate")
    /\ UNCHANGED << timestamps, recorded >>

RejectStatic(p) ==
    /\ enabled /\ Fresh(p)
    /\ StaticRejection(p) # "none"
    /\ Record(p)
    /\ Reject(StaticRejection(p))
    /\ UNCHANGED timestamps

RejectRateLimited(p) ==
    /\ enabled /\ Fresh(p)
    /\ StaticRejection(p) = "none"
    /\ ~ Allows(Prune(timestamps, now), now)
    /\ Record(p)
    /\ timestamps' = Prune(timestamps, now)
    /\ Reject("rate_limited")

Approve(p) ==
    /\ enabled /\ Fresh(p)
    /\ StaticRejection(p) = "none"
    /\ Allows(Prune(timestamps, now), now)
    /\ Record(p)
    /\ timestamps' = Append(Prune(timestamps, now), now)
    /\ approved' = Append(approved, [key |-> p.key, at |-> now, nth |-> Len(recorded) + 1])
    /\ relaying' = {p}
    /\ UNCHANGED << relayCount, rejections >>

(* process_packet() up to its first await.                                 *)
ProcessPacket(p) ==
    /\ relaying = {}
    /\ \/ RejectDisabled(p)
       \/ RejectDuplicate(p)
       \/ RejectStatic(p)
       \/ RejectRateLimited(p)
       \/ Approve(p)
    /\ UNCHANGED << now, enabled >>

(* _relay() returns: transmitted, failed (the exception is swallowed) or   *)
(* without a transmit function at all.  All three are counted.             *)
RelayReturns ==
    /\ relaying # {}
    /\ relaying' = {}
    /\ relayCount' = relayCount + 1
    /\ UNCHANGED << now, enabled, seen, timestamps, rejections, recorded, approved >>

SetEnabled(value) ==
    /\ enabled # value
    /\ enabled' = value
    /\ UNCHANGED << now, seen, timestamps, relaying, relayCount, rejections,
                    recorded, approved >>

(* get_stats() reads current_rate and remaining_capacity, which prune.     *)
GetStats ==
    /\ timestamps' = Prune(timestamps, now)
    /\ UNCHANGED << now, enabled, seen, relaying, relayCount, rejections,
                    recorded, approved >>

Tick ==
    /\ now < MaxTime
    /\ now' = now + 1
    /\ UNCHANGED << enabled, seen, timestamps, relaying, relayCount, rejections,
                    recorded, approved >>

(* Packets evaluated so far; each ends in a rejection or an approval.      *)
Evaluated == Len(recorded) + rejections["relay_disabled"] + rejections["duplicate"]

Next ==
    \/ Evaluated < MaxPackets /\ \E p \in Heard : ProcessPacket(p)
    \/ RelayReturns
    \/ \E value \in BOOLEAN : SetEnabled(value)
    \/ GetStats
    \/ Tick

Spec == Init /\ [][Next]_vars

-----------------------------------------------------------------------------
TypeOK ==
    /\ now \in Nat
    /\ enabled \in BOOLEAN
    /\ seen \in Seq(Entry)
    /\ timestamps \in Seq(Nat)
    /\ relaying \in SUBSET Heard
    /\ relayCount \in Nat
    /\ rejections \in [Reasons -> Nat]
    /\ recorded \in Seq(Entry)
    /\ approved \in Seq(Approval)

(***************************************************************************)
(* Flood prevention over every window, not only the one that ends now: any *)
(* MaxPerMinute + 1 consecutive approvals span more than the window, even  *)
(* when statistics requests prune the deque in between.                    *)
(***************************************************************************)
RateRespected ==
    \A i \in 1 .. Len(approved) - MaxPerMinute :
        approved[i + MaxPerMinute].at - approved[i].at > WindowSeconds

(* Likewise BurstSize + 1 consecutive approvals span at least BurstSeconds. *)
BurstRespected ==
    \A i \in 1 .. Len(approved) - BurstSize :
        approved[i + BurstSize].at - approved[i].at >= BurstSeconds

(***************************************************************************)
(* No relay loop: a packet is approved again only after its TTL has run    *)
(* out, or after MaxEntries other packets have gone through the filter in  *)
(* between and pushed its entry out of the cache.                          *)
(***************************************************************************)
NoRelayLoop ==
    \A i, j \in DOMAIN approved :
        i < j /\ approved[i].key = approved[j].key
        => \/ approved[j].at - approved[i].at >= TtlSeconds
           \/ approved[j].nth - approved[i].nth > MaxEntries

(***************************************************************************)
(* The bookkeeping behind these three.  Both deques are suffixes of what   *)
(* went into them, in time order: the limiter has dropped only timestamps  *)
(* that left the window, the filter only entries that expired or were      *)
(* pushed out by MaxEntries later ones, and it never holds two entries for *)
(* one packet nor more than MaxEntries entries.                            *)
(***************************************************************************)
LimiterTracks(ts, ap, t) ==
    /\ Len(ts) <= Len(ap)
    /\ \A i \in 1 .. Len(ts) : ts[i] = ap[Len(ap) - Len(ts) + i].at
    /\ \A i \in 1 .. Len(ap) - Len(ts) : ap[i].at < t - WindowSeconds
    /\ \A i \in 1 .. Len(ap) : ap[i].at <= t
    /\ \A i, j \in 1 .. Len(ap) : i <= j => ap[i].at <= ap[j].at

FilterTracks(sn, rec, t) ==
    /\ Len(sn) <= Len(rec) /\ Len(sn) <= MaxEntries
    /\ \A i \in 1 .. Len(sn) : sn[i] = rec[Len(rec) - Len(sn) + i]
    /\ \A i \in 1 .. Len(rec) - Len(sn) :
          rec[i].at <= t - TtlSeconds \/ Len(rec) - i >= MaxEntries
    /\ \A i \in 1 .. Len(rec) : rec[i].at <= t
    /\ \A i, j \in 1 .. Len(rec) : i <= j => rec[i].at <= rec[j].at
    /\ \A i, j \in 1 .. Len(sn) : i < j => sn[i].key # sn[j].key

CacheSound ==
    /\ LimiterTracks(timestamps, approved, now)
    /\ FilterTracks(seen, recorded, now)

(* What the filter guarantees of the packets it lets through, and that     *)
(* every approval is one of them.                                          *)
RecordedApart ==
    \A i, j \in 1 .. Len(recorded) :
        i < j /\ recorded[i].key = recorded[j].key
        => \/ recorded[j].at - recorded[i].at >= TtlSeconds
           \/ j - i > MaxEntries

ApprovalsRecorded ==
    /\ \A i \in 1 .. Len(approved) :
          /\ approved[i].nth \in 1 .. Len(recorded)
          /\ recorded[approved[i].nth].key = approved[i].key
          /\ recorded[approved[i].nth].at = approved[i].at
    /\ \A i, j \in 1 .. Len(approved) : i < j => approved[i].nth < approved[j].nth

Inv ==
    /\ TypeOK
    /\ CacheSound
    /\ RecordedApart
    /\ ApprovalsRecorded
    /\ RateRespected
    /\ BurstRespected

-----------------------------------------------------------------------------
(* The instance TLC checks: the configured thresholds, and any packet with *)
(* or without hops left, on either side of a threshold or without signal.  *)
DefaultMinRssi == -110
DefaultMaxRssi == -50

AnyHeard ==
    [ key : Keys, hop_limit : {0, 1}, dest : Dests, ptype : Types,
      rssi : {MinRssi - 1, MaxRssi, MaxRssi + 1, NoSignal} ]

KeySymmetry == Permutations(Keys)
=============================================================================
