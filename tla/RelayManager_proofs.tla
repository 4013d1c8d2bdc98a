------------------------- MODULE RelayManager_proofs -------------------------
(***************************************************************************)
(* Proofs about RelayManager, for every value of its constants. The        *)
(* argument is one inductive invariant, Inv: each of the two deques is a   *)
(* suffix of a history that is never pruned, and what is missing from it   *)
(* is too old (or too deep) to matter. Rate, burst and loop prevention are *)
(* then statements about the histories alone.                              *)
(***************************************************************************)
EXTENDS NativeRelay, TLAPS, WellFoundedInduction, FiniteSetTheorems

(* Every non-empty set of naturals has a least element: the loops of       *)
(* _prune() and _evict_expired() stop somewhere.                           *)
LEMMA LeastNat ==
  ASSUME NEW T \in SUBSET Nat, T # {}
  PROVE  \E m \in T : \A k \in T : m <= k
<1> DEFINE Less == {ss \in Nat \X Nat : ss[1] < ss[2]}
<1>1. IsWellFoundedOn(Less, Nat)
  BY NatLessThanWellFounded DEF OpToRel
<1> HIDE DEF Less
<1>2. PICK m \in T : \A k \in T : ~ (<<k, m>> \in Less)
  BY <1>1, WFMin
<1>3. ASSUME NEW k \in T, k < m PROVE FALSE
  <2>1. <<k, m>> \in Nat \X Nat /\ <<k, m>>[1] < <<k, m>>[2]
    BY <1>3
  <2>2. <<k, m>> \in Less
    BY <2>1 DEF Less
  <2>3. QED
    BY <2>2, <1>2
<1>4. QED
  BY <1>3

(* A loop that pops from the left while a test holds removes exactly the   *)
(* longest prefix that satisfies it: the number of pops exists.            *)
LEMMA FirstOutside ==
  ASSUME NEW n \in Nat, NEW S
  PROVE  \E m \in 0 .. n : /\ \A i \in 1 .. m : i \in S
                           /\ m < n => m + 1 \notin S
<1> DEFINE T == {m \in 0 .. n : m = n \/ m + 1 \notin S}
<1>1. PICK m \in T : \A k \in T : m <= k
  <2>1. T \in SUBSET Nat /\ n \in T
    OBVIOUS
  <2>2. QED
    BY <2>1, LeastNat
<1>2. ASSUME NEW i \in 1 .. m PROVE i \in S
  <2>1. i - 1 \in 0 .. n /\ i - 1 < m
    OBVIOUS
  <2>2. QED
    BY <2>1, <1>1
<1>3. QED
  BY <1>1, <1>2

-----------------------------------------------------------------------------
(* What is left of a deque after n pops from the left.                     *)
LEMMA SuffixFacts ==
  ASSUME NEW T, NEW s \in Seq(T), NEW n \in 0 .. Len(s)
  PROVE  /\ SubSeq(s, n + 1, Len(s)) \in Seq(T)
         /\ Len(SubSeq(s, n + 1, Len(s))) = Len(s) - n
         /\ \A i \in 1 .. Len(s) - n : SubSeq(s, n + 1, Len(s))[i] = s[n + i]
OBVIOUS

(* RateLimiter._prune(): the result is a suffix of the deque, everything   *)
(* before it is stale, and its first timestamp is not.                     *)
LEMMA PruneFacts ==
  ASSUME NEW ts \in Seq(Nat), NEW t \in Nat
  PROVE  \E n \in 0 .. Len(ts) :
            /\ Prune(ts, t) \in Seq(Nat)
            /\ Len(Prune(ts, t)) = Len(ts) - n
            /\ \A i \in 1 .. Len(ts) - n : Prune(ts, t)[i] = ts[n + i]
            /\ \A i \in 1 .. n : ts[i] < t - WindowSeconds
            /\ n < Len(ts) => ts[n + 1] >= t - WindowSeconds
<1> DEFINE cutoff == t - WindowSeconds
<1> DEFINE S == {i \in 1 .. Len(ts) : Stale(ts[i], cutoff)}
<1> DEFINE Good(n) == /\ \A i \in 1 .. n : Stale(ts[i], cutoff)
                      /\ n < Len(ts) => ~ Stale(ts[n + 1], cutoff)
<1> DEFINE n == StaleCount(ts, cutoff)
<1>1. \E m \in 0 .. Len(ts) : Good(m)
  <2>1. PICK m \in 0 .. Len(ts) : /\ \A i \in 1 .. m : i \in S
                                  /\ m < Len(ts) => m + 1 \notin S
    <3> HIDE DEF S
    <3>1. Len(ts) \in Nat
      OBVIOUS
    <3>2. QED
      BY <3>1, FirstOutside
  <2>2. Good(m)
    BY <2>1
  <2>3. QED
    BY <2>2
<1>2. n \in 0 .. Len(ts) /\ Good(n)
  BY <1>1 DEF StaleCount
<1>3. /\ \A i \in 1 .. n : ts[i] < cutoff
      /\ n < Len(ts) => ts[n + 1] >= cutoff
  BY <1>2, LimiterAssumption DEF Stale
<1>4. Prune(ts, t) = SubSeq(ts, n + 1, Len(ts))
  BY DEF Prune
<1> HIDE DEF n
<1>5. /\ SubSeq(ts, n + 1, Len(ts)) \in Seq(Nat)
      /\ Len(SubSeq(ts, n + 1, Len(ts))) = Len(ts) - n
      /\ \A i \in 1 .. Len(ts) - n : SubSeq(ts, n + 1, Len(ts))[i] = ts[n + i]
  BY <1>2, SuffixFacts
<1>6. QED
  BY <1>2, <1>3, <1>4, <1>5

(* DeduplicationFilter._evict_expired(): the result is a suffix of the     *)
(* cache, everything before it has expired, and its first entry has not.   *)
LEMMA EvictFacts ==
  ASSUME NEW sn \in Seq(Entry), NEW t \in Nat
  PROVE  \E n \in 0 .. Len(sn) :
            /\ EvictExpired(sn, t) \in Seq(Entry)
            /\ Len(EvictExpired(sn, t)) = Len(sn) - n
            /\ \A i \in 1 .. Len(sn) - n : EvictExpired(sn, t)[i] = sn[n + i]
            /\ \A i \in 1 .. n : sn[i].at <= t - TtlSeconds
            /\ n < Len(sn) => sn[n + 1].at > t - TtlSeconds
<1> DEFINE cutoff == t - TtlSeconds
<1> DEFINE S == {i \in 1 .. Len(sn) : Expired(sn[i], cutoff)}
<1> DEFINE Good(n) == /\ \A i \in 1 .. n : Expired(sn[i], cutoff)
                      /\ n < Len(sn) => ~ Expired(sn[n + 1], cutoff)
<1> DEFINE n == ExpiredCount(sn, cutoff)
<1>1. \E m \in 0 .. Len(sn) : Good(m)
  <2>1. PICK m \in 0 .. Len(sn) : /\ \A i \in 1 .. m : i \in S
                                  /\ m < Len(sn) => m + 1 \notin S
    <3> HIDE DEF S
    <3>1. Len(sn) \in Nat
      OBVIOUS
    <3>2. QED
      BY <3>1, FirstOutside
  <2>2. Good(m)
    BY <2>1
  <2>3. QED
    BY <2>2
<1>2. n \in 0 .. Len(sn) /\ Good(n)
  BY <1>1 DEF ExpiredCount
<1>3. /\ \A i \in 1 .. n : sn[i].at <= cutoff
      /\ n < Len(sn) => sn[n + 1].at > cutoff
  <2>1. \A i \in 1 .. Len(sn) : sn[i].at \in Nat
    <3>1. TAKE i \in 1 .. Len(sn)
    <3>2. sn[i] \in Entry
      OBVIOUS
    <3>3. QED
      BY <3>2 DEF Entry
  <2> HIDE DEF n
  <2>2. cutoff \in Int
    BY DedupAssumption
  <2>3. QED
    BY <1>2, <2>1, <2>2 DEF Expired
<1>4. EvictExpired(sn, t) = SubSeq(sn, n + 1, Len(sn))
  BY DEF EvictExpired
<1> HIDE DEF n
<1>5. /\ SubSeq(sn, n + 1, Len(sn)) \in Seq(Entry)
      /\ Len(SubSeq(sn, n + 1, Len(sn))) = Len(sn) - n
      /\ \A i \in 1 .. Len(sn) - n : SubSeq(sn, n + 1, Len(sn))[i] = sn[n + i]
  BY <1>2, SuffixFacts
<1>6. QED
  BY <1>2, <1>3, <1>4, <1>5

-----------------------------------------------------------------------------
(* is_duplicate() on a new key: the cache gains the entry at its end, and  *)
(* loses its oldest one exactly when it was full.                          *)
LEMMA InsertFacts ==
  ASSUME NEW sn \in Seq(Entry), NEW k \in Keys, NEW t \in Nat,
         Len(sn) <= MaxEntries
  PROVE  \E n \in 0 .. 1 :
            /\ Insert(sn, k, t) \in Seq(Entry)
            /\ n = 1 <=> Len(sn) = MaxEntries
            /\ Len(Insert(sn, k, t)) = Len(sn) + 1 - n
            /\ \A i \in 1 .. Len(sn) - n : Insert(sn, k, t)[i] = sn[n + i]
            /\ Insert(sn, k, t)[Len(sn) + 1 - n] = [key |-> k, at |-> t]
<1> DEFINE e == [key |-> k, at |-> t]
<1> DEFINE long == Append(sn, e)
<1> DEFINE n == IF Len(long) > MaxEntries THEN 1 ELSE 0
<1>1. e \in Entry
  BY DEF Entry
<1> HIDE DEF e
<1>2. /\ long \in Seq(Entry) /\ Len(long) = Len(sn) + 1
      /\ \A i \in 1 .. Len(sn) : long[i] = sn[i]
      /\ long[Len(sn) + 1] = e
  BY <1>1
<1>3. /\ Insert(sn, k, t) = SubSeq(long, n + 1, Len(long))
      /\ n \in 0 .. 1 /\ n \in 0 .. Len(long)
      /\ n = 1 <=> Len(sn) = MaxEntries
  BY <1>2, DedupAssumption DEF Insert, EnforceMaxSize, e
<1> HIDE DEF n, long
<1> DEFINE short == SubSeq(long, n + 1, Len(long))
<1>4. /\ short \in Seq(Entry)
      /\ Len(short) = Len(long) - n
      /\ \A i \in 1 .. Len(long) - n : short[i] = long[n + i]
  <2>1. long \in Seq(Entry) /\ n \in 0 .. Len(long)
    BY <1>2, <1>3
  <2>2. QED
    BY <2>1, SuffixFacts
<1> HIDE DEF short
<1>5. /\ Len(short) = Len(sn) + 1 - n
      /\ \A i \in 1 .. Len(sn) - n : short[i] = sn[n + i]
      /\ short[Len(sn) + 1 - n] = e
  <2>1. Len(sn) \in Nat
    OBVIOUS
  <2>2. ASSUME NEW i \in 1 .. Len(sn) - n PROVE short[i] = sn[n + i]
    <3>1. Len(long) = Len(sn) + 1 /\ n \in Int /\ 0 <= n
      BY <1>2, <1>3
    <3>2. i \in 1 .. Len(long) - n /\ n + i \in 1 .. Len(sn)
      BY <3>1, <2>1
    <3>3. QED
      BY <3>2, <1>2, <1>4
  <2>3. n + (Len(sn) + 1 - n) = Len(sn) + 1 /\ Len(sn) + 1 - n \in 1 .. Len(long) - n
    BY <2>1, <1>2, <1>3, DedupAssumption
  <2>4. short[Len(sn) + 1 - n] = e
    BY <2>3, <1>2, <1>4
  <2>5. Len(short) = Len(sn) + 1 - n
    BY <2>1, <1>2, <1>3, <1>4
  <2>6. QED
    BY <2>2, <2>4, <2>5
<1>6. Insert(sn, k, t) = short
  BY <1>3 DEF short
<1>7. QED
  BY <1>3, <1>4, <1>5, <1>6 DEF e

(* The limiter's deque and its history: pruning drops only timestamps that *)
(* have left the window.                                                   *)
LEMMA PruneKeepsTracking ==
  ASSUME NEW ts \in Seq(Nat), NEW ap \in Seq(Approval), NEW t \in Nat,
         LimiterTracks(ts, ap, t)
  PROVE  LimiterTracks(Prune(ts, t), ap, t)
<1>1. PICK n \in 0 .. Len(ts) :
            /\ Prune(ts, t) \in Seq(Nat)
            /\ Len(Prune(ts, t)) = Len(ts) - n
            /\ \A i \in 1 .. Len(ts) - n : Prune(ts, t)[i] = ts[n + i]
            /\ \A i \in 1 .. n : ts[i] < t - WindowSeconds
  BY PruneFacts
<1> DEFINE new == Prune(ts, t)
<1> HIDE DEF new
<1>2. /\ new \in Seq(Nat)
      /\ Len(new) = Len(ts) - n
      /\ \A i \in 1 .. Len(ts) - n : new[i] = ts[n + i]
  BY <1>1 DEF new
<1>3. Len(ap) \in Nat /\ Len(ts) \in Nat /\ Len(new) \in Nat
  BY <1>2
<1>4. \A i \in 1 .. Len(new) : new[i] = ap[Len(ap) - Len(new) + i].at
  <2>1. TAKE i \in 1 .. Len(new)
  <2>2. n + i \in 1 .. Len(ts) /\ new[i] = ts[n + i]
    BY <1>2, <1>3
  <2>3. ts[n + i] = ap[Len(ap) - Len(ts) + (n + i)].at
    BY <2>2 DEF LimiterTracks
  <2>4. Len(ap) - Len(ts) + (n + i) = Len(ap) - Len(new) + i
    BY <1>2, <1>3
  <2>5. QED
    BY <2>2, <2>3, <2>4
<1>5. \A i \in 1 .. Len(ap) - Len(new) : ap[i].at < t - WindowSeconds
  <2>1. TAKE i \in 1 .. Len(ap) - Len(new)
  <2>2. CASE i <= Len(ap) - Len(ts)
    <3>1. i \in 1 .. Len(ap) - Len(ts)
      BY <2>2, <1>3
    <3>2. QED
      BY <3>1 DEF LimiterTracks
  <2>3. CASE i > Len(ap) - Len(ts)
    <3>1. i - (Len(ap) - Len(ts)) \in 1 .. n
      BY <2>3, <1>2, <1>3 DEF LimiterTracks
    <3>2. ts[i - (Len(ap) - Len(ts))] = ap[i].at
      BY <3>1, <1>3 DEF LimiterTracks
    <3>3. QED
      BY <3>1, <3>2, <1>1
  <2>4. QED
    BY <2>2, <2>3, <1>3
<1>6. LimiterTracks(new, ap, t)
  BY <1>2, <1>3, <1>4, <1>5 DEF LimiterTracks
<1>7. QED
  BY <1>6 DEF new

(* allow() appends the time of the approval to the deque and the history   *)
(* together, so the deque stays a suffix of the history.                   *)
LEMMA AppendKeepsTracking ==
  ASSUME NEW ts \in Seq(Nat), NEW ap \in Seq(Approval), NEW t \in Nat,
         LimiterTracks(ts, ap, t),
         NEW e \in Approval, e.at = t
  PROVE  LimiterTracks(Append(ts, t), Append(ap, e), t)
<1> DEFINE ts2 == Append(ts, t)
<1> DEFINE ap2 == Append(ap, e)
<1>1. /\ Len(ts) \in Nat /\ Len(ap) \in Nat /\ Len(ts) <= Len(ap)
      /\ ts2 \in Seq(Nat) /\ ap2 \in Seq(Approval)
      /\ Len(ts2) = Len(ts) + 1 /\ Len(ap2) = Len(ap) + 1
      /\ \A i \in 1 .. Len(ts) : ts2[i] = ts[i]
      /\ \A i \in 1 .. Len(ap) : ap2[i] = ap[i]
      /\ ts2[Len(ts) + 1] = t /\ ap2[Len(ap) + 1] = e
  BY DEF LimiterTracks
<1> HIDE DEF ts2, ap2
<1>2. \A i \in 1 .. Len(ts2) : ts2[i] = ap2[Len(ap2) - Len(ts2) + i].at
  <2>1. TAKE i \in 1 .. Len(ts2)
  <2>2. Len(ap2) - Len(ts2) + i = Len(ap) - Len(ts) + i
    BY <1>1
  <2>3. CASE i \in 1 .. Len(ts)
    <3>1. Len(ap) - Len(ts) + i \in 1 .. Len(ap)
      BY <1>1, <2>3
    <3>2. ts[i] = ap[Len(ap) - Len(ts) + i].at
      BY <2>3 DEF LimiterTracks
    <3>3. QED
      BY <3>1, <3>2, <2>2, <2>3, <1>1
  <2>4. CASE i = Len(ts) + 1
    <3>1. Len(ap2) - Len(ts2) + i = Len(ap) + 1
      BY <1>1, <2>4
    <3>2. QED
      BY <3>1, <2>4, <1>1
  <2>5. QED
    BY <2>3, <2>4, <1>1
<1>3. \A i \in 1 .. Len(ap2) - Len(ts2) : ap2[i].at < t - WindowSeconds
  <2>1. TAKE i \in 1 .. Len(ap2) - Len(ts2)
  <2>2. i \in 1 .. Len(ap) - Len(ts) /\ i \in 1 .. Len(ap)
    BY <1>1
  <2>3. QED
    BY <2>2, <1>1 DEF LimiterTracks
<1>4. /\ \A i \in 1 .. Len(ap) : ap[i].at <= t
      /\ ap2[Len(ap) + 1].at = t
  BY <1>1 DEF LimiterTracks
<1>5. \A i \in 1 .. Len(ap2) : ap2[i].at <= t
  <2>1. TAKE i \in 1 .. Len(ap2)
  <2>2. CASE i \in 1 .. Len(ap)
    BY <2>2, <1>1, <1>4
  <2>3. CASE i = Len(ap) + 1
    BY <2>3, <1>4
  <2>4. QED
    BY <2>2, <2>3, <1>1
<1>6. \A i, j \in 1 .. Len(ap2) : i <= j => ap2[i].at <= ap2[j].at
  <2>1. SUFFICES ASSUME NEW i \in 1 .. Len(ap2), NEW j \in 1 .. Len(ap2), i <= j
                 PROVE  ap2[i].at <= ap2[j].at
    OBVIOUS
  <2>2. CASE j \in 1 .. Len(ap)
    <3>1. i \in 1 .. Len(ap) /\ ap2[i] = ap[i] /\ ap2[j] = ap[j]
      BY <2>1, <2>2, <1>1
    <3>2. ap[i].at <= ap[j].at
      BY <3>1, <2>1, <2>2 DEF LimiterTracks
    <3>3. QED
      BY <3>1, <3>2
  <2>3. CASE j = Len(ap) + 1
    BY <2>3, <1>4, <1>5
  <2>4. QED
    BY <2>2, <2>3, <1>1
<1>7. LimiterTracks(ts2, ap2, t)
  BY <1>1, <1>2, <1>3, <1>5, <1>6 DEF LimiterTracks
<1>8. QED
  BY <1>7 DEF ts2, ap2

(* What allow() ensures of an approval: the one MaxPerMinute approvals     *)
(* earlier is already outside the window.                                  *)
LEMMA WindowAtApproval ==
  ASSUME NEW ts \in Seq(Nat), NEW ap \in Seq(Approval), NEW t \in Nat,
         LimiterTracks(ts, ap, t), WithinWindow(ts, t),
         NEW i \in 1 .. Len(ap), i = Len(ap) + 1 - MaxPerMinute
  PROVE  t - ap[i].at > WindowSeconds
<1>1. Len(ts) \in Nat /\ Len(ap) \in Nat /\ ap[i] \in Approval
  OBVIOUS
<1>2. i \in 1 .. Len(ap) - Len(ts)
  BY <1>1, LimiterAssumption DEF WithinWindow, LimiterTracks
<1>3. ap[i].at \in Nat /\ ap[i].at < t - WindowSeconds
  BY <1>1, <1>2 DEF LimiterTracks, Approval
<1>4. QED
  BY <1>3, LimiterAssumption

(* Likewise for the burst test: the approval BurstSize earlier is at least *)
(* BurstSeconds old.                                                       *)
LEMMA BurstAtApproval ==
  ASSUME NEW ts \in Seq(Nat), NEW ap \in Seq(Approval), NEW t \in Nat,
         LimiterTracks(ts, ap, t), WithinBurst(ts, t),
         NEW i \in 1 .. Len(ap), i = Len(ap) + 1 - BurstSize
  PROVE  t - ap[i].at >= BurstSeconds
<1> DEFINE recent == {n \in DOMAIN ts : t - ts[n] < BurstSeconds}
<1> DEFINE d == Len(ap) - Len(ts)
<1>1. /\ Len(ts) \in Nat /\ Len(ap) \in Nat /\ Len(ts) <= Len(ap)
      /\ DOMAIN ts = 1 .. Len(ts)
  BY DEF LimiterTracks
<1>2. ap[i] \in Approval /\ ap[i].at \in Nat
  <2>1. ap[i] \in Approval
    OBVIOUS
  <2>2. QED
    BY <2>1 DEF Approval
<1>3. CASE i <= d
  <2>1. ap[i].at < t - WindowSeconds
    BY <1>1, <1>3 DEF LimiterTracks
  <2>2. QED
    BY <2>1, <1>2, LimiterAssumption
<1>4. CASE i > d
  <2>1. SUFFICES ASSUME t - ap[i].at < BurstSeconds PROVE FALSE
    BY <1>2, LimiterAssumption
  <2>2. \A n \in i - d .. Len(ts) : n \in recent
    <3>1. TAKE n \in i - d .. Len(ts)
    <3>2. n \in 1 .. Len(ts) /\ d + n \in 1 .. Len(ap) /\ i <= d + n
      BY <1>1, <1>4
    <3>3. ts[n] = ap[d + n].at /\ ap[i].at <= ap[d + n].at
      BY <3>2 DEF LimiterTracks
    <3>4. ts[n] \in Nat
      BY <3>2
    <3>5. t - ts[n] < BurstSeconds
      <4> DEFINE a == ap[i].at
      <4> DEFINE b == ts[n]
      <4>1. a \in Nat /\ b \in Nat /\ a <= b /\ t - a < BurstSeconds
        BY <2>1, <3>3, <3>4, <1>2
      <4>2. BurstSeconds \in Nat
        BY LimiterAssumption
      <4> HIDE DEF a, b
      <4>3. t - b < BurstSeconds
        BY <4>1, <4>2
      <4>4. QED
        BY <4>3 DEF b
    <3>6. QED
      BY <3>2, <3>5, <1>1
  <2>3. IsFiniteSet(recent) /\ Cardinality(recent) < BurstSize
    <3>1. IsFiniteSet(1 .. Len(ts))
      BY <1>1, FS_Interval
    <3>2. recent \in SUBSET (1 .. Len(ts))
      BY <1>1
    <3>3. IsFiniteSet(recent)
      BY <3>1, <3>2, FS_Subset
    <3>4. QED
      BY <3>3 DEF WithinBurst
  <2>4. Cardinality(i - d .. Len(ts)) = BurstSize
    <3>1. i - d \in Int /\ Len(ts) \in Int /\ Len(ts) - (i - d) + 1 = BurstSize
          /\ ~ (i - d > Len(ts))
      BY <1>1, LimiterAssumption
    <3>2. QED
      BY <3>1, FS_Interval
  <2>5. Cardinality(i - d .. Len(ts)) <= Cardinality(recent)
    <3>1. (i - d .. Len(ts)) \in SUBSET recent
      BY <2>2
    <3> HIDE DEF recent
    <3>2. QED
      BY <3>1, <2>3, FS_Subset
  <2>6. Cardinality(recent) \in Nat
    BY <2>3, FS_CardinalityType
  <2>7. QED
    BY <2>3, <2>4, <2>5, <2>6, LimiterAssumption
<1>5. QED
  BY <1>1, <1>3, <1>4

-----------------------------------------------------------------------------
(* The duplicate filter and its history: eviction drops only entries whose *)
(* TTL has run out.                                                        *)
LEMMA EvictKeepsTracking ==
  ASSUME NEW sn \in Seq(Entry), NEW rec \in Seq(Entry), NEW t \in Nat,
         FilterTracks(sn, rec, t)
  PROVE  FilterTracks(EvictExpired(sn, t), rec, t)
<1> DEFINE new == EvictExpired(sn, t)
<1>1. PICK n \in 0 .. Len(sn) :
            /\ new \in Seq(Entry)
            /\ Len(new) = Len(sn) - n
            /\ \A i \in 1 .. Len(sn) - n : new[i] = sn[n + i]
            /\ \A i \in 1 .. n : sn[i].at <= t - TtlSeconds
  BY EvictFacts
<1> HIDE DEF new
<1>2. /\ Len(rec) \in Nat /\ Len(sn) \in Nat /\ Len(new) \in Nat
      /\ Len(new) <= Len(sn) /\ Len(sn) <= Len(rec)
      /\ Len(new) <= Len(rec) /\ Len(new) <= MaxEntries
  BY <1>1, DedupAssumption DEF FilterTracks
<1>3. \A i \in 1 .. Len(new) : n + i \in 1 .. Len(sn) /\ new[i] = sn[n + i]
  <2>1. TAKE i \in 1 .. Len(new)
  <2>2. n \in 0 .. Len(sn) /\ Len(new) = Len(sn) - n
    BY <1>1
  <2>3. n + i \in 1 .. Len(sn) /\ i \in 1 .. Len(sn) - n
    BY <2>2, <1>2
  <2>4. QED
    BY <2>3, <1>1
<1>4. \A i \in 1 .. Len(new) : new[i] = rec[Len(rec) - Len(new) + i]
  <2>1. TAKE i \in 1 .. Len(new)
  <2>2. sn[n + i] = rec[Len(rec) - Len(sn) + (n + i)]
    BY <1>3 DEF FilterTracks
  <2>3. Len(rec) - Len(sn) + (n + i) = Len(rec) - Len(new) + i
    BY <1>1, <1>2
  <2>4. QED
    BY <2>2, <2>3, <1>3
<1>5. \A i \in 1 .. Len(rec) - Len(new) :
          rec[i].at <= t - TtlSeconds \/ Len(rec) - i >= MaxEntries
  <2>1. TAKE i \in 1 .. Len(rec) - Len(new)
  <2>2. CASE i <= Len(rec) - Len(sn)
    BY <2>2, <1>2 DEF FilterTracks
  <2>3. CASE i > Len(rec) - Len(sn)
    <3>1. i - (Len(rec) - Len(sn)) \in 1 .. n
      BY <2>3, <1>1, <1>2
    <3>2. sn[i - (Len(rec) - Len(sn))] = rec[i]
      BY <3>1, <1>2 DEF FilterTracks
    <3>3. QED
      BY <3>1, <3>2, <1>1
  <2>4. QED
    BY <2>2, <2>3, <1>2
<1>6. \A i, j \in 1 .. Len(new) : i < j => new[i].key # new[j].key
  <2>1. SUFFICES ASSUME NEW i \in 1 .. Len(new), NEW j \in 1 .. Len(new), i < j
                 PROVE  new[i].key # new[j].key
    OBVIOUS
  <2>2. n + i < n + j
    BY <2>1
  <2>3. sn[n + i].key # sn[n + j].key
    BY <2>2, <1>3 DEF FilterTracks
  <2>4. QED
    BY <2>3, <1>3
<1>7. FilterTracks(new, rec, t)
  BY <1>2, <1>4, <1>5, <1>6 DEF FilterTracks
<1>8. QED
  BY <1>7 DEF new

(* What is_duplicate() ensures of a packet it lets through: an earlier     *)
(* record of the same key has expired or was pushed out by MaxEntries      *)
(* later ones.                                                             *)
LEMMA ApartAtRecording ==
  ASSUME NEW sn \in Seq(Entry), NEW rec \in Seq(Entry), NEW t \in Nat,
         FilterTracks(sn, rec, t),
         NEW k \in Keys, ~ Knows(sn, k),
         NEW i \in 1 .. Len(rec), rec[i].key = k
  PROVE  t - rec[i].at >= TtlSeconds \/ Len(rec) + 1 - i > MaxEntries
<1>1. /\ Len(rec) \in Nat /\ Len(sn) \in Nat /\ Len(sn) <= Len(rec)
      /\ DOMAIN sn = 1 .. Len(sn)
  BY DEF FilterTracks
<1>2. rec[i] \in Entry /\ rec[i].at \in Nat
  <2>1. rec[i] \in Entry
    OBVIOUS
  <2>2. QED
    BY <2>1 DEF Entry
<1>3. i <= Len(rec) - Len(sn)
  <2>1. SUFFICES ASSUME i > Len(rec) - Len(sn) PROVE FALSE
    BY <1>1
  <2>2. i - (Len(rec) - Len(sn)) \in 1 .. Len(sn)
    BY <2>1, <1>1
  <2>3. sn[i - (Len(rec) - Len(sn))] = rec[i]
    BY <2>2, <1>1 DEF FilterTracks
  <2>4. QED
    BY <2>2, <2>3, <1>1 DEF Knows
<1>4. rec[i].at <= t - TtlSeconds \/ Len(rec) - i >= MaxEntries
  BY <1>1, <1>3 DEF FilterTracks
<1>5. QED
  BY <1>1, <1>2, <1>4, DedupAssumption

(* Recording a new key keeps the cache a duplicate-free suffix of the      *)
(* history, of at most MaxEntries entries.                                 *)
LEMMA InsertKeepsTracking ==
  ASSUME NEW sn \in Seq(Entry), NEW rec \in Seq(Entry), NEW t \in Nat,
         FilterTracks(sn, rec, t),
         NEW k \in Keys, ~ Knows(sn, k)
  PROVE  FilterTracks(Insert(sn, k, t), Append(rec, [key |-> k, at |-> t]), t)
<1> DEFINE e == [key |-> k, at |-> t]
<1> DEFINE new == Insert(sn, k, t)
<1> DEFINE rec2 == Append(rec, e)
<1>1. Len(sn) <= MaxEntries
  BY DEF FilterTracks
<1>2. PICK n \in 0 .. 1 :
            /\ new \in Seq(Entry)
            /\ n = 1 <=> Len(sn) = MaxEntries
            /\ Len(new) = Len(sn) + 1 - n
            /\ \A i \in 1 .. Len(sn) - n : new[i] = sn[n + i]
            /\ new[Len(sn) + 1 - n] = e
  BY <1>1, InsertFacts
<1>3. e \in Entry /\ e.at = t /\ e.key = k
  BY DEF Entry
<1> HIDE DEF new, e
<1>4. /\ Len(rec) \in Nat /\ Len(sn) \in Nat /\ Len(new) \in Nat
      /\ Len(sn) <= Len(rec) /\ MaxEntries \in Nat /\ MaxEntries > 0
  BY <1>2, DedupAssumption DEF FilterTracks
<1>n. /\ n \in Int /\ 0 <= n /\ n <= 1
      /\ n = 1 <=> Len(sn) = MaxEntries
      /\ Len(new) = Len(sn) + 1 - n
  BY <1>2
<1>5. /\ rec2 \in Seq(Entry)
      /\ Len(rec2) = Len(rec) + 1
      /\ \A i \in 1 .. Len(rec) : rec2[i] = rec[i]
      /\ rec2[Len(rec) + 1] = e
  BY <1>3
<1> HIDE DEF rec2
<1>r. Len(rec2) = Len(rec) + 1
  BY <1>5
<1>6. Len(new) <= Len(rec2) /\ Len(new) <= MaxEntries
  BY <1>1, <1>n, <1>4, <1>r
<1>7. \A i \in 1 .. Len(new) : new[i] = rec2[Len(rec2) - Len(new) + i]
  <2>1. TAKE i \in 1 .. Len(new)
  <2>2. CASE i = Len(sn) + 1 - n
    <3>1. Len(rec2) - Len(new) + i = Len(rec) + 1
      BY <2>2, <1>n, <1>4, <1>r
    <3>2. QED
      BY <2>2, <3>1, <1>2, <1>5
  <2>3. CASE i # Len(sn) + 1 - n
    <3>1. i \in 1 .. Len(sn) - n /\ n + i \in 1 .. Len(sn)
      BY <2>3, <1>n, <1>4
    <3>2. new[i] = sn[n + i] /\ sn[n + i] = rec[Len(rec) - Len(sn) + (n + i)]
      BY <3>1, <1>2 DEF FilterTracks
    <3>3. /\ Len(rec) - Len(sn) + (n + i) \in 1 .. Len(rec)
          /\ Len(rec2) - Len(new) + i = Len(rec) - Len(sn) + (n + i)
      BY <3>1, <1>n, <1>4, <1>r
    <3>4. QED
      BY <3>2, <3>3, <1>5
  <2>4. QED
    BY <2>2, <2>3
<1>8. \A i \in 1 .. Len(rec2) - Len(new) :
          rec2[i].at <= t - TtlSeconds \/ Len(rec2) - i >= MaxEntries
  <2>1. TAKE i \in 1 .. Len(rec2) - Len(new)
  <2>i. i \in 1 .. Len(rec)
    BY <1>n, <1>4, <1>r
  <2>2. i \in 1 .. Len(rec) /\ rec2[i] = rec[i]
    BY <2>i, <1>5
  <2>3. CASE i <= Len(rec) - Len(sn)
    <3>1. rec[i].at <= t - TtlSeconds \/ Len(rec) - i >= MaxEntries
      BY <2>3, <1>4 DEF FilterTracks
    <3>2. QED
      BY <3>1, <2>2, <1>4, <1>r
  <2>4. CASE i > Len(rec) - Len(sn)
    BY <2>4, <1>n, <1>4, <1>r
  <2>5. QED
    BY <2>3, <2>4, <1>4
<1>9. \A i \in 1 .. Len(rec) : rec[i].at <= t
  BY DEF FilterTracks
<1>10. \A i \in 1 .. Len(rec2) : rec2[i].at <= t
  <2>1. TAKE i \in 1 .. Len(rec2)
  <2>2. CASE i \in 1 .. Len(rec)
    BY <2>2, <1>5, <1>9
  <2>3. CASE i = Len(rec) + 1
    BY <2>3, <1>3, <1>5
  <2>4. QED
    BY <2>2, <2>3, <1>4, <1>5
<1>11. \A i, j \in 1 .. Len(rec2) : i <= j => rec2[i].at <= rec2[j].at
  <2>1. SUFFICES ASSUME NEW i \in 1 .. Len(rec2), NEW j \in 1 .. Len(rec2), i <= j
                 PROVE  rec2[i].at <= rec2[j].at
    OBVIOUS
  <2>2. CASE j \in 1 .. Len(rec)
    <3>1. i \in 1 .. Len(rec) /\ rec2[i] = rec[i] /\ rec2[j] = rec[j]
      BY <2>1, <2>2, <1>4, <1>5
    <3>2. rec[i].at <= rec[j].at
      BY <3>1, <2>1, <2>2 DEF FilterTracks
    <3>3. QED
      BY <3>1, <3>2
  <2>3. CASE j = Len(rec) + 1
    <3>1. rec2[j].at = t
      BY <2>3, <1>3, <1>5
    <3>2. QED
      BY <3>1, <1>10
  <2>4. QED
    BY <2>2, <2>3, <1>4, <1>5
<1>12. \A i, j \in 1 .. Len(new) : i < j => new[i].key # new[j].key
  <2>1. SUFFICES ASSUME NEW i \in 1 .. Len(new), NEW j \in 1 .. Len(new), i < j
                 PROVE  new[i].key # new[j].key
    OBVIOUS
  <2>i. i \in 1 .. Len(sn) - n /\ n + i \in 1 .. Len(sn)
    BY <2>1, <1>n, <1>4
  <2>2. i \in 1 .. Len(sn) - n /\ n + i \in 1 .. Len(sn) /\ new[i] = sn[n + i]
    BY <2>i, <1>2
  <2>3. CASE j = Len(sn) + 1 - n
    <3>1. new[j].key = k
      BY <2>3, <1>2, <1>3
    <3>2. sn[n + i].key # k
      <4>1. n + i \in DOMAIN sn
        BY <2>2
      <4>2. QED
        BY <4>1 DEF Knows
    <3>3. QED
      BY <3>1, <3>2, <2>2
  <2>4. CASE j # Len(sn) + 1 - n
    <3>j. j \in 1 .. Len(sn) - n /\ n + j \in 1 .. Len(sn) /\ n + i < n + j
      BY <2>1, <2>4, <1>n, <1>4
    <3>1. n + j \in 1 .. Len(sn) /\ new[j] = sn[n + j] /\ n + i < n + j
      BY <3>j, <1>2
    <3>2. sn[n + i].key # sn[n + j].key
      BY <2>2, <3>1 DEF FilterTracks
    <3>3. QED
      BY <3>1, <3>2, <2>2
  <2>5. QED
    BY <2>3, <2>4
<1>13. FilterTracks(new, rec2, t)
  BY <1>6, <1>7, <1>8, <1>10, <1>11, <1>12 DEF FilterTracks
<1>14. QED
  BY <1>13 DEF new, rec2, e

-----------------------------------------------------------------------------
(* The clock only loosens what the two deques may have dropped.            *)
LEMMA TrackingOverTime ==
  ASSUME NEW ts \in Seq(Nat), NEW ap \in Seq(Approval),
         NEW sn \in Seq(Entry), NEW rec \in Seq(Entry), NEW t \in Nat,
         NEW u \in Nat, t <= u,
         LimiterTracks(ts, ap, t), FilterTracks(sn, rec, t)
  PROVE  LimiterTracks(ts, ap, u) /\ FilterTracks(sn, rec, u)
<1>1. /\ \A i \in 1 .. Len(ap) : ap[i].at \in Nat
      /\ \A i \in 1 .. Len(rec) : rec[i].at \in Nat
  <2>1. ASSUME NEW i \in 1 .. Len(ap) PROVE ap[i].at \in Nat
    <3>1. ap[i] \in Approval
      OBVIOUS
    <3>2. QED
      BY <3>1 DEF Approval
  <2>2. ASSUME NEW i \in 1 .. Len(rec) PROVE rec[i].at \in Nat
    <3>1. rec[i] \in Entry
      OBVIOUS
    <3>2. QED
      BY <3>1 DEF Entry
  <2>3. QED
    BY <2>1, <2>2
<1>2. /\ Len(ts) \in Nat /\ Len(ap) \in Nat /\ Len(ts) <= Len(ap)
      /\ Len(sn) \in Nat /\ Len(rec) \in Nat /\ Len(sn) <= Len(rec)
  BY DEF LimiterTracks, FilterTracks
<1>3. LimiterTracks(ts, ap, u)
  <2>1. \A i \in 1 .. Len(ap) - Len(ts) : ap[i].at < u - WindowSeconds
    <3>1. TAKE i \in 1 .. Len(ap) - Len(ts)
    <3>2. i \in 1 .. Len(ap)
      BY <1>2
    <3>3. ap[i].at < t - WindowSeconds
      BY DEF LimiterTracks
    <3>4. QED
      BY <3>2, <3>3, <1>1, LimiterAssumption
  <2>2. \A i \in 1 .. Len(ap) : ap[i].at <= u
    BY <1>1 DEF LimiterTracks
  <2>3. /\ \A i \in 1 .. Len(ts) : ts[i] = ap[Len(ap) - Len(ts) + i].at
        /\ \A i, j \in 1 .. Len(ap) : i <= j => ap[i].at <= ap[j].at
    BY DEF LimiterTracks
  <2>4. QED
    BY <2>1, <2>2, <2>3, <1>2, Zenon DEF LimiterTracks
<1>4. FilterTracks(sn, rec, u)
  <2>1. \A i \in 1 .. Len(rec) - Len(sn) :
            rec[i].at <= u - TtlSeconds \/ Len(rec) - i >= MaxEntries
    <3>1. TAKE i \in 1 .. Len(rec) - Len(sn)
    <3>2. i \in 1 .. Len(rec)
      BY <1>2
    <3>3. rec[i].at <= t - TtlSeconds \/ Len(rec) - i >= MaxEntries
      BY DEF FilterTracks
    <3>4. QED
      BY <3>2, <3>3, <1>1, DedupAssumption
  <2>2. \A i \in 1 .. Len(rec) : rec[i].at <= u
    BY <1>1 DEF FilterTracks
  <2>3. /\ Len(sn) <= MaxEntries
        /\ \A i \in 1 .. Len(sn) : sn[i] = rec[Len(rec) - Len(sn) + i]
        /\ \A i, j \in 1 .. Len(rec) : i <= j => rec[i].at <= rec[j].at
        /\ \A i, j \in 1 .. Len(sn) : i < j => sn[i].key # sn[j].key
    BY DEF FilterTracks
  <2>4. QED
    BY <2>1, <2>2, <2>3, <1>2, Zenon DEF FilterTracks
<1>5. QED
  BY <1>3, <1>4

(* evaluate() past the enabled test: what Record(p) establishes, whatever  *)
(* the rest of the step does.                                              *)
LEMMA RecordStep ==
  ASSUME TypeOK, CacheSound, RecordedApart, ApprovalsRecorded,
         NEW p \in Heard, Fresh(p), Record(p)
  PROVE  /\ seen' \in Seq(Entry) /\ recorded' \in Seq(Entry)
         /\ Len(recorded') = Len(recorded) + 1
         /\ \A i \in 1 .. Len(recorded) : recorded'[i] = recorded[i]
         /\ recorded'[Len(recorded) + 1].key = p.key
         /\ recorded'[Len(recorded) + 1].at = now
         /\ FilterTracks(seen', recorded', now)
         /\ RecordedApart'
<1> DEFINE live == EvictExpired(seen, now)
<1> DEFINE e == [key |-> p.key, at |-> now]
<1>1. /\ seen \in Seq(Entry) /\ recorded \in Seq(Entry) /\ now \in Nat
      /\ p.key \in Keys
  <2>1. p \in Packet
    BY RelayAssumption
  <2>2. p.key \in Keys
    BY <2>1 DEF Packet
  <2>3. QED
    BY <2>2 DEF TypeOK
<1>2. live \in Seq(Entry) /\ FilterTracks(live, recorded, now) /\ ~ Knows(live, p.key)
  <2>1. live \in Seq(Entry)
    BY <1>1, EvictFacts
  <2>2. FilterTracks(live, recorded, now)
    BY <1>1, EvictKeepsTracking DEF CacheSound
  <2>3. QED
    BY <2>1, <2>2 DEF Fresh
<1> HIDE DEF live
<1>3. seen' = Insert(live, p.key, now) /\ recorded' = Append(recorded, e)
  BY DEF Record, live
<1>4. FilterTracks(seen', recorded', now)
  BY <1>1, <1>2, <1>3, InsertKeepsTracking
<1>5. seen' \in Seq(Entry)
  <2>1. Len(live) <= MaxEntries
    BY <1>2 DEF FilterTracks
  <2>2. QED
    BY <1>1, <1>2, <1>3, <2>1, InsertFacts
<1>6. e \in Entry /\ e.key = p.key /\ e.at = now
  BY <1>1 DEF Entry
<1> HIDE DEF e
<1>7. /\ recorded' \in Seq(Entry)
      /\ Len(recorded') = Len(recorded) + 1
      /\ \A i \in 1 .. Len(recorded) : recorded'[i] = recorded[i]
      /\ recorded'[Len(recorded) + 1] = e
  BY <1>1, <1>3, <1>6
<1>8. RecordedApart'
  <2>1. SUFFICES ASSUME NEW i \in 1 .. Len(recorded'), NEW j \in 1 .. Len(recorded'),
                        i < j, recorded'[i].key = recorded'[j].key
                 PROVE  \/ recorded'[j].at - recorded'[i].at >= TtlSeconds
                        \/ j - i > MaxEntries
    BY DEF RecordedApart
  <2>2. Len(recorded) \in Nat /\ i \in 1 .. Len(recorded) /\ recorded'[i] = recorded[i]
    BY <2>1, <1>1, <1>7
  <2>3. CASE j \in 1 .. Len(recorded)
    <3>1. recorded'[j] = recorded[j]
      BY <2>3, <1>7
    <3>2. QED
      BY <2>1, <2>2, <2>3, <3>1 DEF RecordedApart
  <2>4. CASE j = Len(recorded) + 1
    <3>1. recorded'[j].key = p.key /\ recorded'[j].at = now
      BY <2>4, <1>6, <1>7
    <3>2. now - recorded[i].at >= TtlSeconds \/ Len(recorded) + 1 - i > MaxEntries
      BY <2>1, <2>2, <3>1, <1>1, <1>2, ApartAtRecording
    <3>3. QED
      BY <2>2, <2>4, <3>1, <3>2
  <2>5. QED
    BY <2>2, <2>3, <2>4, <1>7
<1>9. QED
  BY <1>4, <1>5, <1>6, <1>7, <1>8

(* A record appended to the history moves no earlier approval.             *)
LEMMA ApprovalsStayRecorded ==
  ASSUME TypeOK, CacheSound, RecordedApart, ApprovalsRecorded,
         NEW p \in Heard, Fresh(p), Record(p), approved' = approved
  PROVE  ApprovalsRecorded'
<1>1. /\ Len(recorded') = Len(recorded) + 1
      /\ \A i \in 1 .. Len(recorded) : recorded'[i] = recorded[i]
  BY RecordStep
<1>2. Len(recorded) \in Nat
  BY DEF TypeOK
<1>3. ASSUME NEW i \in 1 .. Len(approved)
      PROVE  /\ approved[i].nth \in 1 .. Len(recorded')
             /\ recorded'[approved[i].nth].key = approved[i].key
             /\ recorded'[approved[i].nth].at = approved[i].at
  <2>1. /\ approved[i].nth \in 1 .. Len(recorded)
        /\ recorded[approved[i].nth].key = approved[i].key
        /\ recorded[approved[i].nth].at = approved[i].at
    BY DEF ApprovalsRecorded
  <2>2. recorded'[approved[i].nth] = recorded[approved[i].nth]
    BY <2>1, <1>1
  <2>3. approved[i].nth \in 1 .. Len(recorded')
    BY <2>1, <1>1, <1>2
  <2>4. QED
    BY <2>1, <2>2, <2>3
<1>4. \A i, j \in 1 .. Len(approved) : i < j => approved[i].nth < approved[j].nth
  BY DEF ApprovalsRecorded
<1>5. QED
  BY <1>3, <1>4 DEF ApprovalsRecorded

(* process_packet() approves a packet: the invariant is preserved.         *)
LEMMA ApproveStep ==
  ASSUME Inv, NEW p \in Heard, Approve(p), now' = now, enabled' = enabled
  PROVE  Inv'
<1> DEFINE fresh == Prune(timestamps, now)
<1> DEFINE a == [key |-> p.key, at |-> now, nth |-> Len(recorded) + 1]
<1>1. /\ TypeOK /\ CacheSound /\ RecordedApart /\ ApprovalsRecorded
      /\ RateRespected /\ BurstRespected
  BY DEF Inv
<1>2. /\ seen' \in Seq(Entry) /\ recorded' \in Seq(Entry)
      /\ Len(recorded') = Len(recorded) + 1
      /\ \A i \in 1 .. Len(recorded) : recorded'[i] = recorded[i]
      /\ recorded'[Len(recorded) + 1].key = p.key
      /\ recorded'[Len(recorded) + 1].at = now
      /\ FilterTracks(seen', recorded', now)
      /\ RecordedApart'
  BY <1>1, RecordStep DEF Approve
<1>3. /\ timestamps \in Seq(Nat) /\ approved \in Seq(Approval) /\ now \in Nat
      /\ recorded \in Seq(Entry) /\ LimiterTracks(timestamps, approved, now)
      /\ Len(approved) \in Nat /\ Len(recorded) \in Nat
  BY <1>1 DEF TypeOK, CacheSound
<1>4. a \in Approval /\ a.at = now /\ a.key = p.key /\ a.nth = Len(recorded) + 1
  <2>1. p \in Packet
    BY RelayAssumption
  <2>2. p.key \in Keys
    BY <2>1 DEF Packet
  <2>3. QED
    BY <2>2, <1>3 DEF Approval
<1>5. fresh \in Seq(Nat) /\ LimiterTracks(fresh, approved, now)
  BY <1>3, PruneFacts, PruneKeepsTracking
<1>6. /\ timestamps' = Append(fresh, now) /\ approved' = Append(approved, a)
      /\ WithinWindow(fresh, now) /\ WithinBurst(fresh, now)
  BY DEF Approve, Allows
<1> HIDE DEF fresh, a
<1>7. LimiterTracks(timestamps', approved', now)
  BY <1>3, <1>4, <1>5, <1>6, AppendKeepsTracking
<1>8. /\ approved' \in Seq(Approval) /\ timestamps' \in Seq(Nat)
      /\ Len(approved') = Len(approved) + 1
      /\ \A i \in 1 .. Len(approved) : approved'[i] = approved[i]
      /\ approved'[Len(approved) + 1] = a
  BY <1>3, <1>4, <1>5, <1>6
<1>9. TypeOK'
  <2>1. relaying' \in SUBSET Heard /\ relayCount' = relayCount
        /\ rejections' = rejections /\ enabled \in BOOLEAN
    BY <1>1 DEF Approve, TypeOK
  <2>2. enabled' \in BOOLEAN
    BY <1>1 DEF TypeOK
  <2>3. QED
    BY <1>1, <1>2, <1>8, <2>1, <2>2 DEF TypeOK
<1>10. RateRespected'
  <2>1. SUFFICES ASSUME NEW i \in 1 .. Len(approved') - MaxPerMinute
                 PROVE  approved'[i + MaxPerMinute].at - approved'[i].at > WindowSeconds
    BY DEF RateRespected
  <2>2. /\ MaxPerMinute \in Nat \ {0} /\ Len(approved') = Len(approved) + 1
        /\ i \in 1 .. Len(approved)
        /\ i + MaxPerMinute <= Len(approved) \/ i + MaxPerMinute = Len(approved) + 1
    <3>1. MaxPerMinute \in Nat \ {0}
      BY LimiterAssumption
    <3>2. Len(approved) \in Nat
      BY <1>3
    <3>3. Len(approved') = Len(approved) + 1
      BY <1>8
    <3>4. QED
      BY ONLY <3>1, <3>2, <3>3, i \in 1 .. Len(approved') - MaxPerMinute
  <2>3. CASE i + MaxPerMinute <= Len(approved)
    <3>1. i + MaxPerMinute \in 1 .. Len(approved) /\ i \in 1 .. Len(approved) - MaxPerMinute
      BY <2>2, <2>3, <1>3
    <3>2. approved'[i + MaxPerMinute] = approved[i + MaxPerMinute] /\ approved'[i] = approved[i]
      BY <3>1, <2>2, <1>8
    <3>3. QED
      BY <3>1, <3>2, <1>1 DEF RateRespected
  <2>4. CASE i + MaxPerMinute = Len(approved) + 1
    <3>1. approved'[i + MaxPerMinute].at = now /\ approved'[i] = approved[i]
      BY <2>2, <2>4, <1>4, <1>8
    <3>2. i = Len(approved) + 1 - MaxPerMinute
      BY <2>2, <2>4, <1>3
    <3>3. now - approved[i].at > WindowSeconds
      BY <3>2, <2>2, <1>3, <1>5, <1>6, WindowAtApproval
    <3>4. QED
      BY <3>1, <3>3
  <2>5. QED
    BY <2>2, <2>3, <2>4
<1>11. BurstRespected'
  <2>1. SUFFICES ASSUME NEW i \in 1 .. Len(approved') - BurstSize
                 PROVE  approved'[i + BurstSize].at - approved'[i].at >= BurstSeconds
    BY DEF BurstRespected
  <2>2. /\ BurstSize \in Nat \ {0} /\ Len(approved') = Len(approved) + 1
        /\ i \in 1 .. Len(approved)
        /\ i + BurstSize <= Len(approved) \/ i + BurstSize = Len(approved) + 1
    <3>1. BurstSize \in Nat \ {0}
      BY LimiterAssumption
    <3>2. Len(approved) \in Nat
      BY <1>3
    <3>3. Len(approved') = Len(approved) + 1
      BY <1>8
    <3>4. QED
      BY ONLY <3>1, <3>2, <3>3, i \in 1 .. Len(approved') - BurstSize
  <2>3. CASE i + BurstSize <= Len(approved)
    <3>1. i + BurstSize \in 1 .. Len(approved) /\ i \in 1 .. Len(approved) - BurstSize
      BY <2>2, <2>3, <1>3
    <3>2. approved'[i + BurstSize] = approved[i + BurstSize] /\ approved'[i] = approved[i]
      BY <3>1, <2>2, <1>8
    <3>3. QED
      BY <3>1, <3>2, <1>1 DEF BurstRespected
  <2>4. CASE i + BurstSize = Len(approved) + 1
    <3>1. approved'[i + BurstSize].at = now /\ approved'[i] = approved[i]
      BY <2>2, <2>4, <1>4, <1>8
    <3>2. i = Len(approved) + 1 - BurstSize
      BY <2>2, <2>4, <1>3
    <3>3. now - approved[i].at >= BurstSeconds
      BY <3>2, <2>2, <1>3, <1>5, <1>6, BurstAtApproval
    <3>4. QED
      BY <3>1, <3>3
  <2>5. QED
    BY <2>2, <2>3, <2>4
<1>12. ApprovalsRecorded'
  <2>1. ASSUME NEW i \in 1 .. Len(approved')
        PROVE  /\ approved'[i].nth \in 1 .. Len(recorded')
               /\ recorded'[approved'[i].nth].key = approved'[i].key
               /\ recorded'[approved'[i].nth].at = approved'[i].at
    <3>1. CASE i \in 1 .. Len(approved)
      <4>1. /\ approved[i].nth \in 1 .. Len(recorded)
            /\ recorded[approved[i].nth].key = approved[i].key
            /\ recorded[approved[i].nth].at = approved[i].at
        BY <3>1, <1>1 DEF ApprovalsRecorded
      <4>2. approved'[i] = approved[i]
        BY <3>1, <1>8
      <4>3. recorded'[approved[i].nth] = recorded[approved[i].nth]
        BY <4>1, <1>2
      <4>4. approved[i].nth \in 1 .. Len(recorded')
        BY <4>1, <1>2, <1>3
      <4>5. QED
        BY <4>1, <4>2, <4>3, <4>4
    <3>2. CASE i = Len(approved) + 1
      <4>1. approved'[i] = a /\ a.nth = Len(recorded) + 1
        BY <3>2, <1>4, <1>8
      <4>2. Len(recorded) + 1 \in 1 .. Len(recorded')
        BY <1>2, <1>3
      <4>3. QED
        BY <4>1, <4>2, <1>2, <1>4
    <3>3. QED
      BY <3>1, <3>2, <1>3, <1>8
  <2>2. ASSUME NEW i \in 1 .. Len(approved'), NEW j \in 1 .. Len(approved'), i < j
        PROVE  approved'[i].nth < approved'[j].nth
    <3>1. i \in 1 .. Len(approved) /\ approved'[i] = approved[i]
      BY <2>2, <1>3, <1>8
    <3>2. CASE j \in 1 .. Len(approved)
      <4>1. approved'[j] = approved[j]
        BY <3>2, <1>8
      <4>2. QED
        BY <2>2, <3>1, <3>2, <4>1, <1>1 DEF ApprovalsRecorded
    <3>3. CASE j = Len(approved) + 1
      <4>1. approved'[j].nth = Len(recorded) + 1
        BY <3>3, <1>4, <1>8
      <4>2. approved[i].nth \in 1 .. Len(recorded)
        BY <3>1, <1>1 DEF ApprovalsRecorded
      <4>3. QED
        BY <3>1, <4>1, <4>2, <1>3
    <3>4. QED
      BY <3>2, <3>3, <1>3, <1>8
  <2>3. QED
    BY <2>1, <2>2 DEF ApprovalsRecorded
<1>13. CacheSound'
  BY <1>2, <1>7 DEF CacheSound
<1>14. QED
  BY <1>2, <1>9, <1>10, <1>11, <1>12, <1>13 DEF Inv

-----------------------------------------------------------------------------
(* The limiter's part of the invariant survives a pruning of its deque, by *)
(* allow() or by a statistics request.                                     *)
LEMMA PruneStep ==
  ASSUME Inv, now' = now, approved' = approved,
         timestamps' = timestamps \/ timestamps' = Prune(timestamps, now)
  PROVE  timestamps' \in Seq(Nat) /\ LimiterTracks(timestamps', approved', now')
<1>1. /\ timestamps \in Seq(Nat) /\ approved \in Seq(Approval) /\ now \in Nat
      /\ LimiterTracks(timestamps, approved, now)
  BY DEF Inv, TypeOK, CacheSound
<1>2. Prune(timestamps, now) \in Seq(Nat) /\ LimiterTracks(Prune(timestamps, now), approved, now)
  BY <1>1, PruneFacts, PruneKeepsTracking
<1>3. QED
  BY <1>1, <1>2

(* process_packet() rejects a packet after the duplicate filter recorded   *)
(* it: the invariant is preserved.                                         *)
LEMMA RejectStep ==
  ASSUME Inv, NEW p \in Heard, UNCHANGED << now, enabled >>,
         \/ RejectDisabled(p) \/ RejectDuplicate(p)
         \/ RejectStatic(p) \/ RejectRateLimited(p)
  PROVE  Inv'
<1>1. /\ TypeOK /\ CacheSound /\ RecordedApart /\ ApprovalsRecorded
      /\ RateRespected /\ BurstRespected
  BY DEF Inv
<1>2. PICK r \in Reasons : Reject(r)
  <2>1. StaticRejection(p) # "none" => StaticRejection(p) \in Reasons
    BY DEF StaticRejection, Reasons
  <2>2. QED
    BY <2>1 DEF RejectDisabled, RejectDuplicate, RejectStatic, RejectRateLimited, Reasons
<1>3. rejections' \in [Reasons -> Nat] /\ UNCHANGED << relaying, relayCount, approved >>
  <2>1. rejections \in [Reasons -> Nat]
    BY <1>1 DEF TypeOK
  <2>2. QED
    BY <2>1, <1>2 DEF Reject
<1>4. timestamps' \in Seq(Nat) /\ LimiterTracks(timestamps', approved', now')
  BY <1>3, PruneStep DEF RejectDisabled, RejectDuplicate, RejectStatic, RejectRateLimited
<1>5. /\ seen' \in Seq(Entry) /\ recorded' \in Seq(Entry)
      /\ FilterTracks(seen', recorded', now') /\ RecordedApart' /\ ApprovalsRecorded'
  <2>1. CASE RejectDisabled(p)
    BY <2>1, <1>1, <1>3 DEF RejectDisabled, TypeOK, CacheSound, RecordedApart, ApprovalsRecorded
  <2>2. CASE RejectDuplicate(p)
    <3>1. seen \in Seq(Entry) /\ recorded \in Seq(Entry) /\ now \in Nat
          /\ FilterTracks(seen, recorded, now)
      BY <1>1 DEF TypeOK, CacheSound
    <3>2. seen' = EvictExpired(seen, now) /\ recorded' = recorded
      BY <2>2 DEF RejectDuplicate
    <3>3. seen' \in Seq(Entry) /\ FilterTracks(seen', recorded, now)
      BY <3>1, <3>2, EvictFacts, EvictKeepsTracking
    <3>4. RecordedApart' /\ ApprovalsRecorded'
      BY <3>2, <1>1, <1>3 DEF RecordedApart, ApprovalsRecorded
    <3>5. QED
      BY <3>1, <3>2, <3>3, <3>4
  <2>3. CASE RejectStatic(p) \/ RejectRateLimited(p)
    <3>1. Fresh(p) /\ Record(p)
      BY <2>3 DEF RejectStatic, RejectRateLimited
    <3>2. /\ seen' \in Seq(Entry) /\ recorded' \in Seq(Entry)
          /\ FilterTracks(seen', recorded', now) /\ RecordedApart'
      BY <3>1, <1>1, RecordStep
    <3>3. ApprovalsRecorded'
      BY <3>1, <1>1, <1>3, ApprovalsStayRecorded
    <3>4. QED
      BY <3>2, <3>3
  <2>4. QED
    BY <2>1, <2>2, <2>3
<1>6. TypeOK'
  BY <1>1, <1>3, <1>4, <1>5 DEF TypeOK
<1>7. RateRespected' /\ BurstRespected'
  BY <1>1, <1>3 DEF RateRespected, BurstRespected
<1>8. QED
  BY <1>4, <1>5, <1>6, <1>7 DEF Inv, CacheSound

(* The passing of time preserves the invariant.                            *)
LEMMA TickStep ==
  ASSUME Inv, Tick
  PROVE  Inv'
<1>1. /\ timestamps \in Seq(Nat) /\ approved \in Seq(Approval) /\ now \in Nat
      /\ seen \in Seq(Entry) /\ recorded \in Seq(Entry)
      /\ LimiterTracks(timestamps, approved, now) /\ FilterTracks(seen, recorded, now)
  BY DEF Inv, TypeOK, CacheSound
<1>2. /\ now' \in Nat /\ now <= now'
      /\ UNCHANGED << enabled, seen, timestamps, relaying, relayCount, rejections,
                      recorded, approved >>
  BY <1>1 DEF Tick
<1>3. CacheSound'
  BY <1>1, <1>2, TrackingOverTime DEF CacheSound
<1>4. TypeOK'
  BY <1>2 DEF Inv, TypeOK
<1>5. RecordedApart' /\ ApprovalsRecorded' /\ RateRespected' /\ BurstRespected'
  BY <1>2 DEF Inv, RecordedApart, ApprovalsRecorded, RateRespected, BurstRespected
<1>6. QED
  BY <1>3, <1>4, <1>5 DEF Inv

(* Steps that touch neither the filter nor the histories preserve the      *)
(* invariant: a disabled relay, the end of a relay, the switch and the     *)
(* statistics.                                                             *)
LEMMA OtherStep ==
  ASSUME Inv, RelayReturns \/ (\E v \in BOOLEAN : SetEnabled(v)) \/ GetStats
              \/ UNCHANGED vars
  PROVE  Inv'
<1>1. /\ UNCHANGED << now, seen, rejections, recorded, approved >>
      /\ timestamps' = timestamps \/ timestamps' = Prune(timestamps, now)
  BY DEF RelayReturns, SetEnabled, GetStats, vars
<1>2. timestamps' \in Seq(Nat) /\ LimiterTracks(timestamps', approved', now')
  BY <1>1, PruneStep
<1>3. relaying' \in SUBSET Heard /\ relayCount' \in Nat /\ enabled' \in BOOLEAN
  BY DEF Inv, TypeOK, RelayReturns, SetEnabled, GetStats, vars
<1>4. TypeOK' /\ CacheSound'
  BY <1>1, <1>2, <1>3 DEF Inv, TypeOK, CacheSound
<1>5. RecordedApart' /\ ApprovalsRecorded' /\ RateRespected' /\ BurstRespected'
  BY <1>1 DEF Inv, RecordedApart, ApprovalsRecorded, RateRespected, BurstRespected
<1>6. QED
  BY <1>4, <1>5 DEF Inv

(* A freshly constructed relay manager satisfies the invariant.            *)
LEMMA InitInv == Init => Inv
<1>1. SUFFICES ASSUME Init PROVE Inv
  OBVIOUS
<1>2. TypeOK
  BY <1>1 DEF Init, TypeOK
<1>3. Len(seen) = 0 /\ Len(timestamps) = 0 /\ Len(recorded) = 0 /\ Len(approved) = 0
  BY <1>1 DEF Init
<1>4. CacheSound
  BY <1>3, DedupAssumption DEF CacheSound, LimiterTracks, FilterTracks
<1>5. RecordedApart /\ ApprovalsRecorded
  BY <1>3 DEF RecordedApart, ApprovalsRecorded
<1>6. RateRespected /\ BurstRespected
  BY <1>3, LimiterAssumption DEF RateRespected, BurstRespected
<1>7. QED
  BY <1>2, <1>4, <1>5, <1>6 DEF Inv

(* Inv is an inductive invariant of the relay manager: whatever packets    *)
(* come, however often statistics are read and the relay is switched, both *)
(* deques remember everything that still matters.                          *)
THEOREM Invariance == Spec => []Inv
<1>1. Inv /\ [Next]_vars => Inv'
  <2>1. SUFFICES ASSUME Inv, [Next]_vars PROVE Inv'
    OBVIOUS
  <2>2. ASSUME NEW p \in Heard, ProcessPacket(p) PROVE Inv'
    <3>1. UNCHANGED << now, enabled >>
      BY <2>2 DEF ProcessPacket
    <3>2. CASE Approve(p)
      BY <3>1, <3>2, <2>1, ApproveStep
    <3>3. CASE \/ RejectDisabled(p) \/ RejectDuplicate(p)
               \/ RejectStatic(p) \/ RejectRateLimited(p)
      BY <3>1, <3>3, <2>1, RejectStep
    <3>4. QED
      BY <3>2, <3>3, <2>2 DEF ProcessPacket
  <2>3. CASE Tick
    BY <2>1, <2>3, TickStep
  <2>4. CASE RelayReturns \/ (\E v \in BOOLEAN : SetEnabled(v)) \/ GetStats
             \/ UNCHANGED vars
    BY <2>1, <2>4, OtherStep
  <2>5. QED
    BY <2>1, <2>2, <2>3, <2>4 DEF Next
<1>2. QED
  BY <1>1, InitInv, PTL DEF Spec

(* Every variable of the relay manager keeps its type.                     *)
THEOREM TypeCorrect == Spec => []TypeOK
<1>1. Inv => TypeOK
  BY DEF Inv
<1>2. QED
  BY <1>1, Invariance, PTL

(***************************************************************************)
(* The flood prevention of rate_limiter.py for every limit and window: any *)
(* MaxPerMinute + 1 consecutive approvals span more than WindowSeconds,    *)
(* over every window and not only the one that ends at a check.            *)
(***************************************************************************)
THEOREM FloodPrevention == Spec => []RateRespected
<1>1. Inv => RateRespected
  BY DEF Inv
<1>2. QED
  BY <1>1, Invariance, PTL

(* The burst limit by itself: any BurstSize + 1 consecutive approvals span *)
(* at least BurstSeconds.                                                  *)
THEOREM BurstPrevention == Spec => []BurstRespected
<1>1. Inv => BurstRespected
  BY DEF Inv
<1>2. QED
  BY <1>1, Invariance, PTL

(* The loop prevention of dedup_filter.py for every cache size and TTL: a  *)
(* packet is relayed again only after its TTL or after MaxEntries other    *)
(* packets went through the filter.                                        *)
THEOREM LoopPrevention == Spec => []NoRelayLoop
<1>1. Inv => NoRelayLoop
  <2>1. SUFFICES ASSUME Inv,
                        NEW i \in DOMAIN approved, NEW j \in DOMAIN approved,
                        i < j, approved[i].key = approved[j].key
                 PROVE  \/ approved[j].at - approved[i].at >= TtlSeconds
                        \/ approved[j].nth - approved[i].nth > MaxEntries
    BY DEF NoRelayLoop
  <2>2. i \in 1 .. Len(approved) /\ j \in 1 .. Len(approved)
    BY <2>1 DEF Inv, TypeOK
  <2> DEFINE m == approved[i].nth
  <2> DEFINE n == approved[j].nth
  <2>3. /\ m \in 1 .. Len(recorded) /\ n \in 1 .. Len(recorded) /\ m < n
        /\ recorded[m].key = approved[i].key /\ recorded[n].key = approved[j].key
        /\ recorded[m].at = approved[i].at /\ recorded[n].at = approved[j].at
    BY <2>1, <2>2 DEF Inv, ApprovalsRecorded
  <2>4. recorded[n].at - recorded[m].at >= TtlSeconds \/ n - m > MaxEntries
    BY <2>1, <2>3 DEF Inv, RecordedApart
  <2>5. QED
    BY <2>3, <2>4
<1>2. QED
  BY <1>1, Invariance, PTL

-----------------------------------------------------------------------------
(***************************************************************************)
(* The relay manager on the onboard radio, NativeRelay.  The composition   *)
(* implements the relay manager alone, so Inv holds of it, and it          *)
(* implements the transmit service alone.  The rate on the air then        *)
(* follows from the rate of the approvals: every relayed frame belongs to  *)
(* an approval of its own, was emitted after it and, because the pipeline  *)
(* waits, before the next one.                                             *)
(***************************************************************************)
(* What the wiring gives: the relay is one of the senders of the service,  *)
(* and a hop limit is a field of three bits.                               *)
WiringAssumption ==
    /\ RelayTask \in Senders
    /\ Airtimes \subseteq Nat
    /\ \A p \in Heard : p.hop_limit <= Tx!MaxHopLimit

Stages == {"idle", "airtime", "cleared", "sent"}
Emission == [at : Nat, ms : Nat, relay : BOOLEAN, boot : Nat]

TxType ==
    /\ pc \in [Senders -> Stages]
    /\ air \in [Senders -> Nat]
    /\ boot = 0
    /\ emitted \in Seq(Emission)
    /\ \A n \in 1 .. Len(emitted) : emitted[n].at <= now

(* The pipeline waits while the relay's send is under way.                 *)
Waiting ==
    /\ pc[RelayTask] # "idle" => relaying # {}
    /\ relaying # {} => Len(approved) >= 1

(* f gives each relayed frame its approval.                                *)
Emitted(n) == n \in 1 .. Len(emitted) /\ emitted[n].relay

Matches(f) ==
    /\ \A n : Emitted(n) =>
          /\ f[n] \in 1 .. Len(approved)
          /\ approved[f[n]].at <= emitted[n].at
          /\ f[n] < Len(approved) => emitted[n].at <= approved[f[n] + 1].at
          /\ pc[RelayTask] \in {"airtime", "cleared"} => f[n] < Len(approved)
    /\ \A m, n : Emitted(m) /\ Emitted(n) /\ m # n => f[m] # f[n]

Matched == \E f \in [1 .. Len(emitted) -> Nat] : Matches(f)

NativeInv == TxType /\ Waiting /\ Matched

-----------------------------------------------------------------------------
(* The wiring takes nothing away from the relay manager and adds nothing   *)
(* to it: every behaviour of the composition is one of RelayManager.       *)
THEOREM ImplementsRelay == NativeSpec => Spec
<1>1. NativeInit => Init
  BY DEF NativeInit
<1>2. [NativeNext]_nativeVars => [Next]_vars
  <2>1. SUFFICES ASSUME [NativeNext]_nativeVars PROVE Next \/ UNCHANGED vars
    OBVIOUS
  <2>2. CASE \E p \in Heard : Process(p)
    BY <2>2 DEF Process, Next
  <2>3. CASE NativeReturns
    BY <2>3 DEF NativeReturns, Next
  <2>4. CASE \E s \in Senders : OtherSend(s)
    BY <2>4 DEF OtherSend, Tx!SendText, Tx!OwnSend, Tx!Begin, vars, relayVars
  <2>5. CASE \E s \in Senders : SendStep(s)
    BY <2>5 DEF SendStep, Tx!SendStep, Tx!BudgetGranted, Tx!BudgetRefused,
                Tx!Emit, Tx!EmitFails, Tx!RecordTx, vars, relayVars
  <2>6. CASE Manage
    BY <2>6 DEF Manage, Tx!ReadUsage, Next, vars, relayVars
  <2>7. CASE NativeTick
    BY <2>7 DEF NativeTick, Next
  <2>8. CASE UNCHANGED nativeVars
    BY <2>8 DEF nativeVars, relayVars, vars
  <2>9. QED
    BY <2>1, <2>2, <2>3, <2>4, <2>5, <2>6, <2>7, <2>8 DEF NativeNext
<1>3. QED
  BY <1>1, <1>2, PTL DEF NativeSpec, Spec


(* Nor from the transmit service: every behaviour of the composition is    *)
(* one of TxService in which nobody restarts it.                           *)
THEOREM ImplementsTransmit ==
  ASSUME WiringAssumption
  PROVE  NativeSpec => Tx!Spec
<1>1. NativeInit => Tx!Init
  BY DEF NativeInit
<1>2. [NativeNext]_nativeVars => [Tx!Next]_(Tx!vars)
  <2>1. SUFFICES ASSUME [NativeNext]_nativeVars PROVE Tx!Next \/ UNCHANGED Tx!vars
    OBVIOUS
  <2>2. ASSUME NEW p \in Heard, Process(p) PROVE Tx!Next \/ UNCHANGED Tx!vars
    <3>1. CASE UNCHANGED txVars
      BY <2>2, <3>1 DEF Process, ProcessPacket, txVars, Tx!vars
    <3>2. ASSUME NEW ms \in Airtimes, Tx!SendRawRelay(RelayTask, ms, p.hop_limit)
          PROVE  Tx!Next
      <4>1. p.hop_limit \in Int
        BY RelayAssumption DEF Packet
      <4>2. p.hop_limit \in 0 .. Tx!MaxHopLimit
        BY <3>2, <4>1, WiringAssumption DEF WiringAssumption, Tx!SendRawRelay, Tx!MaxHopLimit
      <4>3. RelayTask \in Senders
        BY WiringAssumption DEF WiringAssumption
      <4>4. QED
        BY <3>2, <4>2, <4>3 DEF Tx!Next
    <3>3. QED
      BY <2>2, <3>1, <3>2 DEF Process
  <2>3. CASE NativeReturns
    BY <2>3 DEF NativeReturns, RelayReturns, txVars, Tx!vars
  <2>4. CASE \E s \in Senders : OtherSend(s)
    BY <2>4 DEF OtherSend, Tx!Next
  <2>5. CASE \E s \in Senders : SendStep(s)
    BY <2>5 DEF SendStep, Tx!Next
  <2>6. CASE Manage
    BY <2>6 DEF Manage, GetStats, Tx!Next, txVars, Tx!vars
  <2>7. CASE NativeTick
    BY <2>7 DEF NativeTick, Tick, Tx!Next, Tx!Tick, txVars
  <2>8. CASE UNCHANGED nativeVars
    BY <2>8 DEF nativeVars, txVars, Tx!vars
  <2>9. QED
    BY <2>1, <2>2, <2>3, <2>4, <2>5, <2>6, <2>7, <2>8 DEF NativeNext
<1>3. QED
  BY <1>1, <1>2, PTL DEF NativeSpec, Tx!Spec

-----------------------------------------------------------------------------
(* What an approval adds to the history of the relay manager.              *)
LEMMA ApprovalFacts ==
  ASSUME Inv, NEW p \in Heard, ProcessPacket(p)
  PROVE  /\ relaying = {} /\ now' = now
         /\ \/ approved' = approved /\ relaying' = relaying
            \/ /\ approved' # approved
               /\ relaying' # {}
               /\ Len(approved') = Len(approved) + 1
               /\ \A i \in 1 .. Len(approved) : approved'[i] = approved[i]
               /\ approved'[Len(approved) + 1].at = now
<1>1. CASE Approve(p)
  <2>1. approved \in Seq(Approval) /\ now \in Nat
    BY DEF Inv, TypeOK
  <2> DEFINE a == [key |-> p.key, at |-> now, nth |-> Len(recorded) + 1]
  <2>2. approved' = Append(approved, a) /\ a.at = now
    BY <1>1 DEF Approve
  <2> HIDE DEF a
  <2>3. /\ Len(approved') = Len(approved) + 1
        /\ \A i \in 1 .. Len(approved) : approved'[i] = approved[i]
        /\ approved'[Len(approved) + 1] = a
    BY <2>1, <2>2
  <2>4. Len(approved) \in Nat
    BY <2>1
  <2>5. approved' # approved
    BY <2>3, <2>4
  <2>6. relaying = {} /\ now' = now /\ relaying' # {}
    BY <1>1 DEF ProcessPacket, Approve
  <2>7. QED
    BY <2>2, <2>3, <2>5, <2>6
<1>2. CASE \/ RejectDisabled(p) \/ RejectDuplicate(p)
           \/ RejectStatic(p) \/ RejectRateLimited(p)
  BY <1>2 DEF ProcessPacket, RejectDisabled, RejectDuplicate, RejectStatic,
              RejectRateLimited, Reject
<1>3. QED
  BY <1>1, <1>2 DEF ProcessPacket


(* A step that neither approves nor emits keeps every frame's approval; it *)
(* may end the relay's send but not start or take it up again.             *)
LEMMA QuietStep ==
  ASSUME Inv, NativeInv, WiringAssumption, now' >= now, now' \in Nat,
         pc' \in [Senders -> Stages], air' \in [Senders -> Nat], boot' = boot,
         UNCHANGED << emitted, approved >>,
         pc'[RelayTask] # "idle" => pc[RelayTask] # "idle" /\ relaying' = relaying,
         pc'[RelayTask] \in {"airtime", "cleared"} => pc[RelayTask] \in {"airtime", "cleared"},
         relaying' \in {relaying, {}}
  PROVE  NativeInv'
<1>1. now \in Nat
  BY DEF Inv, TypeOK
<1>2. TxType'
  <2>1. ASSUME NEW n \in 1 .. Len(emitted)
        PROVE  emitted[n].at \in Nat /\ emitted[n].at <= now
    <3>1. emitted \in Seq(Emission)
      BY DEF NativeInv, TxType
    <3>2. emitted[n] \in Emission
      BY <3>1
    <3>3. QED
      BY <3>2 DEF NativeInv, TxType, Emission
  <2>2. \A n \in 1 .. Len(emitted') : emitted'[n].at <= now'
    BY <1>1, <2>1
  <2>3. QED
    BY <2>2 DEF NativeInv, TxType
<1>3. Waiting'
  BY DEF NativeInv, Waiting
<1>4. Matched'
  <2>1. PICK f \in [1 .. Len(emitted) -> Nat] : Matches(f)
    BY DEF NativeInv, Matched
  <2>2. Matches(f)'
    BY <2>1 DEF Matches, Emitted
  <2>3. QED
    BY <2>1, <2>2 DEF Matched
<1>5. QED
  BY <1>2, <1>3, <1>4 DEF NativeInv

(* A packet is evaluated.  The pipeline waited for the last relay, so what *)
(* is on the air was emitted before the new approval.                      *)
LEMMA ProcessStep ==
  ASSUME Inv, NativeInv, WiringAssumption, NEW p \in Heard, Process(p)
  PROVE  NativeInv'
<1>1. ProcessPacket(p) /\ relaying = {} /\ now' = now
  BY ApprovalFacts DEF Process
<1>2. pc[RelayTask] = "idle" /\ RelayTask \in Senders
  BY <1>1 DEF NativeInv, Waiting, WiringAssumption
<1>3. /\ pc' \in [Senders -> Stages] /\ air' \in [Senders -> Nat]
      /\ UNCHANGED << boot, emitted >>
      /\ pc'[RelayTask] # "idle" => approved' # approved
  <2>1. CASE UNCHANGED txVars
    BY <1>2, <2>1 DEF txVars, NativeInv, TxType
  <2>2. ASSUME NEW ms \in Airtimes, Tx!SendRawRelay(RelayTask, ms, p.hop_limit),
               approved' # approved
        PROVE  <1>3!1 /\ <1>3!2 /\ <1>3!3
    BY <2>2 DEF Tx!SendRawRelay, Tx!Begin, NativeInv, TxType, Stages, WiringAssumption
  <2>3. QED
    BY <2>1, <2>2 DEF Process
<1>4. CASE approved' = approved /\ relaying' = relaying
  <2>1. pc'[RelayTask] = "idle"
    BY <1>3, <1>4
  <2>2. now \in Nat
    BY DEF Inv, TypeOK
  <2>3. QED
    BY <1>1, <1>3, <1>4, <2>1, <2>2, QuietStep
<1>5. CASE /\ approved' # approved
           /\ relaying' # {}
           /\ Len(approved') = Len(approved) + 1
           /\ \A i \in 1 .. Len(approved) : approved'[i] = approved[i]
           /\ approved'[Len(approved) + 1].at = now
  <2>1. Len(approved) \in Nat
    BY DEF Inv, TypeOK
  <2>2. TxType'
    BY <1>1, <1>3 DEF NativeInv, TxType
  <2>3. Waiting'
    BY <1>5, <2>1 DEF Waiting
  <2>4. PICK f \in [1 .. Len(emitted) -> Nat] : Matches(f)
    BY DEF NativeInv, Matched
  <2>5. ASSUME NEW n, Emitted(n)
        PROVE  /\ f[n] \in 1 .. Len(approved')
               /\ f[n] < Len(approved')
               /\ approved'[f[n]].at <= emitted[n].at
               /\ emitted[n].at <= approved'[f[n] + 1].at
    <3>1. /\ f[n] \in 1 .. Len(approved)
          /\ approved[f[n]].at <= emitted[n].at
          /\ f[n] < Len(approved) => emitted[n].at <= approved[f[n] + 1].at
      BY <2>4, <2>5 DEF Matches
    <3>2. emitted[n].at <= now
      BY <2>5 DEF NativeInv, TxType, Emitted
    <3>3. approved'[f[n]] = approved[f[n]]
      BY <1>5, <3>1
    <3>4. f[n] < Len(approved) => approved'[f[n] + 1] = approved[f[n] + 1]
      BY <1>5, <2>1, <3>1
    <3>5. f[n] = Len(approved) => approved'[f[n] + 1].at = now
      BY <1>5
    <3>6. f[n] \in 1 .. Len(approved') /\ f[n] < Len(approved')
          /\ (f[n] < Len(approved) \/ f[n] = Len(approved))
      BY <1>5, <2>1, <3>1
    <3>7. QED
      BY <3>1, <3>2, <3>3, <3>4, <3>5, <3>6
  <2>6. \A n : Emitted(n)' <=> Emitted(n)
    BY <1>3 DEF Emitted
  <2>7. Matches(f)'
    BY <1>3, <2>4, <2>5, <2>6 DEF Matches
  <2>8. Matched'
    BY <1>3, <2>4, <2>7 DEF Matched
  <2>9. QED
    BY <2>2, <2>3, <2>8 DEF NativeInv
<1>6. QED
  BY <1>1, <1>4, <1>5, ApprovalFacts


(* A frame goes on the air.  The relay's belongs to the last approval,     *)
(* which no earlier frame has, since the send of an approval emits once.   *)
LEMMA EmitStep ==
  ASSUME Inv, NativeInv, WiringAssumption, NEW s \in Senders, Tx!Emit(s),
         UNCHANGED relayVars
  PROVE  NativeInv'
<1> DEFINE e == [at |-> now, ms |-> air[s], relay |-> s \in {RelayTask}, boot |-> boot]
<1>1. /\ now \in Nat /\ now' = now /\ RelayTask \in Senders
      /\ UNCHANGED << approved, relaying, air, boot >>
      /\ emitted' = Append(emitted, e)
      /\ pc[s] = "cleared" /\ pc' = [pc EXCEPT ![s] = "sent"]
  BY DEF Inv, TypeOK, Tx!Emit, relayVars, WiringAssumption
<1>2. /\ e \in Emission /\ e.at = now
      /\ e.relay <=> s = RelayTask
  <2>1. air[s] \in Nat /\ boot \in Nat
    BY DEF NativeInv, TxType
  <2>2. (s \in {RelayTask}) \in BOOLEAN
    OBVIOUS
  <2>3. QED
    BY <1>1, <2>1, <2>2 DEF Emission
<1> HIDE DEF e
<1>3. emitted \in Seq(Emission) /\ Len(emitted) \in Nat
  BY DEF NativeInv, TxType
<1>4. /\ emitted' \in Seq(Emission) /\ Len(emitted') = Len(emitted) + 1
      /\ \A n \in 1 .. Len(emitted) : emitted'[n] = emitted[n]
      /\ emitted'[Len(emitted) + 1] = e
  BY <1>1, <1>2, <1>3
<1>5. TxType'
  <2>1. ASSUME NEW n \in 1 .. Len(emitted') PROVE emitted'[n].at <= now'
    <3>1. n \in 1 .. Len(emitted) \/ n = Len(emitted) + 1
      BY <1>3, <1>4
    <3>2. CASE n \in 1 .. Len(emitted)
      BY <1>1, <1>4, <3>2 DEF NativeInv, TxType
    <3>3. CASE n = Len(emitted) + 1
      BY <1>1, <1>2, <1>4, <3>3
    <3>4. QED
      BY <3>1, <3>2, <3>3
  <2>2. pc' \in [Senders -> Stages]
    BY <1>1 DEF NativeInv, TxType, Stages
  <2>3. QED
    BY <1>1, <1>4, <2>1, <2>2 DEF NativeInv, TxType
<1>6. Waiting'
  BY <1>1 DEF NativeInv, TxType, Waiting
<1>7. PICK f \in [1 .. Len(emitted) -> Nat] : Matches(f)
  BY DEF NativeInv, Matched
<1> DEFINE last == Len(approved)
<1>8. last \in Nat
  BY DEF Inv, TypeOK
<1>9. PICK g \in [1 .. Len(emitted) + 1 -> Nat] :
         /\ g[Len(emitted) + 1] = last
         /\ \A n \in 1 .. Len(emitted) : g[n] = f[n]
  <2> DEFINE h == [n \in 1 .. Len(emitted) + 1 |-> IF n = Len(emitted) + 1 THEN last ELSE f[n]]
  <2>1. h \in [1 .. Len(emitted) + 1 -> Nat]
    BY <1>3, <1>7, <1>8
  <2>2. h[Len(emitted) + 1] = last /\ \A n \in 1 .. Len(emitted) : h[n] = f[n]
    BY <1>3
  <2>3. QED
    BY <2>1, <2>2
<1>10. g \in [1 .. Len(emitted') -> Nat]
  BY <1>4, <1>9
<1>11. ASSUME NEW n, Emitted(n)'
       PROVE  \/ Emitted(n) /\ g[n] = f[n] /\ emitted'[n] = emitted[n]
              \/ n = Len(emitted) + 1 /\ g[n] = last /\ s = RelayTask /\ emitted'[n].at = now
  <2>1. n \in 1 .. Len(emitted) \/ n = Len(emitted) + 1
    BY <1>3, <1>4, <1>11 DEF Emitted
  <2>2. CASE n \in 1 .. Len(emitted)
    BY <1>4, <1>9, <1>11, <2>2 DEF Emitted
  <2>3. CASE n = Len(emitted) + 1
    BY <1>2, <1>4, <1>9, <1>11, <2>3 DEF Emitted
  <2>4. QED
    BY <2>1, <2>2, <2>3
<1>12. s = RelayTask => /\ pc[RelayTask] = "cleared" /\ pc'[RelayTask] = "sent"
                        /\ last \in 1 .. Len(approved) /\ approved[last].at <= now
  <2>1. s = RelayTask => pc[RelayTask] = "cleared" /\ pc'[RelayTask] = "sent"
    BY <1>1 DEF NativeInv, TxType
  <2>2. s = RelayTask => last \in 1 .. Len(approved)
    BY <1>1, <1>8 DEF NativeInv, Waiting
  <2>3. \A i \in 1 .. Len(approved) : approved[i].at <= now
    BY DEF Inv, CacheSound, LimiterTracks
  <2>4. QED
    BY <2>1, <2>2, <2>3
<1>13. pc'[RelayTask] \in {"airtime", "cleared"} => pc[RelayTask] \in {"airtime", "cleared"}
  BY <1>1 DEF NativeInv, TxType
<1>14. ASSUME NEW n, Emitted(n)'
       PROVE  /\ g[n] \in 1 .. Len(approved)
              /\ approved[g[n]].at <= emitted'[n].at
              /\ g[n] < Len(approved) => emitted'[n].at <= approved[g[n] + 1].at
              /\ pc'[RelayTask] \in {"airtime", "cleared"} => g[n] < Len(approved)
  <2>1. CASE Emitted(n) /\ g[n] = f[n] /\ emitted'[n] = emitted[n]
    BY <1>7, <1>13, <2>1 DEF Matches
  <2>2. CASE n = Len(emitted) + 1 /\ g[n] = last /\ s = RelayTask /\ emitted'[n].at = now
    BY <1>8, <1>12, <2>2
  <2>3. QED
    BY <1>11, <1>14, <2>1, <2>2
<1>15. ASSUME NEW m, NEW n, Emitted(m)', Emitted(n)', m # n PROVE g[m] # g[n]
  <2>1. ASSUME s = RelayTask, NEW k, Emitted(k) PROVE f[k] # last
    <3>1. f[k] \in 1 .. Len(approved) /\ f[k] < Len(approved)
      BY <1>7, <1>12, <2>1 DEF Matches
    <3>2. QED
      BY <1>8, <3>1
  <2>2. \/ Emitted(m) /\ g[m] = f[m]
        \/ m = Len(emitted) + 1 /\ g[m] = last /\ s = RelayTask
    BY <1>11, <1>15
  <2>3. \/ Emitted(n) /\ g[n] = f[n]
        \/ n = Len(emitted) + 1 /\ g[n] = last /\ s = RelayTask
    BY <1>11, <1>15
  <2>4. CASE Emitted(m) /\ g[m] = f[m] /\ Emitted(n) /\ g[n] = f[n]
    BY <1>7, <1>15, <2>4 DEF Matches
  <2>5. QED
    BY <1>15, <2>1, <2>2, <2>3, <2>4
<1>16. Matches(g)'
  BY <1>1, <1>14, <1>15 DEF Matches
<1>17. Matched'
  BY <1>10, <1>16 DEF Matched
<1>18. QED
  BY <1>5, <1>6, <1>17 DEF NativeInv

(* The rate of the approvals carries over to the frames on the air.  In    *)
(* one window the approvals behind the frames, but the first, lie in the   *)
(* window themselves.                                                      *)
LEMMA RateOnAir ==
  ASSUME Inv, NativeInv
  PROVE  OnAirRate
<1> SUFFICES ASSUME NEW t \in 0 .. now
             PROVE  Cardinality(RelayedIn(t, t + WindowSeconds)) <= MaxPerMinute + 1
  BY DEF OnAirRate
<1> DEFINE S == RelayedIn(t, t + WindowSeconds)
<1>1. /\ emitted \in Seq(Emission) /\ Len(emitted) \in Nat /\ DOMAIN emitted = 1 .. Len(emitted)
      /\ now \in Nat /\ Len(approved) \in Nat
  BY DEF NativeInv, TxType, Inv, TypeOK
<1>2. S \subseteq 1 .. Len(emitted)
  BY <1>1 DEF RelayedIn
<1>3. PICK f \in [1 .. Len(emitted) -> Nat] : Matches(f)
  BY DEF NativeInv, Matched
<1>4. ASSUME NEW n \in S
      PROVE  /\ n \in 1 .. Len(emitted) /\ Emitted(n)
             /\ emitted[n].at \in t .. t + WindowSeconds
             /\ f[n] \in 1 .. Len(approved)
             /\ approved[f[n]].at <= emitted[n].at
             /\ f[n] < Len(approved) => emitted[n].at <= approved[f[n] + 1].at
  BY <1>1, <1>3, <1>4 DEF RelayedIn, Matches, Emitted
<1>5. \A i \in 1 .. Len(approved) : approved[i].at \in Nat
  <2>1. approved \in Seq(Approval)
    BY DEF Inv, TypeOK
  <2>2. \A i \in 1 .. Len(approved) : approved[i] \in Approval
    BY <2>1
  <2>3. QED
    BY <2>2 DEF Approval
<1>6. \A i, j \in 1 .. Len(approved) : i <= j => approved[i].at <= approved[j].at
  BY DEF Inv, CacheSound, LimiterTracks
<1>7. \A i \in 1 .. Len(approved) - MaxPerMinute :
          approved[i + MaxPerMinute].at - approved[i].at > WindowSeconds
  BY DEF Inv, RateRespected
<1>8. MaxPerMinute \in Nat \ {0} /\ WindowSeconds \in Nat
  BY LimiterAssumption
<1> HIDE DEF S
<1>9. ASSUME NEW m \in S, NEW n \in S PROVE f[n] <= f[m] + MaxPerMinute
  <2> SUFFICES ASSUME f[n] > f[m] + MaxPerMinute PROVE FALSE
    BY <1>4, <1>8
  <2>1. PICK a, b, c, d, e \in Nat :
             /\ b - a > WindowSeconds /\ b <= c /\ d <= a /\ c <= e
             /\ d >= t /\ e <= t + WindowSeconds
    <3>1. f[m] + 1 \in 1 .. Len(approved) - MaxPerMinute /\ f[m] < Len(approved)
          /\ f[m] + 1 + MaxPerMinute \in 1 .. Len(approved) /\ f[n] \in 1 .. Len(approved)
          /\ f[m] + 1 + MaxPerMinute <= f[n] /\ f[m] + 1 \in 1 .. Len(approved)
      BY <1>1, <1>4, <1>8
    <3>2. approved[f[m] + 1 + MaxPerMinute].at - approved[f[m] + 1].at > WindowSeconds
      BY <1>7, <3>1
    <3>3. approved[f[m] + 1 + MaxPerMinute].at <= approved[f[n]].at
      BY <1>6, <3>1
    <3>4. /\ emitted[m].at <= approved[f[m] + 1].at
          /\ emitted[m].at \in Nat /\ emitted[m].at >= t
      BY <1>1, <1>4, <3>1
    <3>5. /\ approved[f[n]].at <= emitted[n].at
          /\ emitted[n].at \in Nat /\ emitted[n].at <= t + WindowSeconds
      BY <1>1, <1>4
    <3>6. /\ approved[f[m] + 1 + MaxPerMinute].at \in Nat /\ approved[f[m] + 1].at \in Nat
          /\ approved[f[n]].at \in Nat
      BY <1>5, <3>1
    <3>7. QED
      BY <3>2, <3>3, <3>4, <3>5, <3>6
  <2>2. t \in Nat /\ WindowSeconds \in Nat
    BY <1>1, <1>8
  <2>3. QED
    BY ONLY <2>1, <2>2
<1>10. CASE S = {}
  BY <1>8, <1>10, FS_EmptySet DEF S
<1>11. CASE S # {}
  <2> DEFINE T == {f[n] : n \in S}
  <2>1. T \in SUBSET Nat /\ T # {}
    BY <1>4, <1>11
  <2>2. PICK lo \in T : \A k \in T : lo <= k
    BY <2>1, LeastNat
  <2>3. \A n \in S : f[n] \in lo .. lo + MaxPerMinute
    <3>1. PICK m \in S : lo = f[m]
      BY <2>2
    <3>2. ASSUME NEW n \in S PROVE f[n] \in lo .. lo + MaxPerMinute
      BY <1>4, <1>8, <1>9, <2>1, <2>2, <3>1
    <3>3. QED
      BY <3>2
  <2>4. lo \in Int /\ lo + MaxPerMinute \in Int /\ lo <= lo + MaxPerMinute
    BY <1>8, <2>1
  <2> DEFINE I == lo .. lo + MaxPerMinute
  <2>5. IsFiniteSet(I) /\ Cardinality(I) = MaxPerMinute + 1
    BY <1>8, <2>1, <2>4, FS_Interval
  <2> DEFINE h == [n \in S |-> f[n]]
  <2>6. h \in Injection(S, I)
    <3>1. h \in [S -> I]
      BY <2>3
    <3>2. ASSUME NEW m \in S, NEW n \in S, h[m] = h[n] PROVE m = n
      BY <1>3, <1>4, <3>2 DEF Matches
    <3>3. QED
      BY <3>1, <3>2 DEF Injection, IsInjective
  <2>7. Cardinality(S) <= Cardinality(I)
    BY <2>5, <2>6, FS_Injection DEF ExistsInjection
  <2>8. QED
    BY <2>5, <2>7 DEF S
<1>12. QED
  BY <1>10, <1>11


(* NativeInv is inductive together with the relay manager's invariant.     *)
THEOREM NativeInvariance ==
  ASSUME WiringAssumption
  PROVE  NativeSpec => [](Inv /\ NativeInv)
<1>1. NativeInit => NativeInv
  <2>1. SUFFICES ASSUME NativeInit PROVE NativeInv
    OBVIOUS
  <2>2. /\ pc = [s \in Senders |-> "idle"] /\ air = [s \in Senders |-> 0] /\ boot = 0
        /\ emitted = << >> /\ relaying = {} /\ RelayTask \in Senders
    BY <2>1, WiringAssumption DEF NativeInit, Init, Tx!Init, WiringAssumption
  <2>3. TxType
    BY <2>2 DEF TxType, Stages
  <2>4. Waiting
    BY <2>2 DEF Waiting
  <2>5. Matched
    <3>1. Len(emitted) = 0 /\ \A n : ~ Emitted(n)
      BY <2>2 DEF Emitted
    <3>2. [n \in 1 .. Len(emitted) |-> 0] \in [1 .. Len(emitted) -> Nat]
      OBVIOUS
    <3>3. Matches([n \in 1 .. Len(emitted) |-> 0])
      BY <3>1 DEF Matches
    <3>4. QED
      BY <3>2, <3>3 DEF Matched
  <2>6. QED
    BY <2>3, <2>4, <2>5 DEF NativeInv
<1>2. Inv /\ NativeInv /\ [NativeNext]_nativeVars => NativeInv'
  <2>1. SUFFICES ASSUME Inv, NativeInv, [NativeNext]_nativeVars PROVE NativeInv'
    OBVIOUS
  <2>2. /\ now \in Nat /\ RelayTask \in Senders /\ Airtimes \subseteq Nat /\ boot = 0
        /\ pc \in [Senders -> Stages] /\ air \in [Senders -> Nat]
    BY <2>1, WiringAssumption DEF Inv, TypeOK, NativeInv, TxType, WiringAssumption
  <2>3. CASE \E p \in Heard : Process(p)
    BY <2>1, <2>3, WiringAssumption, ProcessStep
  <2>4. CASE NativeReturns
    <3>1. /\ now' = now /\ UNCHANGED << pc, air, boot, emitted, approved >>
          /\ relaying' = {} /\ pc[RelayTask] = "idle"
      BY <2>4 DEF NativeReturns, RelayReturns, txVars
    <3>2. QED
      BY <2>1, <2>2, <3>1, WiringAssumption, QuietStep
  <2>5. ASSUME NEW s \in Senders, OtherSend(s) PROVE NativeInv'
    <3>1. PICK ms \in Airtimes : Tx!SendText(s, ms)
      BY <2>5 DEF OtherSend
    <3>2. /\ now' = now /\ UNCHANGED << boot, emitted, approved, relaying >>
          /\ s # RelayTask /\ pc' = [pc EXCEPT ![s] = "airtime"]
          /\ air' = [air EXCEPT ![s] = ms]
      BY <2>5, <3>1 DEF OtherSend, Tx!SendText, Tx!OwnSend, Tx!Begin, relayVars
    <3>3. /\ pc' \in [Senders -> Stages] /\ air' \in [Senders -> Nat]
          /\ pc'[RelayTask] = pc[RelayTask]
      BY <2>2, <3>2 DEF Stages
    <3>4. QED
      BY <2>1, <2>2, <3>2, <3>3, WiringAssumption, QuietStep
  <2>6. ASSUME NEW s \in Senders, SendStep(s) PROVE NativeInv'
    <3>1. CASE Tx!Emit(s)
      BY <2>1, <2>6, <3>1, WiringAssumption, EmitStep DEF SendStep
    <3>2. CASE Tx!BudgetGranted(s)
      <4>1. /\ now' = now /\ UNCHANGED << air, boot, emitted, approved, relaying >>
            /\ pc[s] = "airtime" /\ pc' = [pc EXCEPT ![s] = "cleared"]
        BY <2>6, <3>2 DEF SendStep, Tx!BudgetGranted, relayVars
      <4>2. /\ pc' \in [Senders -> Stages]
            /\ pc'[RelayTask] # "idle" => pc[RelayTask] # "idle"
            /\ pc'[RelayTask] \in {"airtime", "cleared"} => pc[RelayTask] \in {"airtime", "cleared"}
        BY <2>2, <4>1 DEF Stages
      <4>3. QED
        BY <2>1, <2>2, <4>1, <4>2, WiringAssumption, QuietStep
    <3>3. CASE Tx!BudgetRefused(s) \/ Tx!EmitFails(s) \/ Tx!RecordTx(s)
      <4>1. /\ now' = now /\ UNCHANGED << boot, emitted, approved, relaying >>
            /\ pc' = [pc EXCEPT ![s] = "idle"] /\ air' = [air EXCEPT ![s] = 0]
        BY <2>6, <3>3 DEF SendStep, Tx!BudgetRefused, Tx!EmitFails, Tx!RecordTx, relayVars
      <4>2. /\ pc' \in [Senders -> Stages] /\ air' \in [Senders -> Nat]
            /\ pc'[RelayTask] # "idle" => pc[RelayTask] # "idle"
            /\ pc'[RelayTask] \in {"airtime", "cleared"} => pc[RelayTask] \in {"airtime", "cleared"}
        BY <2>2, <4>1 DEF Stages
      <4>3. QED
        BY <2>1, <2>2, <4>1, <4>2, WiringAssumption, QuietStep
    <3>4. QED
      BY <2>6, <3>1, <3>2, <3>3 DEF SendStep, Tx!SendStep
  <2>7. CASE Manage \/ NativeTick \/ UNCHANGED nativeVars
    <3>1. /\ now' \in Nat /\ now' >= now
          /\ UNCHANGED << pc, air, boot, emitted, approved, relaying >>
      BY <2>2, <2>7 DEF Manage, NativeTick, GetStats, Tick, Tx!ReadUsage, nativeVars, relayVars, txVars
    <3>2. QED
      BY <2>1, <2>2, <3>1, WiringAssumption, QuietStep
  <2>8. QED
    BY <2>1, <2>3, <2>4, <2>5, <2>6, <2>7 DEF NativeNext
<1>3. QED
  BY <1>1, <1>2, ImplementsRelay, Invariance, PTL DEF NativeSpec

(***************************************************************************)
(* The frames the relay manager puts on the air through _wire_native_relay *)
(* stay within its rate although a send may wait for its airtime, its      *)
(* budget and the radio: for every limit, window, set of packets and set   *)
(* of other senders no window holds more than MaxPerMinute + 1 of them.    *)
(***************************************************************************)
THEOREM RelayRate ==
  ASSUME WiringAssumption
  PROVE  NativeSpec => []OnAirRate
<1>1. Inv /\ NativeInv => OnAirRate
  BY RateOnAir
<1>2. QED
  BY <1>1, NativeInvariance, PTL
=============================================================================
