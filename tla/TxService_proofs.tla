-------------------------- MODULE TxService_proofs --------------------------
(***************************************************************************)
(* Proofs about the transmit service and its duty-cycle tracker, for every *)
(* number of senders, budget, window and set of airtimes.                  *)
(***************************************************************************)
EXTENDS TxService, FiniteSetTheorems, NaturalsInduction, WellFoundedInduction,
        TLAPS

(* Every non-empty set of naturals has a least element.                    *)
LEMMA LeastNat ==
  ASSUME NEW T \in SUBSET Nat, T # {}
  PROVE  \E m \in T : \A k \in T : m <= k
<1> DEFINE Less == {ss \in Nat \X Nat : ss[1] < ss[2]}
<1>1. IsWellFoundedOn(Less, Nat)
  BY NatLessThanWellFounded DEF OpToRel
<1> HIDE DEF Less
<1>2. PICK m \in T : \A k \in T : ~ (<<k, m>> \in Less)
  BY <1>1, WFMin
<1>3. ASSUME NEW k \in T, k < m PROVE FALSE
  <2>1. <<k, m>> \in Nat \X Nat /\ <<k, m>>[1] < <<k, m>>[2]
    BY <1>3
  <2>2. <<k, m>> \in Less
    BY <2>1 DEF Less
  <2>3. QED
    BY <2>2, <1>2
<1>4. QED
  BY <1>3

(* Induction over the subsets of a finite set: a family G of subsets that  *)
(* has every S whose proper subsets it has, has them all.                  *)
LEMMA SubsetInduction ==
  ASSUME NEW T, IsFiniteSet(T), NEW G,
         \A S \in SUBSET T : (\A R \in SUBSET S : R # S => R \in G) => S \in G
  PROVE  \A S \in SUBSET T : S \in G
<1> SUFFICES ASSUME NEW B \in SUBSET T, B \notin G PROVE FALSE
  OBVIOUS
<1> DEFINE Sizes == {n \in Nat : \E S \in SUBSET T : S \notin G /\ Cardinality(S) = n}
<1>1. \A S \in SUBSET T : IsFiniteSet(S) /\ Cardinality(S) \in Nat
  BY FS_Subset, FS_CardinalityType
<1>2. PICK m \in Sizes : \A k \in Sizes : m <= k
  <2>1. Cardinality(B) \in Sizes
    BY <1>1
  <2>2. Sizes \in SUBSET Nat /\ Sizes # {}
    BY <2>1
  <2> HIDE DEF Sizes
  <2>3. QED
    BY <2>2, LeastNat
<1>3. PICK S \in SUBSET T : S \notin G /\ Cardinality(S) = m
  BY <1>2
<1>4. ASSUME NEW R \in SUBSET S, R # S PROVE R \in G
  <2>1. Cardinality(R) < m
    BY <1>1, <1>3, <1>4, FS_Subset
  <2>2. R \in SUBSET T /\ Cardinality(R) \in Nat
    BY <1>1, <1>4
  <2>3. QED
    BY <2>1, <2>2, <1>2
<1>5. QED
  BY <1>3, <1>4

-----------------------------------------------------------------------------
(* The sum of a function over a finite set.                                *)
Pick(s) == CHOOSE x \in s : TRUE
AddUp(g, w, s) == IF s = {} THEN 0 ELSE w[Pick(s)] + g[s \ {Pick(s)}]

Solves(g, w, T) == \A s \in SUBSET T : g[s] = AddUp(g, w, s)

(* The recursion of SumFunctionOnSet has a solution, ...                   *)
LEMMA SumExists ==
  ASSUME NEW T, IsFiniteSet(T), NEW w \in [T -> Nat]
  PROVE  \E g \in [SUBSET T -> Nat] : Solves(g, w, T)
<1> DEFINE Solved(n) == \E g \in [SUBSET T -> Nat] :
              \A s \in SUBSET T : Cardinality(s) <= n => g[s] = AddUp(g, w, s)
<1> DEFINE Bad == {n \in Nat : ~ Solved(n)}
<1>1. \A s \in SUBSET T : /\ IsFiniteSet(s) /\ Cardinality(s) \in Nat
                          /\ Cardinality(s) <= Cardinality(T)
  BY FS_Subset, FS_CardinalityType
<1>2. \A s \in SUBSET T : s # {} => /\ Pick(s) \in s
                                    /\ s \ {Pick(s)} \in SUBSET T
                                    /\ Cardinality(s \ {Pick(s)}) = Cardinality(s) - 1
  <2>1. ASSUME NEW s \in SUBSET T, s # {} PROVE Pick(s) \in s
    BY <2>1 DEF Pick
  <2>2. ASSUME NEW s \in SUBSET T, s # {}
        PROVE  Cardinality(s \ {Pick(s)}) = Cardinality(s) - 1
    BY <2>1, <2>2, <1>1, FS_RemoveElement
  <2>3. QED
    BY <2>1, <2>2
<1>3. Solved(0)
  <2>1. [s \in SUBSET T |-> 0] \in [SUBSET T -> Nat]
    OBVIOUS
  <2>2. ASSUME NEW s \in SUBSET T, Cardinality(s) <= 0 PROVE s = {}
    <3>1. Cardinality(s) = 0
      BY <2>2, <1>1
    <3>2. QED
      BY <3>1, <1>1, FS_EmptySet
  <2>3. QED
    BY <2>1, <2>2 DEF AddUp
<1>4. ASSUME NEW n \in Nat, Solved(n) PROVE Solved(n + 1)
  <2>1. PICK g \in [SUBSET T -> Nat] :
              \A s \in SUBSET T : Cardinality(s) <= n => g[s] = AddUp(g, w, s)
    BY <1>4
  <2> DEFINE h == [s \in SUBSET T |-> AddUp(g, w, s)]
  <2>2. ASSUME NEW s \in SUBSET T PROVE h[s] \in Nat
    <3>1. CASE s = {}
      BY <3>1 DEF AddUp
    <3>2. CASE s # {}
      <4>1. w[Pick(s)] \in Nat /\ g[s \ {Pick(s)}] \in Nat
        BY <3>2, <1>2
      <4>2. QED
        BY <4>1, <3>2 DEF AddUp
    <3>3. QED
      BY <3>1, <3>2
  <2>3. ASSUME NEW s \in SUBSET T, Cardinality(s) <= n + 1
        PROVE  h[s] = AddUp(h, w, s)
    <3>1. CASE s = {}
      BY <3>1 DEF AddUp
    <3>2. CASE s # {}
      <4> DEFINE r == s \ {Pick(s)}
      <4>1. r \in SUBSET T /\ Cardinality(r) <= n
        <5>1. r \in SUBSET T /\ Cardinality(r) = Cardinality(s) - 1
          BY <3>2, <1>2
        <5>2. Cardinality(s) \in Nat
          BY <1>1
        <5> HIDE DEF r
        <5>3. QED
          BY <5>1, <5>2, <2>3
      <4>2. h[r] = g[r]
        BY <4>1, <2>1
      <4>3. h[s] = w[Pick(s)] + g[r] /\ AddUp(h, w, s) = w[Pick(s)] + h[r]
        BY <3>2 DEF AddUp
      <4>4. QED
        BY <4>2, <4>3
    <3>3. QED
      BY <3>1, <3>2
  <2>4. h \in [SUBSET T -> Nat]
    BY <2>2
  <2> HIDE DEF h
  <2>5. QED
    BY <2>3, <2>4
<1>5. Bad = {}
  <2> SUFFICES ASSUME Bad # {} PROVE FALSE
    OBVIOUS
  <2>1. PICK m \in Bad : \A k \in Bad : m <= k
    <3>1. Bad \in SUBSET Nat
      OBVIOUS
    <3> HIDE DEF Bad
    <3>2. QED
      BY <3>1, LeastNat
  <2> HIDE DEF Solved
  <2>2. m # 0 /\ m \in Nat /\ ~ Solved(m)
    BY <2>1, <1>3
  <2>3. m - 1 \in Nat /\ m - 1 \notin Bad
    BY <2>1, <2>2
  <2>4. Solved(m - 1)
    BY <2>3
  <2>5. Solved((m - 1) + 1)
    BY <2>3, <2>4, <1>4
  <2>6. (m - 1) + 1 = m
    BY <2>2
  <2>7. QED
    BY <2>5, <2>6, <2>2
<1>6. Solved(Cardinality(T))
  BY <1>5, FS_CardinalityType
<1>7. QED
  BY <1>6, <1>1 DEF Solves

(* ... and only one, also over the subsets of a subset.                    *)
LEMMA SumUnique ==
  ASSUME NEW T, IsFiniteSet(T), NEW S \in SUBSET T, NEW w, NEW g, NEW h,
         Solves(g, w, T), Solves(h, w, S)
  PROVE  \A s \in SUBSET S : h[s] = g[s]
<1> DEFINE G == {s \in SUBSET S : h[s] = g[s]}
<1>1. IsFiniteSet(S)
  BY FS_Subset
<1>2. ASSUME NEW s \in SUBSET S, \A r \in SUBSET s : r # s => r \in G
      PROVE  s \in G
  <2>1. CASE s = {}
    BY <2>1 DEF AddUp, Solves
  <2>2. CASE s # {}
    <3>1. Pick(s) \in s
      BY <2>2 DEF Pick
    <3>2. h[s \ {Pick(s)}] = g[s \ {Pick(s)}]
      BY <3>1, <1>2
    <3>3. g[s] = AddUp(g, w, s) /\ h[s] = AddUp(h, w, s)
      BY DEF Solves
    <3>4. QED
      BY <3>2, <3>3, <2>2 DEF AddUp
  <2>3. QED
    BY <2>1, <2>2
<1> HIDE DEF G
<1>3. \A s \in SUBSET S : s \in G
  BY <1>1, <1>2, SubsetInduction
<1>4. QED
  BY <1>3 DEF G

(* SumFunctionOnSet unfolded once.                                         *)
LEMMA SumFacts ==
  ASSUME NEW T, IsFiniteSet(T), NEW w \in [T -> Nat]
  PROVE  /\ \A S \in SUBSET T : SumFunctionOnSet(w, S) \in Nat
         /\ SumFunctionOnSet(w, {}) = 0
         /\ \A S \in SUBSET T : S # {} =>
              SumFunctionOnSet(w, S)
                = w[Pick(S)] + SumFunctionOnSet(w, S \ {Pick(S)})
<1>1. PICK g \in [SUBSET T -> Nat] : Solves(g, w, T)
  BY SumExists
<1>2. ASSUME NEW S \in SUBSET T PROVE SumFunctionOnSet(w, S) = g[S]
  <2> DEFINE h == CHOOSE f : f = [s \in SUBSET S |-> AddUp(f, w, s)]
  <2>1. SumFunctionOnSet(w, S) = h[S]
    BY DEF SumFunctionOnSet, FoldFunctionOnSet, MapThenFoldSet, AddUp, Pick
  <2> DEFINE r == [s \in SUBSET S |-> g[s]]
  <2>2. r = [s \in SUBSET S |-> AddUp(r, w, s)]
    <3>1. ASSUME NEW s \in SUBSET S PROVE g[s] = AddUp(r, w, s)
      <4>1. s \in SUBSET T /\ s \ {Pick(s)} \in SUBSET S
        OBVIOUS
      <4>2. r[s \ {Pick(s)}] = g[s \ {Pick(s)}]
        BY <4>1
      <4>3. g[s] = AddUp(g, w, s)
        BY <4>1, <1>1 DEF Solves
      <4> HIDE DEF r
      <4>4. QED
        BY <4>2, <4>3 DEF AddUp
    <3>2. QED
      BY <3>1
  <2> HIDE DEF r
  <2>3. h = [s \in SUBSET S |-> AddUp(h, w, s)]
    BY <2>2
  <2> HIDE DEF h
  <2>4. PICK k : SumFunctionOnSet(w, S) = k[S]
                 /\ k = [s \in SUBSET S |-> AddUp(k, w, s)]
    BY <2>1, <2>3
  <2>5. Solves(k, w, S)
    BY <2>4 DEF Solves
  <2>6. \A s \in SUBSET S : k[s] = g[s]
    <3>1. Solves(g, w, T) /\ S \in SUBSET T /\ IsFiniteSet(T)
      BY <1>1
    <3>2. QED
      BY ONLY <3>1, <2>5, SumUnique, SMT
  <2>7. QED
    BY <2>4, <2>6
<1>3. {} \in SUBSET T /\ \A S \in SUBSET T : S \ {Pick(S)} \in SUBSET T
  OBVIOUS
<1>4. QED
  BY <1>1, <1>2, <1>3 DEF AddUp, Solves

(* The order of the additions does not matter.                             *)
LEMMA SumRemove ==
  ASSUME NEW T, IsFiniteSet(T), NEW w \in [T -> Nat]
  PROVE  \A S \in SUBSET T : \A x \in S :
            SumFunctionOnSet(w, S) = w[x] + SumFunctionOnSet(w, S \ {x})
<1> DEFINE G == {S \in SUBSET T : \A x \in S :
            SumFunctionOnSet(w, S) = w[x] + SumFunctionOnSet(w, S \ {x})}
<1>1. /\ \A S \in SUBSET T : SumFunctionOnSet(w, S) \in Nat
      /\ \A S \in SUBSET T : S # {} =>
           SumFunctionOnSet(w, S) = w[Pick(S)] + SumFunctionOnSet(w, S \ {Pick(S)})
  BY SumFacts
<1>2. ASSUME NEW S \in SUBSET T, \A R \in SUBSET S : R # S => R \in G
      PROVE  S \in G
  <2> SUFFICES ASSUME NEW x \in S
               PROVE  SumFunctionOnSet(w, S) = w[x] + SumFunctionOnSet(w, S \ {x})
    OBVIOUS
  <2> DEFINE y == Pick(S)
  <2>1. y \in S
    BY DEF Pick
  <2>2. SumFunctionOnSet(w, S) = w[y] + SumFunctionOnSet(w, S \ {y})
    BY <1>1
  <2> HIDE DEF y
  <2>3. CASE x = y
    BY <2>2, <2>3
  <2>4. CASE x # y
    <3>1. S \ {y} \in G /\ S \ {x} \in G
      BY <1>2, <2>1
    <3>2. SumFunctionOnSet(w, S \ {y}) = w[x] + SumFunctionOnSet(w, (S \ {y}) \ {x})
      BY <3>1, <2>4
    <3>3. SumFunctionOnSet(w, S \ {x}) = w[y] + SumFunctionOnSet(w, (S \ {x}) \ {y})
      BY <3>1, <2>1, <2>4
    <3>4. (S \ {y}) \ {x} = (S \ {x}) \ {y}
      OBVIOUS
    <3>5. /\ SumFunctionOnSet(w, (S \ {x}) \ {y}) \in Nat
          /\ w[x] \in Nat /\ w[y] \in Nat
      BY <1>1, <2>1
    <3>6. QED
      BY <2>2, <3>2, <3>3, <3>4, <3>5
  <2>5. QED
    BY <2>3, <2>4
<1> HIDE DEF G
<1>3. \A S \in SUBSET T : S \in G
  BY <1>2, SubsetInduction
<1>4. QED
  BY <1>3 DEF G

(* Terms may be renamed.                                                   *)
LEMMA SumReindex ==
  ASSUME NEW T, IsFiniteSet(T), NEW w \in [T -> Nat],
         NEW U, IsFiniteSet(U), NEW v \in [U -> Nat],
         NEW f \in [T -> U], \A a, b \in T : f[a] = f[b] => a = b
  PROVE  \A S \in SUBSET T : (\A x \in S : v[f[x]] = w[x]) =>
            SumFunctionOnSet(w, S) = SumFunctionOnSet(v, {f[x] : x \in S})
<1> DEFINE Image(S) == {f[x] : x \in S}
<1> DEFINE G == {S \in SUBSET T : (\A x \in S : v[f[x]] = w[x]) =>
                    SumFunctionOnSet(w, S) = SumFunctionOnSet(v, Image(S))}
<1>1. /\ SumFunctionOnSet(w, {}) = 0 /\ SumFunctionOnSet(v, {}) = 0
      /\ \A S \in SUBSET U : SumFunctionOnSet(v, S) \in Nat
  BY SumFacts
<1>2. ASSUME NEW S \in SUBSET T, \A R \in SUBSET S : R # S => R \in G
      PROVE  S \in G
  <2> SUFFICES ASSUME \A x \in S : v[f[x]] = w[x]
               PROVE  SumFunctionOnSet(w, S) = SumFunctionOnSet(v, Image(S))
    OBVIOUS
  <2>1. CASE S = {}
    <3>1. Image(S) = {}
      BY <2>1
    <3>2. QED
      BY <3>1, <2>1, <1>1
  <2>2. CASE S # {}
    <3>1. PICK x \in S : TRUE
      BY <2>2
    <3>2. S \ {x} \in G
      BY <1>2, <3>1
    <3>3. SumFunctionOnSet(w, S \ {x}) = SumFunctionOnSet(v, Image(S \ {x}))
      BY <3>2
    <3>4. Image(S \ {x}) = Image(S) \ {f[x]}
      BY <3>1
    <3>5. Image(S) \in SUBSET U /\ f[x] \in Image(S)
      BY <3>1
    <3> HIDE DEF Image
    <3>6. SumFunctionOnSet(w, S) = w[x] + SumFunctionOnSet(w, S \ {x})
      BY SumRemove
    <3>7. SumFunctionOnSet(v, Image(S)) = v[f[x]] + SumFunctionOnSet(v, Image(S) \ {f[x]})
      BY <3>5, SumRemove
    <3>8. QED
      BY <3>3, <3>4, <3>6, <3>7
  <2>3. QED
    BY <2>1, <2>2
<1> HIDE DEF G
<1>3. \A S \in SUBSET T : S \in G
  BY <1>2, SubsetInduction
<1>4. QED
  BY <1>3 DEF G

(* The sum over two disjoint sets.                                         *)
LEMMA SumDisjoint ==
  ASSUME NEW T, IsFiniteSet(T), NEW w \in [T -> Nat], NEW R \in SUBSET T
  PROVE  \A S \in SUBSET T : S \cap R = {} =>
            SumFunctionOnSet(w, S \cup R)
              = SumFunctionOnSet(w, S) + SumFunctionOnSet(w, R)
<1> DEFINE G == {S \in SUBSET T : S \cap R = {} =>
                    SumFunctionOnSet(w, S \cup R)
                      = SumFunctionOnSet(w, S) + SumFunctionOnSet(w, R)}
<1>1. /\ SumFunctionOnSet(w, {}) = 0
      /\ \A S \in SUBSET T : SumFunctionOnSet(w, S) \in Nat
  BY SumFacts
<1>2. ASSUME NEW S \in SUBSET T, \A Q \in SUBSET S : Q # S => Q \in G
      PROVE  S \in G
  <2> SUFFICES ASSUME S \cap R = {}
               PROVE  SumFunctionOnSet(w, S \cup R)
                        = SumFunctionOnSet(w, S) + SumFunctionOnSet(w, R)
    OBVIOUS
  <2>1. CASE S = {}
    <3>1. S \cup R = R
      BY <2>1
    <3>2. QED
      BY <3>1, <2>1, <1>1
  <2>2. CASE S # {}
    <3>1. PICK x \in S : TRUE
      BY <2>2
    <3>2. S \ {x} \in G
      BY <1>2, <3>1
    <3>3. SumFunctionOnSet(w, (S \ {x}) \cup R)
            = SumFunctionOnSet(w, S \ {x}) + SumFunctionOnSet(w, R)
      BY <3>2
    <3>4. (S \ {x}) \cup R = (S \cup R) \ {x}
      BY <3>1
    <3>5. SumFunctionOnSet(w, S) = w[x] + SumFunctionOnSet(w, S \ {x})
      BY SumRemove
    <3>6. SumFunctionOnSet(w, S \cup R) = w[x] + SumFunctionOnSet(w, (S \cup R) \ {x})
      <4>1. S \cup R \in SUBSET T /\ x \in S \cup R
        OBVIOUS
      <4>2. QED
        BY <4>1, SumRemove
    <3>7. /\ SumFunctionOnSet(w, S \ {x}) \in Nat /\ SumFunctionOnSet(w, R) \in Nat
          /\ w[x] \in Nat
      BY <1>1
    <3>8. SumFunctionOnSet(w, (S \cup R) \ {x})
            = SumFunctionOnSet(w, S \ {x}) + SumFunctionOnSet(w, R)
      BY <3>3, <3>4, Zenon
    <3> DEFINE p == SumFunctionOnSet(w, S \ {x})
    <3> DEFINE q == SumFunctionOnSet(w, R)
    <3>9. SumFunctionOnSet(w, S \cup R) = w[x] + (p + q)
      BY <3>6, <3>8, Zenon
    <3>10. p \in Nat /\ q \in Nat /\ SumFunctionOnSet(w, S) = w[x] + p
      BY <3>5, <3>7
    <3> HIDE DEF p
    <3>11. w[x] + (p + q) = (w[x] + p) + q
      BY <3>7, <3>10
    <3>12. QED
      BY <3>9, <3>10, <3>11, Zenon
  <2>3. QED
    BY <2>1, <2>2
<1> HIDE DEF G
<1>3. \A S \in SUBSET T : S \in G
  BY <1>2, SubsetInduction
<1>4. QED
  BY <1>3 DEF G

(* A larger set has no smaller sum.                                        *)
LEMMA SumMonotone ==
  ASSUME NEW T, IsFiniteSet(T), NEW w \in [T -> Nat],
         NEW S \in SUBSET T, NEW R \in SUBSET S
  PROVE  SumFunctionOnSet(w, R) <= SumFunctionOnSet(w, S)
<1>1. /\ R \in SUBSET T /\ S \ R \in SUBSET T
      /\ (S \ R) \cap R = {} /\ (S \ R) \cup R = S
  OBVIOUS
<1>2. SumFunctionOnSet(w, S) = SumFunctionOnSet(w, S \ R) + SumFunctionOnSet(w, R)
  BY <1>1, SumDisjoint
<1>3. SumFunctionOnSet(w, S \ R) \in Nat /\ SumFunctionOnSet(w, R) \in Nat
  BY <1>1, SumFacts
<1>4. QED
  BY <1>2, <1>3

(* A sum is at most its number of terms times the largest.                 *)
LEMMA SumAtMost ==
  ASSUME NEW T, IsFiniteSet(T), NEW w \in [T -> Nat], NEW m \in Nat,
         \A x \in T : w[x] <= m
  PROVE  \A S \in SUBSET T : SumFunctionOnSet(w, S) <= Cardinality(S) * m
<1> DEFINE G == {S \in SUBSET T : SumFunctionOnSet(w, S) <= Cardinality(S) * m}
<1>1. /\ SumFunctionOnSet(w, {}) = 0
      /\ \A S \in SUBSET T : SumFunctionOnSet(w, S) \in Nat
  BY SumFacts
<1>2. ASSUME NEW S \in SUBSET T, \A R \in SUBSET S : R # S => R \in G
      PROVE  S \in G
  <2>1. CASE S = {}
    BY <2>1, <1>1, FS_EmptySet
  <2>2. CASE S # {}
    <3>1. PICK x \in S : TRUE
      BY <2>2
    <3>2. S \ {x} \in G
      BY <1>2, <3>1
    <3>3. SumFunctionOnSet(w, S) = w[x] + SumFunctionOnSet(w, S \ {x})
      BY SumRemove
    <3> DEFINE n == Cardinality(S \ {x})
    <3>4. Cardinality(S) = n + 1 /\ n \in Nat
      <4>1. IsFiniteSet(S) /\ IsFiniteSet(S \ {x})
        BY FS_Subset
      <4>2. Cardinality(S) \in Nat /\ n \in Nat /\ n = Cardinality(S) - 1
        BY <4>1, FS_RemoveElement, FS_CardinalityType
      <4> HIDE DEF n
      <4>3. QED
        BY <4>2
    <3>5. SumFunctionOnSet(w, S \ {x}) <= n * m
      BY <3>2
    <3> HIDE DEF n
    <3>6. /\ w[x] \in Nat /\ w[x] <= m /\ n * m \in Nat
          /\ SumFunctionOnSet(w, S \ {x}) \in Nat
      BY <1>1, <3>4
    <3>7. (n + 1) * m = n * m + m
      BY <3>4
    <3>8. SumFunctionOnSet(w, S) <= n * m + m
      BY <3>3, <3>5, <3>6
    <3>9. QED
      BY <3>4, <3>7, <3>8
  <2>3. QED
    BY <2>1, <2>2
<1> HIDE DEF G
<1>3. \A S \in SUBSET T : S \in G
  BY <1>2, SubsetInduction
<1>4. QED
  BY <1>3 DEF G

(* Only the terms count.                                                   *)
LEMMA SumSame ==
  ASSUME NEW T, IsFiniteSet(T), NEW w \in [T -> Nat],
         NEW U, IsFiniteSet(U), NEW v \in [U -> Nat],
         NEW S \in SUBSET T, S \in SUBSET U, \A x \in S : v[x] = w[x]
  PROVE  SumFunctionOnSet(v, S) = SumFunctionOnSet(w, S)
<1> DEFINE a == [x \in S |-> w[x]]
<1> DEFINE f == [x \in S |-> x]
<1>1. IsFiniteSet(S) /\ a \in [S -> Nat] /\ S \in SUBSET S
  BY FS_Subset
<1>2. /\ f \in [S -> T] /\ f \in [S -> U]
      /\ \A x, y \in S : f[x] = f[y] => x = y
      /\ {f[x] : x \in S} = S
      /\ (\A x \in S : w[f[x]] = a[x]) /\ (\A x \in S : v[f[x]] = a[x])
  OBVIOUS
<1> HIDE DEF a, f
<1>3. SumFunctionOnSet(a, S) = SumFunctionOnSet(w, {f[x] : x \in S})
  BY <1>1, <1>2, SumReindex
<1>4. SumFunctionOnSet(a, S) = SumFunctionOnSet(v, {f[x] : x \in S})
  BY <1>1, <1>2, SumReindex
<1>5. QED
  BY <1>2, <1>3, <1>4

(* The same facts with their hypotheses named, as the model uses them.     *)
Weights(w, T) == IsFiniteSet(T) /\ w \in [T -> Nat]
Agree(v, w, S) == \A x \in S : v[x] = w[x]
Within(S, T) == S \in SUBSET T

LEMMA SumsAgree ==
  ASSUME NEW T, NEW w, Weights(w, T), NEW U, NEW v, Weights(v, U),
         NEW S, Within(S, T), Within(S, U), Agree(v, w, S)
  PROVE  SumFunctionOnSet(v, S) = SumFunctionOnSet(w, S)
BY SumSame DEF Weights, Within, Agree

LEMMA SumAdds ==
  ASSUME NEW T, NEW w, Weights(w, T), NEW S, Within(S, T),
         NEW x, Within({x}, T), x \notin S
  PROVE  SumFunctionOnSet(w, S \cup {x}) = w[x] + SumFunctionOnSet(w, S)
<1>1. /\ IsFiniteSet(T) /\ w \in [T -> Nat] /\ S \cup {x} \in SUBSET T
      /\ x \in S \cup {x} /\ (S \cup {x}) \ {x} = S
  BY DEF Weights, Within
<1>2. QED
  BY <1>1, SumRemove

LEMMA SumNat ==
  ASSUME NEW T, NEW w, Weights(w, T), NEW S, Within(S, T)
  PROVE  SumFunctionOnSet(w, S) \in Nat
BY SumFacts DEF Weights, Within

LEMMA SumGrows ==
  ASSUME NEW T, NEW w, Weights(w, T), NEW S, Within(S, T), NEW R, Within(R, S)
  PROVE  SumFunctionOnSet(w, R) <= SumFunctionOnSet(w, S)
BY SumMonotone DEF Weights, Within

Embeds(f, T, U) == f \in [T -> U] /\ \A a, b \in T : f[a] = f[b] => a = b
Renames(f, w, S, v, Q) == Q = {f[x] : x \in S} /\ \A x \in S : v[f[x]] = w[x]

LEMMA SumRenamed ==
  ASSUME NEW T, NEW w, Weights(w, T), NEW U, NEW v, Weights(v, U),
         NEW f, Embeds(f, T, U), NEW S, Within(S, T), NEW Q, Renames(f, w, S, v, Q)
  PROVE  SumFunctionOnSet(w, S) = SumFunctionOnSet(v, Q)
<1>1. /\ IsFiniteSet(T) /\ w \in [T -> Nat] /\ IsFiniteSet(U) /\ v \in [U -> Nat]
      /\ f \in [T -> U] /\ \A a, b \in T : f[a] = f[b] => a = b
      /\ S \in SUBSET T
  BY DEF Weights, Embeds, Within
<1>2. Q = {f[x] : x \in S} /\ \A x \in S : v[f[x]] = w[x]
  BY DEF Renames
<1>3. SumFunctionOnSet(w, S) = SumFunctionOnSet(v, {f[x] : x \in S})
  BY <1>1, <1>2, SumReindex
<1>4. QED
  BY <1>2, <1>3

-----------------------------------------------------------------------------
(* The sums of the model: the airtime recorded at or after t, the airtime  *)
(* this run of the service put on the air at or after t, and the airtime   *)
(* of the senders at one point of their coroutine.                         *)
Stages == {"idle", "airtime", "cleared", "sent"}
Record == [at : Nat, ms : Nat]
Emission == [at : Nat, ms : Nat, relay : BOOLEAN, boot : Nat]
RecordedSince(recs, t) ==
    SumFunctionOnSet(AirtimeOf(recs), {n \in DOMAIN recs : recs[n].at >= t})
OnAirSince(em, b, t) ==
    SumFunctionOnSet(AirtimeOf(em), {n \in DOMAIN em : em[n].at >= t /\ em[n].boot = b})
AirAt(p, a, stage) == SumFunctionOnSet(a, {s \in Senders : p[s] = stage})

LEMMA AirtimeFacts ==
  ASSUME NEW R, \A x \in R : x.ms \in Nat, NEW r \in Seq(R)
  PROVE  /\ DOMAIN r = 1 .. Len(r) /\ Len(r) \in Nat
         /\ IsFiniteSet(1 .. Len(r))
         /\ AirtimeOf(r) \in [1 .. Len(r) -> Nat]
         /\ \A n \in 1 .. Len(r) : AirtimeOf(r)[n] = r[n].ms
<1>1. DOMAIN r = 1 .. Len(r) /\ Len(r) \in Nat /\ \A n \in 1 .. Len(r) : r[n] \in R
  OBVIOUS
<1>2. IsFiniteSet(1 .. Len(r))
  BY <1>1, FS_Interval
<1>3. QED
  BY <1>1, <1>2 DEF AirtimeOf

(* What is appended adds its airtime, the other terms stay.                *)
LEMMA AppendAirtime ==
  ASSUME NEW R, \A x \in R : x.ms \in Nat, NEW r \in Seq(R), NEW e \in R,
         NEW A \in SUBSET (1 .. Len(r))
  PROVE  /\ SumFunctionOnSet(AirtimeOf(Append(r, e)), A)
              = SumFunctionOnSet(AirtimeOf(r), A)
         /\ SumFunctionOnSet(AirtimeOf(Append(r, e)), A \cup {Len(r) + 1})
              = e.ms + SumFunctionOnSet(AirtimeOf(r), A)
<1> DEFINE q == Append(r, e)
<1>1. /\ q \in Seq(R) /\ Len(q) = Len(r) + 1 /\ Len(r) \in Nat
      /\ \A n \in 1 .. Len(r) : q[n] = r[n]
      /\ q[Len(r) + 1] = e
  OBVIOUS
<1> HIDE DEF q
<1>2. /\ IsFiniteSet(1 .. Len(r)) /\ AirtimeOf(r) \in [1 .. Len(r) -> Nat]
      /\ \A n \in 1 .. Len(r) : AirtimeOf(r)[n] = r[n].ms
  BY AirtimeFacts
<1>3. /\ IsFiniteSet(1 .. Len(q)) /\ AirtimeOf(q) \in [1 .. Len(q) -> Nat]
      /\ \A n \in 1 .. Len(q) : AirtimeOf(q)[n] = q[n].ms
  BY <1>1, AirtimeFacts
<1>4. /\ A \in SUBSET (1 .. Len(q)) /\ Len(r) + 1 \in 1 .. Len(q)
      /\ Len(r) + 1 \notin A /\ \A n \in A : n \in 1 .. Len(r)
  BY <1>1
<1>5. \A n \in A : AirtimeOf(q)[n] = AirtimeOf(r)[n]
  BY <1>1, <1>2, <1>3, <1>4
<1> DEFINE T == 1 .. Len(r)
<1> DEFINE U == 1 .. Len(q)
<1> DEFINE w == AirtimeOf(r)
<1> DEFINE v == AirtimeOf(q)
<1> DEFINE k == Len(r) + 1
<1>6. /\ Weights(w, T) /\ Within(A, T) /\ Weights(v, U) /\ Within(A, U)
      /\ Agree(v, w, A) /\ Within({k}, U) /\ k \notin A /\ v[k] = e.ms
  BY <1>1, <1>2, <1>3, <1>4, <1>5 DEF Weights, Within, Agree
<1> HIDE DEF T, U, w, v, k
<1>7. SumFunctionOnSet(v, A) = SumFunctionOnSet(w, A)
  BY ONLY <1>6, SumsAgree
<1>8. SumFunctionOnSet(v, A \cup {k}) = v[k] + SumFunctionOnSet(v, A)
  BY ONLY <1>6, SumAdds
<1>9. QED
  BY <1>6, <1>7, <1>8, Zenon DEF q, w, v, k

(* The number of pops of a loop that pops from the left while a test holds.*)
LEMMA FirstOutside ==
  ASSUME NEW n \in Nat, NEW S
  PROVE  \E m \in 0 .. n : /\ \A i \in 1 .. m : i \in S
                           /\ m < n => m + 1 \notin S
<1> DEFINE T == {m \in 0 .. n : m = n \/ m + 1 \notin S}
<1>1. PICK m \in T : \A k \in T : m <= k
  <2>1. T \in SUBSET Nat /\ n \in T
    OBVIOUS
  <2>2. QED
    BY <2>1, LeastNat
<1>2. ASSUME NEW i \in 1 .. m PROVE i \in S
  <2>1. i - 1 \in 0 .. n /\ i - 1 < m
    OBVIOUS
  <2>2. QED
    BY <2>1, <1>1
<1>3. QED
  BY <1>1, <1>2

(* _prune_expired() removes records from before the window only.           *)
LEMMA PruneFacts ==
  ASSUME NEW r \in Seq(Record), NEW t \in Nat
  PROVE  \E n \in 0 .. Len(r) :
            /\ PruneExpired(r, t) = SubSeq(r, n + 1, Len(r))
            /\ \A i \in 1 .. n : r[i].at < t - WindowSeconds
<1> DEFINE Good(n) == /\ \A i \in 1 .. n : r[i].at < t - WindowSeconds
                      /\ n < Len(r) => ~ (r[n + 1].at < t - WindowSeconds)
<1> DEFINE S == {i \in 1 .. Len(r) : r[i].at < t - WindowSeconds}
<1>1. \E n \in 0 .. Len(r) : Good(n)
  <2>1. Len(r) \in Nat
    OBVIOUS
  <2>2. PICK n \in 0 .. Len(r) : /\ \A i \in 1 .. n : i \in S
                                 /\ n < Len(r) => n + 1 \notin S
    <3> HIDE DEF S
    <3>1. QED
      BY <2>1, FirstOutside
  <2>3. n < Len(r) => n + 1 \in 1 .. Len(r)
    BY <2>1
  <2>4. Good(n)
    BY <2>2, <2>3
  <2>5. QED
    BY <2>4
<1> DEFINE c == CHOOSE n \in 0 .. Len(r) : Good(n)
<1>2. c \in 0 .. Len(r) /\ Good(c)
  BY <1>1
<1>3. PruneExpired(r, t) = SubSeq(r, c + 1, Len(r))
  BY DEF PruneExpired
<1> HIDE DEF c
<1>4. QED
  BY <1>2, <1>3

(* ... so it leaves every sum over the window as it is.                    *)
LEMMA PruneKeeps ==
  ASSUME NEW r \in Seq(Record), NEW t \in Nat, NEW u \in Int, u >= t - WindowSeconds
  PROVE  /\ PruneExpired(r, t) \in Seq(Record)
         /\ RecordedSince(PruneExpired(r, t), u) = RecordedSince(r, u)
<1>1. PICK n \in 0 .. Len(r) : /\ PruneExpired(r, t) = SubSeq(r, n + 1, Len(r))
                               /\ \A i \in 1 .. n : r[i].at < t - WindowSeconds
  BY PruneFacts
<1> DEFINE q == SubSeq(r, n + 1, Len(r))
<1>2. /\ q \in Seq(Record) /\ Len(q) = Len(r) - n /\ Len(r) \in Nat /\ n \in Nat
      /\ \A i \in 1 .. Len(r) - n : q[i] = r[i + n]
  OBVIOUS
<1> HIDE DEF q
<1>3. \A x \in Record : x.ms \in Nat /\ x.at \in Nat
  BY DEF Record
<1>4. /\ DOMAIN r = 1 .. Len(r) /\ IsFiniteSet(1 .. Len(r))
      /\ AirtimeOf(r) \in [1 .. Len(r) -> Nat]
      /\ \A i \in 1 .. Len(r) : AirtimeOf(r)[i] = r[i].ms
  BY <1>3, AirtimeFacts
<1>5. /\ DOMAIN q = 1 .. Len(q) /\ IsFiniteSet(1 .. Len(q))
      /\ AirtimeOf(q) \in [1 .. Len(q) -> Nat]
      /\ \A i \in 1 .. Len(q) : AirtimeOf(q)[i] = q[i].ms
  BY <1>2, <1>3, AirtimeFacts
<1> DEFINE T == 1 .. Len(q)
<1> DEFINE U == 1 .. Len(r)
<1> DEFINE w == AirtimeOf(q)
<1> DEFINE v == AirtimeOf(r)
<1> DEFINE f == [i \in T |-> i + n]
<1> DEFINE S == {i \in DOMAIN q : q[i].at >= u}
<1> DEFINE Q == {i \in DOMAIN r : r[i].at >= u}
<1>6. Weights(w, T) /\ Weights(v, U) /\ Within(S, T)
  BY <1>4, <1>5 DEF Weights, Within
<1>7. Embeds(f, T, U)
  <2>1. \A i \in T : i \in Int /\ i + n \in U
    BY <1>2
  <2>2. QED
    BY <2>1, <1>2 DEF Embeds
<1>8. \A i \in T : i + n \in U /\ q[i] = r[i + n] /\ f[i] = i + n
  BY <1>2
<1>9. ASSUME NEW j \in Q PROVE j - n \in S /\ f[j - n] = j
  <2>1. j \in 1 .. Len(r) /\ r[j].at >= u
    BY <1>4
  <2>2. r[j].at \in Nat /\ u >= t - WindowSeconds /\ WindowSeconds \in Nat
    BY <2>1, <1>3, TxAssumption
  <2>3. ~ (j <= n)
    BY <1>1, <2>1, <2>2
  <2>4. j - n \in T /\ (j - n) + n = j
    BY <1>2, <2>1, <2>3
  <2>5. q[j - n] = r[j]
    BY <2>4, <1>8
  <2>6. QED
    BY <2>1, <2>4, <2>5, <1>5, <1>8
<1>10. ASSUME NEW i \in S PROVE f[i] \in Q
  <2>1. i \in T /\ q[i].at >= u
    BY <1>5
  <2>2. QED
    BY <2>1, <1>8, <1>4
<1>11. \A i \in S : v[f[i]] = w[i]
  <2>1. \A i \in S : i \in T
    BY <1>5
  <2>2. QED
    BY <2>1, <1>8, <1>4, <1>5
<1>12. RecordedSince(q, u) = SumFunctionOnSet(w, S)
       /\ RecordedSince(r, u) = SumFunctionOnSet(v, Q)
  BY DEF RecordedSince
<1> HIDE DEF T, U, w, v, f, S, Q
<1>13. Q = {f[i] : i \in S}
  BY <1>9, <1>10
<1>14. Renames(f, w, S, v, Q)
  BY <1>11, <1>13 DEF Renames
<1>15. SumFunctionOnSet(w, S) = SumFunctionOnSet(v, Q)
  BY ONLY <1>6, <1>7, <1>14, SumRenamed
<1>16. PruneExpired(r, t) = q
  BY <1>1 DEF q
<1>17. QED
  BY <1>2, <1>12, <1>15, <1>16

(* The sums are naturals; what counts since u is part of the total.        *)
LEMMA RecordedFacts ==
  ASSUME NEW r \in Seq(Record), NEW u \in Int
  PROVE  /\ RecordedSince(r, u) \in Nat /\ Total(r) \in Nat
         /\ RecordedSince(r, u) <= Total(r)
<1>1. \A x \in Record : x.ms \in Nat
  BY DEF Record
<1>2. /\ DOMAIN r = 1 .. Len(r) /\ IsFiniteSet(1 .. Len(r))
      /\ AirtimeOf(r) \in [1 .. Len(r) -> Nat]
  BY <1>1, AirtimeFacts
<1> DEFINE T == 1 .. Len(r)
<1> DEFINE w == AirtimeOf(r)
<1> DEFINE S == {i \in DOMAIN r : r[i].at >= u}
<1>3. Weights(w, T) /\ Within(S, T) /\ Within(T, T)
  BY <1>2 DEF Weights, Within
<1>4. RecordedSince(r, u) = SumFunctionOnSet(w, S) /\ Total(r) = SumFunctionOnSet(w, T)
  BY <1>2 DEF RecordedSince, Total, SumFunction
<1> HIDE DEF T, w, S
<1>5. SumFunctionOnSet(w, S) <= SumFunctionOnSet(w, T)
  BY ONLY <1>3, SumGrows
<1>6. SumFunctionOnSet(w, S) \in Nat /\ SumFunctionOnSet(w, T) \in Nat
  BY ONLY <1>3, SumNat
<1>7. QED
  BY <1>4, <1>5, <1>6

(* A record made now counts from any earlier moment on.                    *)
LEMMA RecordAdds ==
  ASSUME NEW r \in Seq(Record), NEW e \in Record, NEW u \in Int, u <= e.at
  PROVE  RecordedSince(Append(r, e), u) = e.ms + RecordedSince(r, u)
<1>1. \A x \in Record : x.ms \in Nat
  BY DEF Record
<1> DEFINE A == {n \in DOMAIN r : r[n].at >= u}
<1>2. A \in SUBSET (1 .. Len(r))
  OBVIOUS
<1>3. {n \in DOMAIN Append(r, e) : Append(r, e)[n].at >= u} = A \cup {Len(r) + 1}
  <2> DEFINE q == Append(r, e)
  <2>1. /\ DOMAIN q = 1 .. Len(r) + 1 /\ Len(r) \in Nat
        /\ \A n \in 1 .. Len(r) : q[n] = r[n]
        /\ q[Len(r) + 1] = e /\ DOMAIN r = 1 .. Len(r)
    OBVIOUS
  <2> HIDE DEF q
  <2>2. \A n \in DOMAIN q : n \in 1 .. Len(r) \/ n = Len(r) + 1
    BY <2>1
  <2>3. \A n : n \in {i \in DOMAIN q : q[i].at >= u} <=> n \in A \cup {Len(r) + 1}
    <3>1. e.at >= u
      BY DEF Record
    <3>2. ASSUME NEW n \in DOMAIN q, q[n].at >= u PROVE n \in A \cup {Len(r) + 1}
      BY <2>1, <2>2, <3>2
    <3>3. ASSUME NEW n \in A PROVE n \in DOMAIN q /\ q[n].at >= u
      BY <2>1, <3>3
    <3>4. Len(r) + 1 \in DOMAIN q /\ q[Len(r) + 1].at >= u
      BY <2>1, <3>1
    <3> HIDE DEF A
    <3>5. QED
      BY <3>2, <3>3, <3>4
  <2>4. QED
    BY <2>3 DEF q
<1> HIDE DEF A
<1>4. SumFunctionOnSet(AirtimeOf(Append(r, e)), A \cup {Len(r) + 1})
        = e.ms + SumFunctionOnSet(AirtimeOf(r), A)
  BY <1>1, <1>2, AppendAirtime
<1>5. QED
  BY <1>3, <1>4, Zenon DEF RecordedSince, A

(* The airtime on the air: a natural, smaller from a later moment on,      *)
(* nothing when no emission qualifies, and more by what is emitted now.    *)
LEMMA OnAirFacts ==
  ASSUME NEW em \in Seq(Emission), NEW b \in Nat, NEW u \in Int
  PROVE  /\ OnAirSince(em, b, u) \in Nat
         /\ \A k \in Int : u <= k => OnAirSince(em, b, k) <= OnAirSince(em, b, u)
         /\ (\A n \in DOMAIN em : ~ (em[n].at >= u /\ em[n].boot = b))
               => OnAirSince(em, b, u) = 0
<1>1. \A x \in Emission : x.ms \in Nat /\ x.at \in Nat
  BY DEF Emission
<1>2. /\ DOMAIN em = 1 .. Len(em) /\ IsFiniteSet(1 .. Len(em))
      /\ AirtimeOf(em) \in [1 .. Len(em) -> Nat]
  BY <1>1, AirtimeFacts
<1> DEFINE T == 1 .. Len(em)
<1> DEFINE w == AirtimeOf(em)
<1> DEFINE S(k) == {n \in DOMAIN em : em[n].at >= k /\ em[n].boot = b}
<1>3. Weights(w, T) /\ \A k \in Int : Within(S(k), T)
  BY <1>2 DEF Weights, Within
<1>4. \A k \in Int : OnAirSince(em, b, k) = SumFunctionOnSet(w, S(k))
  BY DEF OnAirSince
<1>5. \A k \in Int : u <= k => Within(S(k), S(u))
  <2>1. \A n \in DOMAIN em : em[n].at \in Nat
    BY <1>1
  <2>2. QED
    BY <2>1 DEF Within
<1>6. (\A n \in DOMAIN em : ~ (em[n].at >= u /\ em[n].boot = b)) => S(u) = {}
  OBVIOUS
<1>7. SumFunctionOnSet(w, {}) = 0
  <2>1. IsFiniteSet(T) /\ w \in [T -> Nat]
    BY <1>2
  <2> HIDE DEF T, w
  <2>2. QED
    BY <2>1, SumFacts
<1> HIDE DEF T, w, S
<1>8. \A k \in Int : SumFunctionOnSet(w, S(k)) \in Nat
  BY <1>3, SumNat
<1>9. \A k \in Int : u <= k => SumFunctionOnSet(w, S(k)) <= SumFunctionOnSet(w, S(u))
  BY <1>3, <1>5, SumGrows
<1>10. QED
  BY <1>4, <1>6, <1>7, <1>8, <1>9

LEMMA EmissionAdds ==
  ASSUME NEW em \in Seq(Emission), NEW e \in Emission, NEW u \in Int, u <= e.at
  PROVE  OnAirSince(Append(em, e), e.boot, u) = e.ms + OnAirSince(em, e.boot, u)
<1>1. \A x \in Emission : x.ms \in Nat
  BY DEF Emission
<1> DEFINE Counts(x) == x.at >= u /\ x.boot = e.boot
<1> DEFINE A == {n \in DOMAIN em : Counts(em[n])}
<1>2. A \in SUBSET (1 .. Len(em))
  OBVIOUS
<1>3. {n \in DOMAIN Append(em, e) : Counts(Append(em, e)[n])} = A \cup {Len(em) + 1}
  <2> DEFINE q == Append(em, e)
  <2>1. /\ DOMAIN q = 1 .. Len(em) + 1 /\ Len(em) \in Nat
        /\ \A n \in 1 .. Len(em) : q[n] = em[n]
        /\ q[Len(em) + 1] = e /\ DOMAIN em = 1 .. Len(em)
    OBVIOUS
  <2> HIDE DEF q
  <2>2. \A n \in DOMAIN q : n \in 1 .. Len(em) \/ n = Len(em) + 1
    BY <2>1
  <2>3. \A n : n \in {i \in DOMAIN q : Counts(q[i])} <=> n \in A \cup {Len(em) + 1}
    <3>1. Counts(e)
      BY DEF Emission
    <3> HIDE DEF Counts
    <3>2. ASSUME NEW n \in DOMAIN q, Counts(q[n]) PROVE n \in A \cup {Len(em) + 1}
      BY <2>1, <2>2, <3>2
    <3>3. ASSUME NEW n \in A PROVE n \in DOMAIN q /\ Counts(q[n])
      BY <2>1, <3>3
    <3>4. Len(em) + 1 \in DOMAIN q /\ Counts(q[Len(em) + 1])
      BY <2>1, <3>1
    <3> HIDE DEF A
    <3>5. QED
      BY <3>2, <3>3, <3>4
  <2>4. QED
    BY <2>3 DEF q
<1> HIDE DEF A
<1>4. SumFunctionOnSet(AirtimeOf(Append(em, e)), A \cup {Len(em) + 1})
        = e.ms + SumFunctionOnSet(AirtimeOf(em), A)
  BY <1>1, <1>2, AppendAirtime
<1>5. QED
  BY <1>3, <1>4, Zenon DEF OnAirSince, A

(* One sender moves on: the sums of the stages it is not at stay, and the  *)
(* one it leaves loses, the one it enters gains its airtime.               *)
Moves(s, to, m, p, a, p2, a2) ==
    /\ p \in [Senders -> Stages] /\ a \in [Senders -> Nat] /\ s \in Senders
    /\ to # p[s] /\ m \in Nat
    /\ p2 = [p EXCEPT ![s] = to] /\ a2 = [a EXCEPT ![s] = m]

LEMMA StageMoves ==
  ASSUME NEW s, NEW to, NEW m, NEW p, NEW a, NEW p2, NEW a2,
         Moves(s, to, m, p, a, p2, a2), NEW stage
  PROVE  /\ AirAt(p, a, stage) \in Nat
         /\ AirAt(p2, a2, stage) \in Nat
         /\ stage # p[s] /\ stage # to =>
              AirAt(p2, a2, stage) = AirAt(p, a, stage)
         /\ stage = p[s] => AirAt(p, a, stage) = a[s] + AirAt(p2, a2, stage)
         /\ stage = to => AirAt(p2, a2, stage) = m + AirAt(p, a, stage)
<1> DEFINE S == {x \in Senders : p[x] = stage}
<1> DEFINE S2 == {x \in Senders : p2[x] = stage}
<1> DEFINE B == S \ {s}
<1>0. /\ p \in [Senders -> Stages] /\ a \in [Senders -> Nat] /\ s \in Senders
      /\ to # p[s] /\ m \in Nat
      /\ p2 = [p EXCEPT ![s] = to] /\ a2 = [a EXCEPT ![s] = m]
  BY DEF Moves
<1>1. Weights(a, Senders) /\ Weights(a2, Senders)
  BY <1>0, TxAssumption DEF Weights
<1>2. /\ Within(S, Senders) /\ Within(S2, Senders) /\ Within(B, Senders)
      /\ Within({s}, Senders) /\ s \notin B
  BY <1>0 DEF Within
<1>3. Agree(a2, a, B) /\ a2[s] = m
  BY <1>0 DEF Agree
<1>4. /\ stage # p[s] => S = B
      /\ stage = p[s] => S = B \cup {s}
      /\ stage # to => S2 = B
      /\ stage = to => S2 = B \cup {s}
  BY <1>0
<1>5. AirAt(p, a, stage) = SumFunctionOnSet(a, S)
      /\ AirAt(p2, a2, stage) = SumFunctionOnSet(a2, S2)
  BY DEF AirAt
<1> HIDE DEF S, S2, B
<1>6. SumFunctionOnSet(a2, B) = SumFunctionOnSet(a, B)
  BY ONLY <1>1, <1>2, <1>3, SumsAgree
<1>7. SumFunctionOnSet(a, B \cup {s}) = a[s] + SumFunctionOnSet(a, B)
  BY ONLY <1>1, <1>2, SumAdds
<1>8. SumFunctionOnSet(a2, B \cup {s}) = a2[s] + SumFunctionOnSet(a2, B)
  BY ONLY <1>1, <1>2, SumAdds
<1>9. SumFunctionOnSet(a, S) \in Nat /\ SumFunctionOnSet(a2, S2) \in Nat
  BY ONLY <1>1, <1>2, SumNat
<1>10. AirAt(p, a, stage) \in Nat /\ AirAt(p2, a2, stage) \in Nat
  BY <1>5, <1>9
<1>11. stage # p[s] /\ stage # to => AirAt(p2, a2, stage) = AirAt(p, a, stage)
  BY <1>4, <1>5, <1>6
<1>12. stage = p[s] => AirAt(p, a, stage) = a[s] + AirAt(p2, a2, stage)
  BY <1>0, <1>4, <1>5, <1>6, <1>7
<1>13. stage = to => AirAt(p2, a2, stage) = m + AirAt(p, a, stage)
  BY <1>0, <1>3, <1>4, <1>5, <1>6, <1>8
<1>14. QED
  BY <1>10, <1>11, <1>12, <1>13

-----------------------------------------------------------------------------
(***************************************************************************)
(* The inductive invariant.  Accounted strengthens NothingForgotten to     *)
(* every moment of the window, so that it survives the clock and the       *)
(* pruning: a record is never older than its emission.  Reserved           *)
(* strengthens OvershootBounded by the airtime of the senders that were    *)
(* granted the budget and have not emitted yet.                            *)
(***************************************************************************)
Past == \A n \in DOMAIN emitted : emitted[n].at <= now /\ emitted[n].boot <= boot

Accounted ==
    \A t \in now - WindowSeconds .. now :
        OnAirSince(emitted, boot, t) <= RecordedSince(records, t) + AirAt(pc, air, "sent")

Overshoot == (Cardinality(Senders) - 1) * MaxAir

Reserved ==
    OnAirSince(emitted, boot, now - WindowSeconds) + AirAt(pc, air, "cleared")
        <= Budget + Overshoot

Inv ==
    /\ TypeOK
    /\ \A s \in Senders : air[s] <= MaxAir
    /\ Past
    /\ Accounted
    /\ Reserved

LEMMA OvershootNat == Overshoot \in Nat
<1>1. IsFiniteSet(Senders) /\ Senders # {} /\ MaxAir \in Nat
  BY TxAssumption
<1>2. Cardinality(Senders) \in Nat /\ Cardinality(Senders) # 0
  BY <1>1, FS_EmptySet, FS_CardinalityType
<1> DEFINE k == Cardinality(Senders) - 1
<1>3. k \in Nat
  BY <1>2
<1> HIDE DEF k
<1>4. k * MaxAir \in Nat
  BY <1>1, <1>3
<1>5. QED
  BY <1>4 DEF Overshoot, k

(* While one sender is before its check, the others hold at most one       *)
(* packet each between their check and their record.                       *)
LEMMA OthersBounded ==
  ASSUME NEW p \in [Senders -> Stages], NEW a \in [Senders -> Nat],
         \A x \in Senders : a[x] <= MaxAir,
         NEW s \in Senders, p[s] = "airtime"
  PROVE  AirAt(p, a, "sent") + AirAt(p, a, "cleared") <= Overshoot
<1> DEFINE S == {x \in Senders : p[x] = "sent"}
<1> DEFINE C == {x \in Senders : p[x] = "cleared"}
<1> DEFINE O == Senders \ {s}
<1>1. IsFiniteSet(Senders) /\ MaxAir \in Nat
  BY TxAssumption
<1>2. /\ S \in SUBSET Senders /\ C \in SUBSET Senders /\ O \in SUBSET Senders
      /\ S \cap C = {} /\ S \cup C \in SUBSET O
  OBVIOUS
<1>3. Cardinality(O) = Cardinality(Senders) - 1
  BY <1>1, FS_RemoveElement
<1>4. AirAt(p, a, "sent") = SumFunctionOnSet(a, S)
      /\ AirAt(p, a, "cleared") = SumFunctionOnSet(a, C)
  BY DEF AirAt
<1> HIDE DEF S, C, O
<1>5. SumFunctionOnSet(a, S \cup C) = SumFunctionOnSet(a, S) + SumFunctionOnSet(a, C)
  BY <1>1, <1>2, SumDisjoint
<1>6. SumFunctionOnSet(a, S \cup C) <= SumFunctionOnSet(a, O)
  BY <1>1, <1>2, SumMonotone
<1>7. SumFunctionOnSet(a, O) <= Cardinality(O) * MaxAir
  BY <1>1, <1>2, SumAtMost
<1>8. /\ SumFunctionOnSet(a, S \cup C) \in Nat /\ SumFunctionOnSet(a, O) \in Nat
  <2>1. S \cup C \in SUBSET Senders
    BY <1>2
  <2>2. QED
    BY <1>1, <1>2, <2>1, SumFacts
<1>9. Cardinality(O) * MaxAir = Overshoot /\ Overshoot \in Nat
  BY <1>3, OvershootNat DEF Overshoot
<1>10. QED
  BY <1>4, <1>5, <1>6, <1>7, <1>8, <1>9

(* What TypeOK says, with the names used here.                             *)
LEMMA Typed ==
  TypeOK <=> /\ now \in Nat /\ boot \in Nat
             /\ records \in Seq(Record)
             /\ pc \in [Senders -> Stages]
             /\ air \in [Senders -> Nat]
             /\ emitted \in Seq(Emission)
BY DEF TypeOK, Record, Emission, Stages

LEMMA PrunedRecords ==
  ASSUME NEW r \in Seq(Record), NEW t \in Nat
  PROVE  PruneExpired(r, t) \in Seq(Record)
<1>1. t - WindowSeconds \in Int
  BY TxAssumption
<1>2. QED
  BY <1>1, PruneKeeps

LEMMA TypeStep == TypeOK /\ [Next]_vars => TypeOK'
<1> SUFFICES ASSUME TypeOK, [Next]_vars PROVE TypeOK'
  OBVIOUS
<1>1. /\ now \in Nat /\ boot \in Nat /\ records \in Seq(Record)
      /\ pc \in [Senders -> Stages] /\ air \in [Senders -> Nat]
      /\ emitted \in Seq(Emission)
  BY Typed
<1>2. PruneExpired(records, now) \in Seq(Record)
  BY <1>1, PrunedRecords
<1>3. ASSUME NEW s \in Senders, NEW ms \in Airtimes, Begin(s, ms) PROVE TypeOK'
  <2>1. ms \in Nat
    BY TxAssumption
  <2>2. QED
    BY <1>1, <1>3, <2>1 DEF Begin, TypeOK, Record, Emission, Stages
<1>4. ASSUME NEW s \in Senders, SendStep(s) PROVE TypeOK'
  <2>1. CASE BudgetGranted(s)
    BY <1>1, <1>2, <2>1 DEF BudgetGranted, TypeOK, Record, Emission, Stages
  <2>2. CASE BudgetRefused(s)
    BY <1>1, <1>2, <2>2 DEF BudgetRefused, TypeOK, Record, Emission, Stages
  <2>3. CASE Emit(s)
    <3> DEFINE e == [at |-> now, ms |-> air[s], relay |-> s \in RelayTasks, boot |-> boot]
    <3>1. (s \in RelayTasks) \in BOOLEAN
      OBVIOUS
    <3>2. e \in Emission
      BY <1>1, <3>1 DEF Emission
    <3> HIDE DEF e
    <3>3. Append(emitted, e) \in Seq(Emission)
      BY <1>1, <3>2
    <3>4. emitted' \in Seq(Emission)
      BY <2>3, <3>3 DEF Emit, e
    <3>5. QED
      BY <1>1, <2>3, <3>4 DEF Emit, TypeOK, Record, Emission, Stages
  <2>4. CASE EmitFails(s)
    BY <1>1, <2>4 DEF EmitFails, TypeOK, Record, Emission, Stages
  <2>5. CASE RecordTx(s)
    <3> DEFINE e == [at |-> now, ms |-> air[s]]
    <3>1. e \in Record
      BY <1>1 DEF Record
    <3> HIDE DEF e
    <3>2. Append(records, e) \in Seq(Record)
      BY <1>1, <3>1
    <3>3. PruneExpired(Append(records, e), now) \in Seq(Record)
      BY <1>1, <3>2, PrunedRecords
    <3>4. records' \in Seq(Record)
      BY <2>5, <3>3 DEF RecordTx, e
    <3>5. QED
      BY <1>1, <2>5, <3>4 DEF RecordTx, TypeOK, Record, Emission, Stages
  <2>6. QED
    BY <1>4, <2>1, <2>2, <2>3, <2>4, <2>5 DEF SendStep
<1>5. CASE ReadUsage
  BY <1>1, <1>2, <1>5 DEF ReadUsage, TypeOK, Record, Emission, Stages
<1>6. CASE Restart
  BY <1>1, <1>6 DEF Restart, TypeOK, Record, Emission, Stages
<1>7. CASE Tick
  BY <1>1, <1>7 DEF Tick, TypeOK, Record, Emission, Stages
<1>8. CASE UNCHANGED vars
  BY <1>1, <1>8 DEF vars, TypeOK, Record, Emission, Stages
<1>9. QED
  BY <1>3, <1>4, <1>5, <1>6, <1>7, <1>8
     DEF Next, SendText, SendNodeinfo, SendTelemetry, SendPosition, OwnSend,
         SendRoutingAck, SendTracerouteReply, SendTelemetryReply, Reply, SendRawRelay

-----------------------------------------------------------------------------
(* A step of the senders that changes neither the clock, the run of the    *)
(* service nor what is on the air, keeps what the window holds of the      *)
(* records, and lets no unrecorded airtime go, keeps Accounted; one that   *)
(* grants no budget keeps Reserved.                                        *)
LEMMA QuietStep ==
  ASSUME Inv, TypeOK', UNCHANGED << now, boot, emitted >>,
         records' = records \/ records' = PruneExpired(records, now),
         AirAt(pc', air', "sent") = AirAt(pc, air, "sent"),
         \A s \in Senders : air'[s] <= MaxAir
  PROVE  /\ Past' /\ Accounted'
         /\ AirAt(pc', air', "cleared") \in Nat /\ AirAt(pc, air, "cleared") \in Nat
            /\ AirAt(pc', air', "cleared") <= AirAt(pc, air, "cleared") => Inv'
<1>1. /\ now \in Nat /\ boot \in Nat /\ records \in Seq(Record)
      /\ emitted \in Seq(Emission) /\ WindowSeconds \in Nat
  BY Typed, TxAssumption DEF Inv
<1>2. Past'
  BY DEF Past, Inv
<1>3. \A t \in now - WindowSeconds .. now :
          RecordedSince(records', t) = RecordedSince(records, t)
  <2>1. ASSUME NEW t \in now - WindowSeconds .. now
        PROVE  RecordedSince(PruneExpired(records, now), t) = RecordedSince(records, t)
    <3>1. t \in Int /\ t >= now - WindowSeconds
      BY <1>1
    <3>2. QED
      BY <1>1, <3>1, PruneKeeps
  <2>2. QED
    BY <2>1
<1>4. Accounted'
  BY <1>3 DEF Accounted, Inv
<1>5. OnAirSince(emitted, boot, now - WindowSeconds) \in Nat
  <2>1. now - WindowSeconds \in Int
    BY <1>1
  <2>2. QED
    BY <2>1, <1>1, OnAirFacts
<1>6. ASSUME AirAt(pc', air', "cleared") \in Nat, AirAt(pc, air, "cleared") \in Nat,
             AirAt(pc', air', "cleared") <= AirAt(pc, air, "cleared")
      PROVE  Reserved'
  <2>1. Budget + Overshoot \in Nat
    BY OvershootNat, TxAssumption
  <2> DEFINE x == OnAirSince(emitted, boot, now - WindowSeconds)
  <2> DEFINE y == AirAt(pc, air, "cleared")
  <2> DEFINE z == AirAt(pc', air', "cleared")
  <2> DEFINE b == Budget + Overshoot
  <2>2. x + y <= b
    BY DEF Inv, Reserved
  <2>3. x \in Nat /\ y \in Nat /\ z \in Nat /\ z <= y /\ b \in Nat
    BY <1>5, <1>6, <2>1
  <2>4. Reserved' <=> x + z <= b
    BY DEF Reserved, Overshoot
  <2> HIDE DEF x, y, z, b
  <2>5. QED
    BY <2>2, <2>3, <2>4
<1>7. QED
  BY <1>2, <1>4, <1>6 DEF Inv

LEMMA BeginStep ==
  ASSUME Inv, TypeOK', NEW s \in Senders, NEW ms \in Airtimes, Begin(s, ms)
  PROVE  Inv'
<1>1. /\ pc \in [Senders -> Stages] /\ air \in [Senders -> Nat]
      /\ ms \in Nat /\ ms <= MaxAir /\ "airtime" \in Stages
  BY Typed, TxAssumption DEF Inv, Stages
<1>2. /\ pc[s] = "idle" /\ pc' = [pc EXCEPT ![s] = "airtime"]
      /\ air' = [air EXCEPT ![s] = ms] /\ UNCHANGED << now, records, boot, emitted >>
  BY DEF Begin
<1>3. /\ AirAt(pc', air', "sent") = AirAt(pc, air, "sent")
      /\ AirAt(pc', air', "cleared") = AirAt(pc, air, "cleared")
      /\ AirAt(pc, air, "cleared") \in Nat
  <2>1. Moves(s, "airtime", ms, pc, air, pc', air')
    BY <1>1, <1>2 DEF Moves
  <2>2. QED
    BY <2>1, <1>2, StageMoves
<1>4. \A x \in Senders : air'[x] <= MaxAir
  BY <1>1, <1>2 DEF Inv
<1>5. QED
  BY <1>2, <1>3, <1>4, QuietStep

LEMMA RefusedStep ==
  ASSUME Inv, TypeOK', NEW s \in Senders, BudgetRefused(s) \/ EmitFails(s)
  PROVE  Inv'
<1>1. /\ pc \in [Senders -> Stages] /\ air \in [Senders -> Nat]
      /\ 0 \in Nat /\ 0 <= MaxAir /\ "idle" \in Stages
  BY Typed, TxAssumption DEF Inv, Stages
<1>2. /\ pc[s] \in {"airtime", "cleared"} /\ pc' = [pc EXCEPT ![s] = "idle"]
      /\ air' = [air EXCEPT ![s] = 0] /\ UNCHANGED << now, boot, emitted >>
      /\ records' = records \/ records' = PruneExpired(records, now)
  BY DEF BudgetRefused, EmitFails
<1>3. AirAt(pc', air', "sent") = AirAt(pc, air, "sent")
  <2>1. Moves(s, "idle", 0, pc, air, pc', air')
    BY <1>1, <1>2 DEF Moves
  <2>2. QED
    BY <2>1, <1>2, StageMoves
<1>4. /\ AirAt(pc', air', "cleared") \in Nat /\ AirAt(pc, air, "cleared") \in Nat
      /\ \/ AirAt(pc', air', "cleared") = AirAt(pc, air, "cleared")
         \/ AirAt(pc, air, "cleared") = air[s] + AirAt(pc', air', "cleared")
  <2>1. Moves(s, "idle", 0, pc, air, pc', air')
    BY <1>1, <1>2 DEF Moves
  <2>2. QED
    BY <2>1, <1>2, StageMoves
<1>5. AirAt(pc', air', "cleared") <= AirAt(pc, air, "cleared")
  <2>1. air[s] \in Nat
    BY <1>1
  <2>2. QED
    BY <2>1, <1>4
<1>6. \A x \in Senders : air'[x] <= MaxAir
  BY <1>1, <1>2 DEF Inv
<1>7. QED
  BY <1>2, <1>3, <1>4, <1>5, <1>6, QuietStep

(* The check of one sender: what the records do not show of the airtime on *)
(* the air is in the hands of the others.                                  *)
LEMMA GrantedStep ==
  ASSUME Inv, TypeOK', NEW s \in Senders, BudgetGranted(s)
  PROVE  Inv'
<1>1. /\ pc \in [Senders -> Stages] /\ air \in [Senders -> Nat]
      /\ "cleared" \in Stages /\ now \in Nat /\ boot \in Nat
      /\ records \in Seq(Record) /\ emitted \in Seq(Emission)
      /\ WindowSeconds \in Nat /\ Budget \in Nat /\ air[s] \in Nat
  BY Typed, TxAssumption DEF Inv, Stages
<1>2. /\ pc[s] = "airtime" /\ pc' = [pc EXCEPT ![s] = "cleared"]
      /\ air' = air /\ UNCHANGED << now, boot, emitted >>
      /\ records' = PruneExpired(records, now)
      /\ Total(PruneExpired(records, now)) + air[s] <= Budget
  BY DEF BudgetGranted, Fits
<1>3. air = [air EXCEPT ![s] = air[s]]
  BY <1>1
<1>4. /\ AirAt(pc', air, "sent") = AirAt(pc, air, "sent")
      /\ AirAt(pc', air, "cleared") = air[s] + AirAt(pc, air, "cleared")
      /\ AirAt(pc, air, "cleared") \in Nat /\ AirAt(pc, air, "sent") \in Nat
  <2>1. Moves(s, "cleared", air[s], pc, air, pc', air)
    BY <1>1, <1>2, <1>3 DEF Moves
  <2>2. QED
    BY <2>1, <1>2, StageMoves
<1>5. Past' /\ Accounted'
  <2>1. \A x \in Senders : air'[x] <= MaxAir
    BY <1>2 DEF Inv
  <2>2. AirAt(pc', air', "sent") = AirAt(pc, air, "sent")
    BY <1>2, <1>4
  <2>3. QED
    BY <1>2, <2>1, <2>2, QuietStep
<1>6. Reserved'
  <2> DEFINE u == now - WindowSeconds
  <2> DEFINE onAir == OnAirSince(emitted, boot, u)
  <2> DEFINE known == RecordedSince(records, u)
  <2> DEFINE total == Total(PruneExpired(records, now))
  <2> DEFINE sent == AirAt(pc, air, "sent")
  <2> DEFINE cleared == AirAt(pc, air, "cleared")
  <2>1. u \in Int /\ u \in now - WindowSeconds .. now /\ u >= now - WindowSeconds
    BY <1>1
  <2>2. onAir <= known + sent
    BY <2>1 DEF Inv, Accounted
  <2>3. known <= total /\ known \in Nat /\ total \in Nat
    <3>1. /\ PruneExpired(records, now) \in Seq(Record)
          /\ RecordedSince(PruneExpired(records, now), u) = known
      BY <1>1, <2>1, PruneKeeps
    <3>2. QED
      BY <3>1, <2>1, RecordedFacts
  <2>4. sent + cleared <= Overshoot
    BY <1>1, <1>2, OthersBounded DEF Inv
  <2>5. onAir \in Nat
    BY <1>1, <2>1, OnAirFacts
  <2>6. Reserved' <=> onAir + (air[s] + cleared) <= Budget + Overshoot
    BY <1>2, <1>4 DEF Reserved, Overshoot
  <2>7. total + air[s] <= Budget /\ sent \in Nat /\ cleared \in Nat /\ Overshoot \in Nat
    BY <1>2, <1>4, OvershootNat
  <2> HIDE DEF u, onAir, known, total, sent, cleared
  <2>8. QED
    BY <1>1, <2>2, <2>3, <2>4, <2>5, <2>6, <2>7
<1>7. QED
  BY <1>2, <1>5, <1>6 DEF Inv

(* An emission moves its airtime from the granted to the unrecorded.       *)
LEMMA EmitStep ==
  ASSUME Inv, TypeOK', NEW s \in Senders, Emit(s)
  PROVE  Inv'
<1> DEFINE e == [at |-> now, ms |-> air[s], relay |-> s \in RelayTasks, boot |-> boot]
<1>1. /\ pc \in [Senders -> Stages] /\ air \in [Senders -> Nat]
      /\ now \in Nat /\ boot \in Nat /\ emitted \in Seq(Emission)
      /\ records \in Seq(Record) /\ WindowSeconds \in Nat /\ Budget \in Nat
      /\ air[s] \in Nat
  BY Typed, TxAssumption DEF Inv
<1>2. /\ pc[s] = "cleared" /\ pc' = [pc EXCEPT ![s] = "sent"]
      /\ air' = air /\ UNCHANGED << now, records, boot >>
      /\ emitted' = Append(emitted, e)
  BY DEF Emit
<1>3. e \in Emission /\ e.at = now /\ e.boot = boot /\ e.ms = air[s]
  <2>1. (s \in RelayTasks) \in BOOLEAN
    OBVIOUS
  <2>2. QED
    BY <1>1, <2>1 DEF Emission
<1> HIDE DEF e
<1>4. /\ AirAt(pc', air, "sent") = air[s] + AirAt(pc, air, "sent")
      /\ AirAt(pc, air, "cleared") = air[s] + AirAt(pc', air, "cleared")
      /\ AirAt(pc', air, "cleared") \in Nat /\ AirAt(pc, air, "sent") \in Nat
  <2>1. air = [air EXCEPT ![s] = air[s]]
    BY <1>1
  <2>2. Moves(s, "sent", air[s], pc, air, pc', air)
    BY <1>1, <1>2, <2>1 DEF Moves
  <2>3. QED
    BY <2>2, <1>2, StageMoves
<1>5. \A t \in now - WindowSeconds .. now :
         /\ OnAirSince(emitted', boot, t) = air[s] + OnAirSince(emitted, boot, t)
         /\ OnAirSince(emitted, boot, t) \in Nat
  <2>1. ASSUME NEW t \in now - WindowSeconds .. now
        PROVE  /\ OnAirSince(Append(emitted, e), e.boot, t)
                    = e.ms + OnAirSince(emitted, e.boot, t)
               /\ OnAirSince(emitted, boot, t) \in Nat
    <3>1. t \in Int /\ t <= e.at
      BY <1>1, <1>3
    <3>2. QED
      BY <1>1, <1>3, <3>1, EmissionAdds, OnAirFacts
  <2>2. QED
    BY <2>1, <1>2, <1>3
<1>6. Past'
  <2>1. ASSUME NEW n \in DOMAIN Append(emitted, e)
        PROVE  Append(emitted, e)[n].at <= now /\ Append(emitted, e)[n].boot <= boot
    <3>1. CASE n \in DOMAIN emitted
      <4>1. Append(emitted, e)[n] = emitted[n]
        BY <1>1, <3>1
      <4>2. QED
        BY <4>1, <3>1 DEF Inv, Past
    <3>2. CASE n \notin DOMAIN emitted
      <4>1. Append(emitted, e)[n] = e
        BY <1>1, <3>2
      <4>2. QED
        BY <4>1, <1>1, <1>3
    <3>3. QED
      BY <3>1, <3>2
  <2>2. QED
    BY <2>1, <1>2 DEF Past
<1>7. Accounted'
  <2>1. ASSUME NEW t \in now - WindowSeconds .. now
        PROVE  OnAirSince(emitted', boot, t)
                 <= RecordedSince(records, t) + AirAt(pc', air, "sent")
    <3>1. OnAirSince(emitted, boot, t) <= RecordedSince(records, t) + AirAt(pc, air, "sent")
      BY DEF Inv, Accounted
    <3>2. t \in Int
      BY <1>1
    <3>3. RecordedSince(records, t) \in Nat
      BY <1>1, <3>2, RecordedFacts
    <3>4. QED
      BY <1>1, <1>4, <1>5, <3>1, <3>3
  <2>2. QED
    BY <2>1, <1>2 DEF Accounted
<1>8. Reserved'
  <2> DEFINE u == now - WindowSeconds
  <2> DEFINE x == OnAirSince(emitted, boot, u)
  <2> DEFINE y == AirAt(pc', air, "cleared")
  <2> DEFINE b == Budget + Overshoot
  <2>1. u \in now - WindowSeconds .. now
    BY <1>1
  <2>2. /\ OnAirSince(emitted', boot, u) = air[s] + x
        /\ AirAt(pc, air, "cleared") = air[s] + y
        /\ x \in Nat /\ y \in Nat /\ b \in Nat
    BY <1>1, <1>4, <1>5, <2>1, OvershootNat
  <2>3. x + AirAt(pc, air, "cleared") <= b
    BY DEF Inv, Reserved
  <2>4. Reserved' <=> OnAirSince(emitted', boot, u) + y <= b
    BY <1>2 DEF Reserved, Overshoot
  <2> HIDE DEF u, x, y, b
  <2>5. QED
    BY <1>1, <2>2, <2>3, <2>4
<1>9. QED
  BY <1>2, <1>6, <1>7, <1>8 DEF Inv

(* A record takes over the airtime of the emission it is made for, at a    *)
(* moment that is not before it.                                           *)
LEMMA RecordStep ==
  ASSUME Inv, TypeOK', NEW s \in Senders, RecordTx(s)
  PROVE  Inv'
<1> DEFINE e == [at |-> now, ms |-> air[s]]
<1> DEFINE q == Append(records, e)
<1>1. /\ pc \in [Senders -> Stages] /\ air \in [Senders -> Nat]
      /\ now \in Nat /\ boot \in Nat /\ emitted \in Seq(Emission)
      /\ records \in Seq(Record) /\ WindowSeconds \in Nat /\ Budget \in Nat
      /\ air[s] \in Nat /\ 0 <= MaxAir
  BY Typed, TxAssumption DEF Inv
<1>2. /\ pc[s] = "sent" /\ pc' = [pc EXCEPT ![s] = "idle"]
      /\ air' = [air EXCEPT ![s] = 0] /\ UNCHANGED << now, boot, emitted >>
      /\ records' = PruneExpired(q, now)
  BY DEF RecordTx
<1>3. e \in Record /\ e.at = now /\ e.ms = air[s]
  BY <1>1 DEF Record
<1> HIDE DEF e
<1>4. q \in Seq(Record)
  BY <1>1, <1>3
<1>5. /\ AirAt(pc, air, "sent") = air[s] + AirAt(pc', air', "sent")
      /\ AirAt(pc', air', "cleared") = AirAt(pc, air, "cleared")
      /\ AirAt(pc', air', "sent") \in Nat
  <2>1. Moves(s, "idle", 0, pc, air, pc', air')
    BY <1>1, <1>2 DEF Moves
  <2>2. QED
    BY <2>1, <1>2, StageMoves
<1>6. ASSUME NEW t \in now - WindowSeconds .. now
      PROVE  /\ RecordedSince(records', t) = air[s] + RecordedSince(records, t)
             /\ RecordedSince(records, t) \in Nat
  <2>1. t \in Int /\ t <= now /\ t >= now - WindowSeconds
    BY <1>1
  <2>2. RecordedSince(Append(records, e), t) = e.ms + RecordedSince(records, t)
    BY <1>1, <1>3, <2>1, RecordAdds
  <2>3. RecordedSince(records, t) \in Nat
    BY <1>1, <2>1, RecordedFacts
  <2>4. RecordedSince(q, t) = e.ms + RecordedSince(records, t)
    BY <2>2
  <2> HIDE DEF q
  <2>5. RecordedSince(PruneExpired(q, now), t) = RecordedSince(q, t)
    BY <1>1, <1>4, <2>1, PruneKeeps
  <2>6. QED
    BY <1>2, <1>3, <2>3, <2>4, <2>5
<1> HIDE DEF q
<1>7. Accounted'
  <2>1. ASSUME NEW t \in now - WindowSeconds .. now
        PROVE  OnAirSince(emitted, boot, t)
                 <= RecordedSince(records', t) + AirAt(pc', air', "sent")
    <3>1. OnAirSince(emitted, boot, t) <= RecordedSince(records, t) + AirAt(pc, air, "sent")
      BY DEF Inv, Accounted
    <3>2. QED
      BY <1>1, <1>5, <1>6, <3>1
  <2>2. QED
    BY <2>1, <1>2 DEF Accounted
<1>8. Past' /\ Reserved'
  BY <1>2, <1>5 DEF Inv, Past, Reserved, Overshoot
<1>9. \A x \in Senders : air'[x] <= MaxAir
  BY <1>1, <1>2 DEF Inv
<1>10. QED
  BY <1>7, <1>8, <1>9 DEF Inv

LEMMA EmissionTimes ==
  ASSUME NEW em \in Seq(Emission)
  PROVE  \A n \in DOMAIN em : em[n].at \in Nat /\ em[n].boot \in Nat
<1>1. \A n \in DOMAIN em : em[n] \in Emission
  OBVIOUS
<1>2. \A x \in Emission : x.at \in Nat /\ x.boot \in Nat
  BY DEF Emission
<1>3. QED
  BY <1>1, <1>2

(* A new run of the service has emitted nothing yet.                       *)
LEMMA RestartStep ==
  ASSUME Inv, TypeOK', Restart
  PROVE  Inv'
<1>1. /\ now \in Nat /\ boot \in Nat /\ emitted \in Seq(Emission)
      /\ WindowSeconds \in Nat /\ MaxAir \in Nat /\ Budget \in Nat
  BY Typed, TxAssumption DEF Inv
<1>2. /\ boot' = boot + 1 /\ records' = << >> /\ UNCHANGED << now, emitted >>
      /\ pc' = [s \in Senders |-> "idle"] /\ air' = [s \in Senders |-> 0]
  BY DEF Restart
<1>3. Past'
  <2>1. \A n \in DOMAIN emitted : emitted[n].boot \in Nat
    BY <1>1, EmissionTimes
  <2>2. QED
    BY <1>1, <1>2, <2>1 DEF Inv, Past
<1>4. \A n \in DOMAIN emitted : ~ (emitted[n].boot = boot + 1)
  <2>1. \A n \in DOMAIN emitted : emitted[n].boot \in Nat /\ emitted[n].boot <= boot
    BY <1>1, EmissionTimes DEF Inv, Past
  <2>2. QED
    BY <1>1, <2>1
<1>5. \A t \in Int : OnAirSince(emitted, boot + 1, t) = 0
  <2>1. boot + 1 \in Nat
    BY <1>1
  <2>2. QED
    BY <1>1, <1>4, <2>1, OnAirFacts
<1>6. AirAt(pc', air', "sent") = 0 /\ AirAt(pc', air', "cleared") = 0
  <2>1. {s \in Senders : pc'[s] = "sent"} = {} /\ {s \in Senders : pc'[s] = "cleared"} = {}
    BY <1>2
  <2>2. IsFiniteSet(Senders) /\ air' \in [Senders -> Nat]
    BY <1>2, TxAssumption
  <2>3. SumFunctionOnSet(air', {}) = 0
    BY <2>2, SumFacts
  <2>4. QED
    BY <2>1, <2>3 DEF AirAt
<1>7. Accounted'
  <2>1. ASSUME NEW t \in now - WindowSeconds .. now
        PROVE  OnAirSince(emitted, boot + 1, t)
                 <= RecordedSince(records', t) + AirAt(pc', air', "sent")
    <3>1. t \in Int /\ records' \in Seq(Record)
      BY <1>1, <1>2
    <3>2. RecordedSince(records', t) \in Nat
      BY <3>1, RecordedFacts
    <3>3. QED
      BY <1>5, <1>6, <3>1, <3>2
  <2>2. QED
    BY <2>1, <1>2 DEF Accounted
<1>8. Reserved'
  <2>1. now - WindowSeconds \in Int /\ Budget + Overshoot \in Nat
    BY <1>1, OvershootNat
  <2>2. OnAirSince(emitted, boot + 1, now - WindowSeconds) = 0
    BY <1>5, <2>1
  <2>3. QED
    BY <1>2, <1>6, <2>1, <2>2 DEF Reserved, Overshoot
<1>9. \A s \in Senders : air'[s] <= MaxAir
  BY <1>1, <1>2
<1>10. QED
  BY <1>3, <1>7, <1>8, <1>9 DEF Inv

(* The window moves on: nothing is on the air from the next moment on, and *)
(* less of the past counts.                                                *)
LEMMA TickStep ==
  ASSUME Inv, TypeOK', Tick
  PROVE  Inv'
<1>1. /\ now \in Nat /\ boot \in Nat /\ emitted \in Seq(Emission)
      /\ records \in Seq(Record) /\ WindowSeconds \in Nat /\ Budget \in Nat
      /\ pc \in [Senders -> Stages] /\ air \in [Senders -> Nat]
  BY Typed, TxAssumption DEF Inv
<1>2. now' = now + 1 /\ UNCHANGED << records, pc, air, boot, emitted >>
  BY DEF Tick
<1>3. \A n \in DOMAIN emitted : emitted[n].at \in Nat /\ emitted[n].at <= now
  BY <1>1, EmissionTimes DEF Inv, Past
<1>4. Past'
  BY <1>1, <1>2, <1>3 DEF Inv, Past
<1>5. AirAt(pc, air, "sent") \in Nat /\ AirAt(pc, air, "cleared") \in Nat
  <2>1. /\ Weights(air, Senders) /\ Within({s \in Senders : pc[s] = "sent"}, Senders)
        /\ Within({s \in Senders : pc[s] = "cleared"}, Senders)
    BY <1>1, TxAssumption DEF Weights, Within
  <2>2. QED
    BY <2>1, SumNat DEF AirAt
<1>6. Accounted'
  <2>1. ASSUME NEW t \in (now + 1) - WindowSeconds .. now + 1
        PROVE  OnAirSince(emitted, boot, t)
                 <= RecordedSince(records, t) + AirAt(pc, air, "sent")
    <3>1. t \in Int
      BY <1>1
    <3>2. CASE t <= now
      <4>1. t \in now - WindowSeconds .. now
        BY <1>1, <3>2
      <4>2. QED
        BY <4>1 DEF Inv, Accounted
    <3>3. CASE ~ (t <= now)
      <4>1. \A n \in DOMAIN emitted : ~ (emitted[n].at >= t /\ emitted[n].boot = boot)
        BY <1>1, <1>3, <3>1, <3>3
      <4>2. OnAirSince(emitted, boot, t) = 0
        BY <1>1, <3>1, <4>1, OnAirFacts
      <4>3. RecordedSince(records, t) \in Nat
        BY <1>1, <3>1, RecordedFacts
      <4>4. QED
        BY <1>5, <4>2, <4>3
    <3>4. QED
      BY <3>2, <3>3
  <2>2. QED
    BY <2>1, <1>2 DEF Accounted
<1>7. Reserved'
  <2> DEFINE u == now - WindowSeconds
  <2> DEFINE v == (now + 1) - WindowSeconds
  <2>1. u \in Int /\ v \in Int /\ u <= v /\ Budget + Overshoot \in Nat
    BY <1>1, OvershootNat
  <2>2. Reserved' <=> OnAirSince(emitted, boot, v) + AirAt(pc, air, "cleared")
                        <= Budget + Overshoot
    BY <1>2 DEF Reserved, Overshoot
  <2>3. OnAirSince(emitted, boot, u) + AirAt(pc, air, "cleared") <= Budget + Overshoot
    BY DEF Inv, Reserved
  <2> HIDE DEF u, v
  <2>4. /\ OnAirSince(emitted, boot, v) <= OnAirSince(emitted, boot, u)
        /\ OnAirSince(emitted, boot, v) \in Nat /\ OnAirSince(emitted, boot, u) \in Nat
    BY <1>1, <2>1, OnAirFacts
  <2>5. QED
    BY <1>5, <2>1, <2>2, <2>3, <2>4
<1>8. QED
  BY <1>2, <1>4, <1>6, <1>7 DEF Inv

LEMMA UsageStep ==
  ASSUME Inv, TypeOK', ReadUsage \/ UNCHANGED vars
  PROVE  Inv'
<1>1. /\ UNCHANGED << now, pc, air, boot, emitted >>
      /\ records' = records \/ records' = PruneExpired(records, now)
  BY DEF ReadUsage, vars
<1>2. /\ pc \in [Senders -> Stages] /\ air \in [Senders -> Nat]
  BY Typed DEF Inv
<1>3. AirAt(pc, air, "cleared") \in Nat
  <2>1. Weights(air, Senders) /\ Within({s \in Senders : pc[s] = "cleared"}, Senders)
    BY <1>2, TxAssumption DEF Weights, Within
  <2>2. QED
    BY <2>1, SumNat DEF AirAt
<1>4. \A s \in Senders : air'[s] <= MaxAir
  BY <1>1 DEF Inv
<1>5. /\ AirAt(pc', air', "sent") = AirAt(pc, air, "sent")
      /\ AirAt(pc', air', "cleared") = AirAt(pc, air, "cleared")
  BY <1>1
<1>6. QED
  BY <1>1, <1>3, <1>4, <1>5, QuietStep

LEMMA InitInv == Init => Inv
<1> SUFFICES ASSUME Init PROVE Inv
  OBVIOUS
<1>1. /\ WindowSeconds \in Nat /\ Budget \in Nat /\ MaxAir \in Nat
      /\ IsFiniteSet(Senders)
  BY TxAssumption
<1>2. /\ now = 0 /\ boot = 0 /\ records = << >> /\ emitted = << >>
      /\ pc = [s \in Senders |-> "idle"] /\ air = [s \in Senders |-> 0]
  BY DEF Init
<1>3. TypeOK
  BY <1>2 DEF TypeOK
<1>4. \A s \in Senders : air[s] <= MaxAir
  BY <1>1, <1>2
<1>5. DOMAIN emitted = {} /\ emitted \in Seq(Emission) /\ records \in Seq(Record)
  BY <1>2
<1>6. Past
  BY <1>5 DEF Past
<1>7. \A t \in Int : OnAirSince(emitted, boot, t) = 0
  BY <1>2, <1>5, OnAirFacts
<1>8. AirAt(pc, air, "sent") = 0 /\ AirAt(pc, air, "cleared") = 0
  <2>1. {s \in Senders : pc[s] = "sent"} = {} /\ {s \in Senders : pc[s] = "cleared"} = {}
    BY <1>2
  <2>2. SumFunctionOnSet(air, {}) = 0
    BY <1>1, <1>2, SumFacts
  <2>3. QED
    BY <2>1, <2>2 DEF AirAt
<1>9. Accounted
  <2>1. ASSUME NEW t \in now - WindowSeconds .. now
        PROVE  OnAirSince(emitted, boot, t)
                 <= RecordedSince(records, t) + AirAt(pc, air, "sent")
    <3>1. t \in Int
      BY <1>1, <1>2
    <3>2. RecordedSince(records, t) \in Nat
      BY <1>5, <3>1, RecordedFacts
    <3>3. QED
      BY <1>7, <1>8, <3>1, <3>2
  <2>2. QED
    BY <2>1 DEF Accounted
<1>10. Reserved
  <2>1. now - WindowSeconds \in Int /\ Budget + Overshoot \in Nat
    BY <1>1, <1>2, OvershootNat
  <2>2. QED
    BY <1>7, <1>8, <2>1 DEF Reserved
<1>11. QED
  BY <1>3, <1>4, <1>6, <1>9, <1>10 DEF Inv

(***************************************************************************)
(* The inductive invariant of the transmit service.                        *)
(***************************************************************************)
THEOREM Invariance == Spec => []Inv
<1>1. Inv /\ [Next]_vars => Inv'
  <2> SUFFICES ASSUME Inv, [Next]_vars PROVE Inv'
    OBVIOUS
  <2>1. TypeOK'
    BY TypeStep DEF Inv
  <2>2. ASSUME NEW s \in Senders, NEW ms \in Airtimes, Begin(s, ms) PROVE Inv'
    BY <2>1, <2>2, BeginStep
  <2>3. ASSUME NEW s \in Senders, SendStep(s) PROVE Inv'
    <3>1. CASE BudgetGranted(s)
      BY <2>1, <3>1, GrantedStep
    <3>2. CASE BudgetRefused(s) \/ EmitFails(s)
      BY <2>1, <3>2, RefusedStep
    <3>3. CASE Emit(s)
      BY <2>1, <3>3, EmitStep
    <3>4. CASE RecordTx(s)
      BY <2>1, <3>4, RecordStep
    <3>5. QED
      BY <2>3, <3>1, <3>2, <3>3, <3>4 DEF SendStep
  <2>4. CASE ReadUsage \/ UNCHANGED vars
    BY <2>1, <2>4, UsageStep
  <2>5. CASE Restart
    BY <2>1, <2>5, RestartStep
  <2>6. CASE Tick
    BY <2>1, <2>6, TickStep
  <2>7. QED
    BY <2>2, <2>3, <2>4, <2>5, <2>6
       DEF Next, SendText, SendNodeinfo, SendTelemetry, SendPosition, OwnSend,
           SendRoutingAck, SendTracerouteReply, SendTelemetryReply, Reply, SendRawRelay
<1>2. QED
  BY <1>1, InitInv, PTL DEF Spec

(* Type correctness of the transmit service and the tracker's records.     *)
THEOREM TypeCorrect == Spec => []TypeOK
<1>1. Inv => TypeOK
  BY DEF Inv
<1>2. QED
  BY <1>1, Invariance, PTL

(***************************************************************************)
(* duty_cycle.py forgets no airtime that still counts: what this run of    *)
(* the service emitted in the window is recorded, or belongs to a send     *)
(* that is about to call record_tx(), for every number of senders, window  *)
(* and interleaving.                                                       *)
(***************************************************************************)
THEOREM Accounting == Spec => []NothingForgotten
<1>1. Inv => NothingForgotten
  <2> SUFFICES ASSUME Inv PROVE NothingForgotten
    OBVIOUS
  <2> DEFINE u == now - WindowSeconds
  <2>1. /\ now \in Nat /\ boot \in Nat /\ records \in Seq(Record)
        /\ emitted \in Seq(Emission) /\ WindowSeconds \in Nat
        /\ pc \in [Senders -> Stages] /\ air \in [Senders -> Nat]
    BY Typed, TxAssumption DEF Inv
  <2>2. u \in Int /\ u \in now - WindowSeconds .. now
    BY <2>1
  <2>3. OnAirSince(emitted, boot, u) <= RecordedSince(records, u) + AirAt(pc, air, "sent")
    BY <2>2 DEF Inv, Accounted
  <2>4. /\ RecordedSince(records, u) <= Total(records)
        /\ RecordedSince(records, u) \in Nat /\ Total(records) \in Nat
        /\ OnAirSince(emitted, boot, u) \in Nat
    BY <2>1, <2>2, RecordedFacts, OnAirFacts
  <2>5. AirAt(pc, air, "sent") \in Nat
    <3>1. Weights(air, Senders) /\ Within({s \in Senders : pc[s] = "sent"}, Senders)
      BY <2>1, TxAssumption DEF Weights, Within
    <3>2. QED
      BY <3>1, SumNat DEF AirAt
  <2>6. OnAirSince(emitted, boot, u) <= Total(records) + AirAt(pc, air, "sent")
    BY <2>3, <2>4, <2>5
  <2>7. EmittedThisBoot = OnAirSince(emitted, boot, u)
    BY DEF EmittedThisBoot, TotalWhere, InWindow, OnAirSince
  <2>8. QED
    BY <2>6, <2>7 DEF NothingForgotten, AirAt
<1>2. QED
  BY <1>1, Invariance, PTL

(***************************************************************************)
(* The duty-cycle limit of tx_service.py for every number of senders,      *)
(* budget and window: the airtime of the window passes the limit by at     *)
(* most one packet for each of the other senders.                          *)
(***************************************************************************)
THEOREM DutyCycle == Spec => []OvershootBounded
<1>1. Inv => OvershootBounded
  <2> SUFFICES ASSUME Inv PROVE OvershootBounded
    OBVIOUS
  <2> DEFINE u == now - WindowSeconds
  <2>1. /\ now \in Nat /\ boot \in Nat /\ emitted \in Seq(Emission)
        /\ pc \in [Senders -> Stages] /\ air \in [Senders -> Nat]
        /\ u \in Int /\ Budget + Overshoot \in Nat
    BY Typed, TxAssumption, OvershootNat DEF Inv
  <2>2. OnAirSince(emitted, boot, u) + AirAt(pc, air, "cleared") <= Budget + Overshoot
    BY DEF Inv, Reserved
  <2>3. OnAirSince(emitted, boot, u) \in Nat
    BY <2>1, OnAirFacts
  <2>4. AirAt(pc, air, "cleared") \in Nat
    <3>1. Weights(air, Senders) /\ Within({s \in Senders : pc[s] = "cleared"}, Senders)
      BY <2>1, TxAssumption DEF Weights, Within
    <3>2. QED
      BY <3>1, SumNat DEF AirAt
  <2>5. EmittedThisBoot = OnAirSince(emitted, boot, u)
    BY DEF EmittedThisBoot, TotalWhere, InWindow, OnAirSince
  <2> HIDE DEF u
  <2>6. OnAirSince(emitted, boot, u) <= Budget + Overshoot
    BY <2>1, <2>2, <2>3, <2>4
  <2>7. QED
    BY <2>5, <2>6 DEF OvershootBounded, Overshoot
<1>2. QED
  BY <1>1, Invariance, PTL

(***************************************************************************)
(* When duty_cycle.py's own words hold: with one sender and no restart the *)
(* airtime of every window stays within the limit.  Both hypotheses are    *)
(* needed: duty_overlap breaks the limit with two senders.                 *)
(***************************************************************************)
THEOREM LimitOfOneSender ==
  ASSUME Cardinality(Senders) = 1, MaxBoots = 0
  PROVE  Spec => []WithinLimit
<1>1. Spec => [](boot = 0)
  <2>1. Init => boot = 0
    BY DEF Init
  <2>2. boot = 0 /\ [Next]_vars => (boot = 0)'
    <3> SUFFICES ASSUME boot = 0, [Next]_vars PROVE boot' = 0
      OBVIOUS
    <3>1. ~ Restart
      BY DEF Restart
    <3>2. ASSUME NEW s \in Senders, NEW ms \in Airtimes, Begin(s, ms) PROVE boot' = 0
      BY <3>2 DEF Begin
    <3>3. ASSUME NEW s \in Senders, SendStep(s) PROVE boot' = 0
      BY <3>3 DEF SendStep, BudgetGranted, BudgetRefused, Emit, EmitFails, RecordTx
    <3>4. CASE ReadUsage \/ Tick \/ UNCHANGED vars
      BY <3>4 DEF ReadUsage, Tick, vars
    <3>5. QED
      BY <3>1, <3>2, <3>3, <3>4
         DEF Next, SendText, SendNodeinfo, SendTelemetry, SendPosition, OwnSend,
             SendRoutingAck, SendTracerouteReply, SendTelemetryReply, Reply, SendRawRelay
  <2>3. QED
    BY <2>1, <2>2, PTL DEF Spec
<1>2. Inv /\ boot = 0 /\ OvershootBounded => WithinLimit
  <2> SUFFICES ASSUME Inv, boot = 0, OvershootBounded PROVE WithinLimit
    OBVIOUS
  <2>1. /\ now \in Nat /\ emitted \in Seq(Emission) /\ MaxAir \in Nat
        /\ Budget \in Nat /\ WindowSeconds \in Nat
    BY Typed, TxAssumption DEF Inv
  <2>2. \A n \in DOMAIN emitted : emitted[n].boot = boot
    <3>1. \A n \in DOMAIN emitted : emitted[n].boot \in Nat /\ emitted[n].boot <= boot
      BY <2>1, EmissionTimes DEF Inv, Past
    <3>2. QED
      BY <3>1
  <2>3. {n \in DOMAIN emitted : InWindow(emitted[n])}
          = {n \in DOMAIN emitted : InWindow(emitted[n]) /\ emitted[n].boot = boot}
    BY <2>2
  <2>4. EmittedEver = EmittedThisBoot
    BY <2>3 DEF EmittedEver, EmittedThisBoot, TotalWhere
  <2>5. (Cardinality(Senders) - 1) * MaxAir = 0
    BY <2>1
  <2>6. EmittedThisBoot <= Budget + 0
    BY <2>5 DEF OvershootBounded
  <2>7. Budget + 0 = Budget
    BY <2>1
  <2>8. QED
    BY <2>4, <2>6, <2>7 DEF WithinLimit
<1>3. QED
  BY <1>1, <1>2, Invariance, DutyCycle, PTL
=============================================================================
