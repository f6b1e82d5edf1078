-------------------------- MODULE MarketRefreshProofs --------------------------
(***************************************************************************)
(* Proofs about MarketRefresh, for any companies, securities, histories,   *)
(* requirements and limits, with any failures: who represents a company;   *)
(* and about EffectiveDating, the abstract specification of the tables     *)
(* that keep the history of such decisions.  The two share nothing but     *)
(* this module.                                                            *)
(***************************************************************************)
EXTENDS MarketRefresh, EffectiveDating,
        FiniteSetTheorems, SequenceTheorems, NaturalsInduction, TLAPS

--------------------------------------------------------------------------------
(* Least elements and ranks of finite sets. *)

\* A non-empty set has a member on which a natural-valued function is least.
LEMMA LeastValue ==
    ASSUME NEW G, G # {}, NEW rank \in [G -> Nat]
    PROVE  \E x \in G : \A y \in G : rank[x] <= rank[y]
<1> DEFINE T == {rank[x] : x \in G}
<1>1. T \subseteq Nat /\ T # {}
  OBVIOUS
<1> HIDE DEF T
<1>2. PICK n \in T : \A m \in T : ~ (<<m, n>> \in OpToRel(<, Nat))
  BY <1>1, NatLessThanWellFounded, WFMin
<1>3. ASSUME NEW m \in T PROVE n <= m
  <2>1. m \in Nat /\ n \in Nat
    BY <1>1
  <2>2. ~ (m < n)
    BY <1>2, <2>1, Zenon DEF OpToRel
  <2> QED
    BY <2>1, <2>2
<1>4. PICK x \in G : n = rank[x]
  BY DEF T
<1>5. \A y \in G : rank[y] \in T
  BY DEF T
<1> QED
  BY <1>3, <1>4, <1>5

Below(S, R, x) == {y \in S : <<y, x>> \in R}

\* Further along a strict order more is below.
LEMMA BelowGrows ==
    ASSUME NEW S, IsFiniteSet(S), NEW R,
           \A x, y, z \in S : <<x, y>> \in R /\ <<y, z>> \in R => <<x, z>> \in R,
           \A x \in S : <<x, x>> \notin R,
           NEW x \in S, NEW y \in S, <<x, y>> \in R
    PROVE  /\ Cardinality(Below(S, R, x)) \in Nat /\ Cardinality(Below(S, R, y)) \in Nat
           /\ Cardinality(Below(S, R, x)) < Cardinality(Below(S, R, y))
<1>1. /\ Below(S, R, x) \in SUBSET Below(S, R, y)
      /\ x \in Below(S, R, y) /\ x \notin Below(S, R, x)
  BY DEF Below
<1>2. /\ IsFiniteSet(Below(S, R, x)) /\ IsFiniteSet(Below(S, R, y))
  <2>1. Below(S, R, x) \in SUBSET S /\ Below(S, R, y) \in SUBSET S
    BY DEF Below
  <2> QED
    BY <2>1, FS_Subset
<1>3. Cardinality(Below(S, R, x)) \in Nat /\ Cardinality(Below(S, R, y)) \in Nat
  BY <1>2, FS_CardinalityType
<1>4. /\ Cardinality(Below(S, R, x)) <= Cardinality(Below(S, R, y))
      /\ Cardinality(Below(S, R, x)) # Cardinality(Below(S, R, y))
  BY <1>1, <1>2, FS_Subset
<1> QED
  BY <1>3, <1>4

\* A finite non-empty set has a member with nothing below it.
LEMMA MinimalElement ==
    ASSUME NEW S, IsFiniteSet(S), S # {}, NEW R,
           \A x, y, z \in S : <<x, y>> \in R /\ <<y, z>> \in R => <<x, z>> \in R,
           \A x \in S : <<x, x>> \notin R
    PROVE  \E x \in S : \A y \in S : <<y, x>> \notin R
<1> DEFINE rank == [x \in S |-> Cardinality(Below(S, R, x))]
<1>1. rank \in [S -> Nat]
  <2>1. ASSUME NEW x \in S PROVE Cardinality(Below(S, R, x)) \in Nat
    <3>1. Below(S, R, x) \in SUBSET S
      BY DEF Below
    <3> QED
      BY <3>1, FS_Subset, FS_CardinalityType
  <2> QED
    BY <2>1
<1>2. PICK x \in S : \A y \in S : rank[x] <= rank[y]
  <2> HIDE DEF rank
  <2> QED
    BY <1>1, LeastValue
<1>3. ASSUME NEW y \in S, <<y, x>> \in R PROVE FALSE
  <2>1. rank[y] < rank[x] /\ rank[x] \in Nat /\ rank[y] \in Nat
    BY <1>3, BelowGrows
  <2> HIDE DEF rank
  <2> QED
    BY <1>2, <2>1
<1> QED
  BY <1>3

--------------------------------------------------------------------------------
(* The statistics of a history. *)

LEMMA HistoryFields ==
    ASSUME NEW h \in Histories
    PROVE  /\ h.start \in Int
           /\ \A d \in Sessions : /\ h.bars[d].close \in Int /\ h.bars[d].adjusted \in Int
                                  /\ h.bars[d].volume \in Int
                                  /\ DollarVolume(h, d) \in Int
                                  /\ h.bars[d].close > 0 /\ h.bars[d].volume > 0
                                       => DollarVolume(h, d) > 0
           /\ h.bars \in [Sessions -> [close: Amount, adjusted: Amount, volume: Amount]]
           /\ h.calendar \in BOOLEAN
<1>1. h \in HistoryType
  BY RefreshAssumption
<1>2. h.bars \in [Sessions -> [close: Amount, adjusted: Amount, volume: Amount]]
      /\ h.start \in Int /\ h.calendar \in BOOLEAN
  BY <1>1 DEF HistoryType
<1>3. ASSUME NEW d \in Sessions
      PROVE  /\ h.bars[d].close \in Int /\ h.bars[d].adjusted \in Int
             /\ h.bars[d].volume \in Int
  BY <1>2 DEF Amount, None
<1>4. \A x, y \in Int : x * y \in Int /\ (x > 0 /\ y > 0 => x * y > 0)
  OBVIOUS
<1> QED
  BY <1>2, <1>3, <1>4 DEF DollarVolume

LEMMA SessionSets ==
    ASSUME NEW S \in SUBSET Sessions
    PROVE  IsFiniteSet(S) /\ Cardinality(S) \in Nat
<1>1. IsFiniteSet(Sessions)
  BY SelectionAssumption, FS_Interval DEF Sessions
<1> QED
  BY <1>1, FS_Subset, FS_CardinalityType

\* The latest valid bar is one and no valid bar is later.
LEMMA LatestIsLast ==
    ASSUME NEW h \in Histories, Valid(h) # {}
    PROVE  Latest(h) \in Valid(h) /\ \A e \in Valid(h) : e <= Latest(h)
<1> DEFINE back == [d \in Valid(h) |-> LastSession - d]
<1>1. \A d \in Valid(h) : d \in Int /\ LastSession - d \in Nat
  BY SelectionAssumption DEF Valid, Sessions
<1>2. PICK d \in Valid(h) : \A e \in Valid(h) : back[d] <= back[e]
  <2>1. back \in [Valid(h) -> Nat]
    BY <1>1
  <2> HIDE DEF back
  <2> QED
    BY <2>1, LeastValue
<1>3. \A e \in Valid(h) : e <= d
  BY <1>1, <1>2, SelectionAssumption
<1> QED
  BY <1>3 DEF Latest

\* e comes no later than d when days are sorted by dollar volume.
NoLater(h, e, d) ==
    \/ DollarVolume(h, e) < DollarVolume(h, d)
    \/ DollarVolume(h, e) = DollarVolume(h, d) /\ e <= d

LEMMA PlaceRange ==
    ASSUME NEW h \in Histories, NEW S \in SUBSET Sessions, NEW d \in S
    PROVE  Place(h, S, d) \in 1 .. Cardinality(S)
<1> DEFINE B == {e \in S : NoLater(h, e, d)}
<1>1. Place(h, S, d) = Cardinality(B)
  BY DEF Place, NoLater
<1>2. d \in B
  <2>1. d \in Int
    BY DEF Sessions
  <2> QED
    BY <2>1 DEF NoLater
<1>3. B \in SUBSET S /\ B \in SUBSET Sessions
  OBVIOUS
<1> HIDE DEF B
<1>4. IsFiniteSet(B) /\ Cardinality(B) \in Nat /\ Cardinality(B) <= Cardinality(S)
  BY <1>3, SessionSets, FS_Subset
<1>5. Cardinality(B) # 0
  BY <1>2, <1>4, FS_EmptySet
<1>6. Cardinality(S) \in Nat
  BY SessionSets
<1> QED
  BY <1>1, <1>4, <1>5, <1>6

\* Who comes strictly before has a smaller place.
LEMMA PlaceGrows ==
    ASSUME NEW h \in Histories, NEW S \in SUBSET Sessions, NEW d \in S, NEW e \in S,
           NoLater(h, e, d), e # d
    PROVE  Place(h, S, e) < Place(h, S, d)
<1> DEFINE B(x) == {y \in S : NoLater(h, y, x)}
<1>1. Place(h, S, e) = Cardinality(B(e)) /\ Place(h, S, d) = Cardinality(B(d))
  BY DEF Place, NoLater
<1>2. \A x \in S : x \in Int /\ DollarVolume(h, x) \in Int
  BY HistoryFields DEF Sessions
<1>3. B(e) \in SUBSET B(d) /\ d \in B(d) /\ d \notin B(e)
  BY <1>2 DEF NoLater
<1>4. /\ IsFiniteSet(B(d)) /\ Cardinality(B(d)) \in Nat /\ Cardinality(B(e)) \in Nat
  <2>1. B(d) \in SUBSET Sessions /\ B(e) \in SUBSET Sessions
    OBVIOUS
  <2> HIDE DEF B
  <2> QED
    BY <2>1, SessionSets
<1> HIDE DEF B
<1>5. Cardinality(B(e)) <= Cardinality(B(d)) /\ Cardinality(B(e)) # Cardinality(B(d))
  BY <1>3, <1>4, FS_Subset
<1> QED
  BY <1>1, <1>4, <1>5

\* Every place is taken.
LEMMA PlaceTaken ==
    ASSUME NEW h \in Histories, NEW S \in SUBSET Sessions, NEW k \in 1 .. Cardinality(S)
    PROVE  \E d \in S : Place(h, S, d) = k
<1> DEFINE n == Cardinality(S)
           place == [d \in S |-> Place(h, S, d)]
<1>1. n \in Nat /\ IsFiniteSet(S)
  BY SessionSets
<1>2. place \in [S -> 1 .. n]
  BY PlaceRange
<1>3. ASSUME NEW d \in S, NEW e \in S, d # e PROVE place[d] # place[e]
  <2>1. NoLater(h, e, d) \/ NoLater(h, d, e)
    BY HistoryFields DEF NoLater, Sessions
  <2>2. Place(h, S, e) < Place(h, S, d) \/ Place(h, S, d) < Place(h, S, e)
    BY <1>3, <2>1, PlaceGrows
  <2>3. Place(h, S, d) \in Int /\ Place(h, S, e) \in Int
    BY PlaceRange
  <2> QED
    BY <2>2, <2>3
<1>4. IsFiniteSet(1 .. n) /\ Cardinality(1 .. n) = n
  <2> HIDE DEF n
  <2> QED
    BY <1>1, FS_Interval
<1> HIDE DEF n, place
<1>5. place \in Injection(S, 1 .. n)
  BY <1>2, <1>3 DEF Injection, IsInjective
<1>6. place \in Surjection(S, 1 .. n)
  BY <1>4, <1>5, FS_Injection DEF n
<1>7. \E d \in S : place[d] = k
  BY <1>6 DEF Surjection, n
<1> QED
  BY <1>7 DEF place

\* The days of S that are at place k or, if k is a middle place, decide the
\* median from one side.
LEMMA PlaceSplits ==
    ASSUME NEW h \in Histories, NEW S \in SUBSET Sessions, NEW d \in S, NEW v \in Int
    PROVE  LET enough == {e \in S : DollarVolume(h, e) >= v}
           IN  /\ DollarVolume(h, d) >= v
                    => Cardinality(S) - Cardinality(enough) <= Place(h, S, d) - 1
               /\ DollarVolume(h, d) < v
                    => Cardinality(S) - Cardinality(enough) >= Place(h, S, d)
<1> DEFINE enough == {e \in S : DollarVolume(h, e) >= v}
           little == S \ enough
           B == {e \in S : NoLater(h, e, d)}
<1>1. Place(h, S, d) = Cardinality(B)
  BY DEF Place, NoLater
<1>2. \A x \in S : x \in Int /\ DollarVolume(h, x) \in Int
  BY HistoryFields DEF Sessions
<1>3. enough \cup little = S /\ enough \cap little = {}
  OBVIOUS
<1>4. /\ IsFiniteSet(enough) /\ Cardinality(enough) \in Nat
      /\ IsFiniteSet(little) /\ Cardinality(little) \in Nat
      /\ IsFiniteSet(B) /\ Cardinality(B) \in Nat
  <2>1. enough \in SUBSET Sessions /\ little \in SUBSET Sessions /\ B \in SUBSET Sessions
    OBVIOUS
  <2> HIDE DEF enough, little, B
  <2> QED
    BY <2>1, SessionSets
<1>5. Cardinality(S) = Cardinality(enough) + Cardinality(little)
  <2> HIDE DEF enough, little
  <2>1. Cardinality(enough \cup little)
          = Cardinality(enough) + Cardinality(little) - Cardinality(enough \cap little)
    BY <1>4, FS_Union
  <2>2. Cardinality(enough \cap little) = 0
    BY <1>3, FS_EmptySet
  <2>3. Cardinality(enough \cup little) = Cardinality(S)
    BY <1>3
  <2> QED
    BY <1>4, <2>1, <2>2, <2>3
<1>6. ASSUME DollarVolume(h, d) >= v PROVE Cardinality(little) <= Cardinality(B) - 1
  <2>1. little \in SUBSET (B \ {d}) /\ d \in B
    BY <1>2, <1>6 DEF NoLater
  <2> HIDE DEF enough, little, B
  <2>2. IsFiniteSet(B \ {d}) /\ Cardinality(B \ {d}) = Cardinality(B) - 1
    BY <1>4, <2>1, FS_RemoveElement
  <2> QED
    BY <2>1, <2>2, FS_Subset
<1>7. ASSUME DollarVolume(h, d) < v PROVE Cardinality(little) >= Cardinality(B)
  <2>1. B \in SUBSET little
    BY <1>2, <1>7 DEF NoLater
  <2> HIDE DEF enough, little, B
  <2>2. Cardinality(B) <= Cardinality(little)
    BY <1>4, <2>1, FS_Subset
  <2> QED
    BY <1>4, <2>2
<1> HIDE DEF little, B
<1> QED
  BY <1>1, <1>4, <1>5, <1>6, <1>7

\* Half of the traded days decide on which side of v the median is.
LEMMA MedianDecides ==
    ASSUME NEW h \in Histories, NEW v \in Nat
    PROVE  LET busy == {d \in Traded(h) : DollarVolume(h, d) >= v}
           IN  /\ MedianVolume(h) \in Int
               /\ MedianVolume(h) # None /\ MedianVolume(h) >= 2 * v
                    => /\ Traded(h) # {}
                       /\ 2 * Cardinality(busy) >= Cardinality(Traded(h))
               /\ Traded(h) # {} => MedianVolume(h) > 0
               /\ 2 * Cardinality(busy) > Cardinality(Traded(h))
                    => MedianVolume(h) >= 2 * v
<1> DEFINE T == Traded(h)
           n == Cardinality(T)
           busy == {d \in T : DollarVolume(h, d) >= v}
           low == (n + 1) \div 2
           high == n \div 2 + 1
           day(k) == CHOOSE d \in T : Place(h, T, d) = k
<1>1. T = {d \in Recent(h) : h.bars[d].volume > 0}
  BY DEF Traded, Recent, Usable, Valid
<1>2. T \in SUBSET Sessions
  BY DEF Traded, Usable
<1>3. MedianVolume(h) = IF n = 0 THEN None
                        ELSE DollarVolume(h, day(low)) + DollarVolume(h, day(high))
  BY <1>1 DEF MedianVolume
<1>4. /\ IsFiniteSet(T) /\ n \in Nat
      /\ IsFiniteSet(busy) /\ Cardinality(busy) \in Nat /\ Cardinality(busy) <= n
  <2>1. busy \in SUBSET T /\ busy \in SUBSET Sessions
    BY <1>2
  <2> HIDE DEF T, busy
  <2> QED
    BY <1>2, <2>1, SessionSets, FS_Subset
<1>5. n = 0 <=> T = {}
  BY <1>4, FS_EmptySet
<1>6. CASE n = 0
  <2> HIDE DEF T, n, busy
  <2> QED
    BY <1>3, <1>4, <1>5, <1>6 DEF None, T, n, busy
<1>7. CASE n # 0
  <2>1. low \in 1 .. n /\ high \in 1 .. n /\ low <= high
    <3> HIDE DEF n
    <3> QED
      BY <1>4, <1>7
  <2>2. \A k \in 1 .. n : day(k) \in T /\ Place(h, T, day(k)) = k
    <3>1. \A k \in 1 .. n : \E d \in T : Place(h, T, d) = k
      BY <1>2, PlaceTaken
    <3> HIDE DEF T, n
    <3> QED
      BY <3>1
  <2>3. \A d \in T : DollarVolume(h, d) \in Int /\ DollarVolume(h, d) > 0
    BY <1>2, HistoryFields DEF Traded, Usable
  <2> DEFINE a == day(low)
             b == day(high)
  <2>4. /\ a \in T /\ Place(h, T, a) = low
        /\ b \in T /\ Place(h, T, b) = high
    BY <2>1, <2>2
  <2> HIDE DEF day, a, b
  <2>5. DollarVolume(h, a) <= DollarVolume(h, b)
    <3>1. CASE NoLater(h, b, a) /\ a # b
      <4>1. high < low
        BY <1>2, <2>4, <3>1, PlaceGrows
      <4> HIDE DEF n
      <4> QED
        BY <1>4, <2>1, <4>1
    <3>2. CASE a = b
      BY <2>3, <2>4, <3>2
    <3>3. CASE ~NoLater(h, b, a)
      BY <2>3, <2>4, <3>3 DEF NoLater
    <3> QED
      BY <3>1, <3>2, <3>3
  <2>6. ASSUME DollarVolume(h, a) + DollarVolume(h, b) >= 2 * v
        PROVE  2 * Cardinality(busy) >= n
    <3>1. DollarVolume(h, b) >= v
      BY <2>3, <2>4, <2>5, <2>6
    <3>2. n - Cardinality(busy) <= high - 1
      BY <1>2, <2>4, <3>1, PlaceSplits
    <3> HIDE DEF n, busy
    <3> QED
      BY <1>4, <3>2
  <2>7. ASSUME 2 * Cardinality(busy) > n
        PROVE  DollarVolume(h, a) + DollarVolume(h, b) >= 2 * v
    <3>1. ~ (DollarVolume(h, a) < v)
      <4>1. ASSUME DollarVolume(h, a) < v
            PROVE  n - Cardinality(busy) >= low
        BY <1>2, <2>4, <4>1, PlaceSplits
      <4> HIDE DEF n, busy
      <4> QED
        BY <1>4, <2>7, <4>1
    <3> QED
      BY <2>3, <2>4, <2>5, <3>1
  <2>8. MedianVolume(h) = DollarVolume(h, a) + DollarVolume(h, b)
    BY <1>3, <1>7 DEF a, b
  <2>9. MedianVolume(h) \in Int /\ MedianVolume(h) > 0
    BY <2>3, <2>4, <2>8
  <2> HIDE DEF n, busy
  <2> QED
    BY <1>4, <1>5, <1>7, <2>6, <2>7, <2>8, <2>9 DEF T, n, busy
<1> QED
  BY <1>6, <1>7

--------------------------------------------------------------------------------
(* EligibleSecuritySelector. *)

StatisticsType == [history: Int, volume: Int, missing: Int, close: Int]
ProfileType == [status: Statuses, statistics: StatisticsType, age: Int]

\* What Key is made of.
LEMMA KeyParts ==
    ASSUME NEW row \in ProfileType, NEW s \in Securities
    PROVE  /\ Key(row, s) \in Seq(Int)
           /\ Len(Key(row, s)) = 8
           /\ Key(row, s)[1] = Descending(row.statistics.volume)[1]
           /\ Key(row, s)[2] = Descending(row.statistics.volume)[2]
<1> DEFINE p == Descending(row.statistics.volume)
           q == Descending(row.statistics.history)
           m == Ascending(row.statistics.missing)
           l == <<row.age, Ticker[s]>>
<1>1. row.statistics \in StatisticsType /\ row.age \in Int /\ Ticker[s] \in Int
  BY SelectionAssumption DEF ProfileType
<1>2. /\ p \in Seq(Int) /\ Len(p) = 2
      /\ q \in Seq(Int) /\ Len(q) = 2
      /\ m \in Seq(Int) /\ Len(m) = 2
      /\ l \in Seq(Int) /\ Len(l) = 2
  BY <1>1 DEF Descending, Ascending, StatisticsType
<1>3. Key(row, s) = ((p \o q) \o m) \o l
  BY DEF Key
<1> HIDE DEF p, q, m, l
<1>4. /\ p \o q \in Seq(Int) /\ Len(p \o q) = 4
      /\ (p \o q)[1] = p[1] /\ (p \o q)[2] = p[2]
  <2>1. /\ p \o q \in Seq(Int) /\ Len(p \o q) = Len(p) + Len(q)
        /\ \A i \in 1 .. Len(p) + Len(q) : (p \o q)[i] =
              IF i <= Len(p) THEN p[i] ELSE q[i - Len(p)]
    BY <1>2, ConcatProperties
  <2> QED
    BY <1>2, <2>1
<1>5. /\ (p \o q) \o m \in Seq(Int) /\ Len((p \o q) \o m) = 6
      /\ ((p \o q) \o m)[1] = p[1] /\ ((p \o q) \o m)[2] = p[2]
  BY <1>2, <1>4, ConcatProperties
<1>6. /\ ((p \o q) \o m) \o l \in Seq(Int) /\ Len(((p \o q) \o m) \o l) = 8
      /\ (((p \o q) \o m) \o l)[1] = p[1] /\ (((p \o q) \o m) \o l)[2] = p[2]
  BY <1>2, <1>5, ConcatProperties
<1> QED
  BY <1>3, <1>6 DEF p

\* The order of keys is strict.
LEMMA BeforeIsStrict ==
    /\ \A k \in Seq(Int) : ~Before(k, k)
    /\ \A k, l, m \in Seq(Int) :
         Len(k) = 8 /\ Len(l) = 8 /\ Len(m) = 8 /\ Before(k, l) /\ Before(l, m)
           => Before(k, m)
<1>1. \A k \in Seq(Int) : \A i \in DOMAIN k : k[i] \in Int
  OBVIOUS
<1>2. ASSUME NEW k \in Seq(Int), NEW l \in Seq(Int), NEW m \in Seq(Int),
             Len(k) = 8, Len(l) = 8, Len(m) = 8, Before(k, l), Before(l, m)
      PROVE  Before(k, m)
  <2>1. DOMAIN k = 1 .. 8 /\ DOMAIN l = 1 .. 8 /\ DOMAIN m = 1 .. 8
    BY <1>2
  <2>2. \A i \in 1 .. 8 : k[i] \in Int /\ l[i] \in Int /\ m[i] \in Int
    BY <1>1, <2>1
  <2>3. PICK i \in 1 .. 8 : k[i] < l[i] /\ \A j \in 1 .. i - 1 : k[j] = l[j]
    BY <1>2, <2>1 DEF Before
  <2>4. PICK j \in 1 .. 8 : l[j] < m[j] /\ \A x \in 1 .. j - 1 : l[x] = m[x]
    BY <1>2, <2>1 DEF Before
  <2>5. CASE i <= j
    <3>1. k[i] < m[i]
      <4>1. CASE i = j
        <5>1. l[i] < m[i]
          BY <2>4, <4>1
        <5>2. k[i] \in Int /\ l[i] \in Int /\ m[i] \in Int
          BY <2>2
        <5> QED
          BY <2>3, <5>1, <5>2
      <4>2. CASE i < j
        <5>1. i \in 1 .. j - 1
          BY <4>2
        <5>2. l[i] = m[i]
          BY <2>4, <5>1
        <5> QED
          BY <2>3, <5>2
      <4> QED
        BY <2>5, <4>1, <4>2
    <3>2. \A x \in 1 .. i - 1 : k[x] = m[x]
      BY <2>3, <2>4, <2>5
    <3> QED
      BY <2>1, <3>1, <3>2 DEF Before
  <2>6. CASE j < i
    <3>1. k[j] < m[j]
      BY <2>2, <2>3, <2>4, <2>6
    <3>2. \A x \in 1 .. j - 1 : k[x] = m[x]
      BY <2>3, <2>4, <2>6
    <3> QED
      BY <2>1, <3>1, <3>2 DEF Before
  <2> QED
    BY <2>5, <2>6
<1> QED
  BY <1>1, <1>2 DEF Before

\* The selector finds a security, and none comes before it.
LEMMA SelectIsBest ==
    ASSUME NEW table \in [Securities -> ProfileType], NEW S \in SUBSET Securities, S # {}
    PROVE  /\ Select(table, S) \in S
           /\ \A t \in S : ~Before(Key(table[t], t), Key(table[Select(table, S)], Select(table, S)))
<1> DEFINE K(s) == Key(table[s], s)
           R == {x \in S \X S : Before(K(x[1]), K(x[2]))}
<1>1. IsFiniteSet(S)
  BY SelectionAssumption, FS_Subset
<1>2. \A s \in S : K(s) \in Seq(Int) /\ Len(K(s)) = 8
  BY KeyParts
<1> HIDE DEF K
<1>3. /\ \A x, y, z \in S : <<x, y>> \in R /\ <<y, z>> \in R => <<x, z>> \in R
      /\ \A x \in S : <<x, x>> \notin R
  BY <1>2, BeforeIsStrict
<1>4. \A x, y \in S : <<x, y>> \in R <=> Before(K(x), K(y))
  OBVIOUS
<1> HIDE DEF R
<1>5. \E x \in S : \A y \in S : <<y, x>> \notin R
  BY <1>1, <1>3, MinimalElement
<1>6. \E x \in S : \A y \in S : ~Before(K(y), K(x))
  BY <1>4, <1>5
<1> QED
  BY <1>6 DEF Select, K

\* None of the others has a higher volume.
LEMMA SelectIsMostLiquid ==
    ASSUME NEW table \in [Securities -> ProfileType], NEW S \in SUBSET Securities,
           NEW s \in S, table[s].statistics.volume # None
    PROVE  table[Select(table, S)].statistics.volume >= table[s].statistics.volume
<1> DEFINE t == Select(table, S)
           v == table[t].statistics.volume
           w == table[s].statistics.volume
           k == Key(table[s], s)
           l == Key(table[t], t)
<1>1. t \in S /\ ~Before(k, l)
  BY SelectIsBest
<1>2. v \in Int /\ w \in Int
  BY <1>1 DEF ProfileType, StatisticsType
<1>3. /\ k \in Seq(Int) /\ Len(k) = 8
      /\ k[1] = Descending(w)[1] /\ k[2] = Descending(w)[2]
      /\ l[1] = Descending(v)[1] /\ l[2] = Descending(v)[2]
  BY <1>1, KeyParts
<1> HIDE DEF t, v, w, k, l
<1>4. k[1] = 0 /\ k[2] = -w
  BY <1>3 DEF Descending, w
<1>5. DOMAIN k = 1 .. 8
  BY <1>3
<1>6. ASSUME v = None PROVE FALSE
  <2>1. k[1] < l[1] /\ \A j \in 1 .. 1 - 1 : k[j] = l[j]
    BY <1>3, <1>4, <1>6 DEF Descending
  <2> QED
    BY <1>1, <1>5, <2>1 DEF Before
<1>7. l[1] = 0 /\ l[2] = -v
  BY <1>3, <1>6 DEF Descending
<1>8. ASSUME w > v PROVE FALSE
  <2>1. k[2] < l[2] /\ \A j \in 1 .. 2 - 1 : k[j] = l[j]
    BY <1>2, <1>4, <1>7, <1>8
  <2> QED
    BY <1>1, <1>5, <2>1 DEF Before
<1> QED
  BY <1>2, <1>8 DEF t, v, w

--------------------------------------------------------------------------------
(* What the stored profiles say of the histories behind them. *)

\* A profile is that of the history the last scan has found, or of a scan that
\* has found none.
ScanFits(row, h) ==
    \/ /\ h \in Histories
       /\ row.status = Profile[h].status
       /\ row.statistics = Profile[h].statistics
    \/ h = NoAnswer /\ row.status # "success"

RefreshInv ==
    /\ profiles \in [Securities -> ProfileType]
    /\ DOMAIN answered = Securities
    /\ \A s \in Securities : ScanFits(profiles[s], answered[s])

LEMMA ForeverType == Forever \in Int
<1> DEFINE S == {RefreshAfter, RetryAfter, MaximumAge}
<1>1. RefreshAfter \in Int /\ RetryAfter \in Int /\ MaximumAge \in Int
  BY RefreshAssumption, SelectionAssumption
<1>2. \E n \in S : \A m \in S : m <= n
  BY <1>1
<1>3. PICK n \in S : Forever = 1 + n
  BY <1>2 DEF Forever
<1> QED
  BY <1>1, <1>3

LEMMA NoStatisticsType == NoStatistics \in StatisticsType
BY DEF NoStatistics, StatisticsType, None

LEMMA ProfileOf ==
    ASSUME NEW h \in Histories
    PROVE  /\ Profile[h] = Calculate(h)
           /\ Profile[h].status \in Statuses /\ Profile[h].statistics \in StatisticsType
<1>1. Profile[h] = Calculate(h)
  BY DEF Profile
<1>2. CASE Valid(h) = {}
  BY <1>1, <1>2, NoStatisticsType DEF Calculate, Statuses
<1>3. CASE Valid(h) # {}
  <2>1. Latest(h) \in Sessions /\ Latest(h) \in Int
    BY <1>3, LatestIsLast DEF Valid, Sessions
  <2>2. /\ h.start \in Int
        /\ h.bars[Latest(h)].close \in Int /\ h.bars[Latest(h)].adjusted \in Int
    BY <2>1, HistoryFields
  <2>3. MissingDays(h) \in Int
    <3>1. Sessions \ Valid(h) \in SUBSET Sessions
      OBVIOUS
    <3> QED
      BY <3>1, SessionSets DEF MissingDays, None
  <2>4. MedianVolume(h) \in Int
    BY MedianDecides
  <2>5. Calculate(h).status = "success" /\ Calculate(h).statistics \in StatisticsType
    BY <1>3, <2>1, <2>2, <2>3, <2>4 DEF Calculate, StatisticsType, None
  <2> QED
    BY <1>1, <2>5 DEF Statuses
<1> QED
  BY <1>2, <1>3

LEMMA RefreshInit == Init => RefreshInv
<1> SUFFICES ASSUME Init PROVE RefreshInv
  OBVIOUS
<1>1. NoRow \in ProfileType
  BY ForeverType, NoStatisticsType DEF NoRow, ProfileType, Statuses
<1>2. NoRow.status # "success"
  BY DEF NoRow
<1> QED
  BY <1>1, <1>2 DEF Init, RefreshInv, ScanFits

\* A scan that has an outcome writes the profile that fits it.
LEMMA UpsertFits ==
    ASSUME RefreshInv, NEW s, NEW status \in Statuses, NEW statistics \in StatisticsType,
           Upsert(s, status, statistics), NEW h,
           answered' = [answered EXCEPT ![s] = h],
           \A age : ScanFits([status |-> status, statistics |-> statistics, age |-> age], h)
    PROVE  /\ profiles' \in [Securities -> ProfileType]
           /\ DOMAIN answered' = Securities
           /\ \A t \in Securities : ScanFits(profiles'[t], answered'[t])
<1> DEFINE row == [status |-> status, statistics |-> statistics, age |-> 0]
<1>1. row \in ProfileType
  BY DEF ProfileType
<1>2. profiles' = [profiles EXCEPT ![s] = row]
  BY DEF Upsert
<1>3. ScanFits(row, h)
  OBVIOUS
<1> HIDE DEF row
<1> QED
  BY <1>1, <1>2, <1>3 DEF RefreshInv

LEMMA RefreshNext == RefreshInv /\ [Next]_vars => RefreshInv'
<1> SUFFICES ASSUME RefreshInv, [Next]_vars PROVE RefreshInv'
  OBVIOUS
<1>1. CASE UNCHANGED <<profiles, answered, universes>>
  BY <1>1 DEF RefreshInv, ScanFits, universes
<1>2. CASE TimePasses
  <2>1. /\ profiles' = [s \in Securities |-> [profiles[s] EXCEPT !.age =
                          IF @ < Forever THEN @ + 1 ELSE @]]
        /\ UNCHANGED <<answered, universes>>
    BY <1>2 DEF TimePasses
  <2>2. ASSUME NEW s \in Securities
        PROVE  /\ profiles'[s] \in ProfileType
               /\ profiles'[s].status = profiles[s].status
               /\ profiles'[s].statistics = profiles[s].statistics
    <3>1. profiles[s] \in ProfileType
      BY DEF RefreshInv
    <3>2. profiles[s].age \in Int
      BY <3>1 DEF ProfileType
    <3>3. (IF profiles[s].age < Forever THEN profiles[s].age + 1 ELSE profiles[s].age) \in Int
      BY <3>2
    <3>4. profiles'[s] = [profiles[s] EXCEPT !.age =
            IF profiles[s].age < Forever THEN profiles[s].age + 1 ELSE profiles[s].age]
      BY <2>1
    <3> QED
      BY <3>1, <3>3, <3>4 DEF ProfileType
  <2>3. profiles' \in [Securities -> ProfileType]
    BY <2>1, <2>2
  <2> QED
    BY <2>1, <2>2, <2>3 DEF RefreshInv, ScanFits, universes
<1>3. CASE ScanTarget
  <2>1. PICK h \in Histories :
          /\ Upsert(Head(queue), Profile[h].status, Profile[h].statistics)
          /\ answered' = [answered EXCEPT ![Head(queue)] = h]
    BY <1>3 DEF ScanTarget
  <2>2. Profile[h].status \in Statuses /\ Profile[h].statistics \in StatisticsType
    BY ProfileOf
  <2>3. \A age : ScanFits([status |-> Profile[h].status, statistics |-> Profile[h].statistics,
                           age |-> age], h)
    BY DEF ScanFits
  <2>4. /\ profiles' \in [Securities -> ProfileType] /\ DOMAIN answered' = Securities
        /\ \A t \in Securities : ScanFits(profiles'[t], answered'[t])
    BY <2>1, <2>2, <2>3, UpsertFits
  <2>5. UNCHANGED universes
    BY <1>3 DEF ScanTarget
  <2> QED
    BY <2>4, <2>5 DEF RefreshInv, universes
<1>4. CASE ScanFails
  <2>1. PICK status \in {"temporary_failure", "instrument_not_found"} :
          Upsert(Head(queue), status, NoStatistics)
    BY <1>4 DEF ScanFails
  <2>2. status \in Statuses
    BY DEF Statuses
  <2>3. \A age : ScanFits([status |-> status, statistics |-> NoStatistics, age |-> age], NoAnswer)
    BY DEF ScanFits
  <2>4. answered' = [answered EXCEPT ![Head(queue)] = NoAnswer] /\ UNCHANGED universes
    BY <1>4 DEF ScanFails
  <2>5. /\ profiles' \in [Securities -> ProfileType] /\ DOMAIN answered' = Securities
        /\ \A t \in Securities : ScanFits(profiles'[t], answered'[t])
    BY <2>1, <2>2, <2>3, <2>4, NoStatisticsType, UpsertFits
  <2> QED
    BY <2>4, <2>5 DEF RefreshInv, universes
<1>5. CASE Train
  BY <1>5 DEF Train, RefreshInv, ScanFits, rows
<1>6. CASE Score
  BY <1>6 DEF Score, RefreshInv, ScanFits, rows
<1> QED
  BY <1>1, <1>2, <1>3, <1>4, <1>5, <1>6
     DEF Next, JobStep, CatalogChanges, StartJob, FinishProfiles, JobFails, rows, vars

LEMMA RefreshCorrect == Spec => []RefreshInv
BY RefreshInit, RefreshNext, PTL DEF Spec

--------------------------------------------------------------------------------
(* The decisions of the training universe. *)

\* Only the evaluation of the training universe leads to that of the scoring
\* universe.
LEMMA OnlyTrain ==
    ASSUME [Next]_vars, phase = "training", phase' = "scoring"
    PROVE  /\ training' = [c \in Companies |-> TrainingDecision(profiles, current, c)]
           /\ UNCHANGED <<current, profiles, answered>>
BY DEF Next, JobStep, TimePasses, CatalogChanges, StartJob, ScanTarget, ScanFails,
       FinishProfiles, JobFails, Train, Score, job, rows, vars

Candidates(c) == {s \in Securities : Company[s] = c /\ Eligible(profiles, current, s)}

\* A member is represented by a candidate that meets the requirements.
LEMMA DecisionSelects ==
    ASSUME RefreshInv, NEW c \in Companies
    PROVE  LET s == Select(profiles, Candidates(c))
           IN  /\ TrainingDecision(profiles, current, c) # Excluded
                    => /\ TrainingDecision(profiles, current, c) = s
                       /\ s \in Candidates(c)
                       /\ Passes(profiles[s].statistics)
               /\ /\ TrainingDecision(profiles, current, c) = Excluded
                  /\ DataProfile[c] # NoData
                  /\ DataProfile[c].annual >= MinimumAnnual
                  /\ DataProfile[c].coverage >= MinimumCoverage
                  /\ Candidates(c) # {}
                  => s \in Candidates(c) /\ ~Passes(profiles[s].statistics)
<1> DEFINE S == Candidates(c)
           s == Select(profiles, S)
           decision == TrainingDecision(profiles, current, c)
<1>1. S \in SUBSET Securities /\ profiles \in [Securities -> ProfileType]
  BY DEF Candidates, RefreshInv
<1>2. S # {} => s \in S
  BY <1>1, SelectIsBest
<1>3. decision = IF /\ DataProfile[c] # NoData
                    /\ DataProfile[c].annual >= MinimumAnnual
                    /\ DataProfile[c].coverage >= MinimumCoverage
                    /\ S # {}
                    /\ Passes(profiles[s].statistics)
                 THEN s ELSE Excluded
  BY DEF TrainingDecision, Candidates
<1>4. Excluded \notin S
  BY <1>1, SelectionAssumption
<1> HIDE DEF S, s, decision
<1>5. decision # Excluded => decision = s /\ s \in S /\ Passes(profiles[s].statistics)
  BY <1>2, <1>3
<1>6. ASSUME decision = Excluded, DataProfile[c] # NoData,
             DataProfile[c].annual >= MinimumAnnual,
             DataProfile[c].coverage >= MinimumCoverage,
             S # {}
      PROVE  s \in S /\ ~Passes(profiles[s].statistics)
  <2>1. s \in S /\ decision # s
    BY <1>2, <1>4, <1>6
  <2>2. ASSUME Passes(profiles[s].statistics) PROVE FALSE
    BY <1>3, <1>6, <2>1, <2>2
  <2> QED
    BY <2>1, <2>2
<1> QED
  BY <1>5, <1>6 DEF S, s, decision

\* No session, no usable bar: NoAnswer is the answer of no successful scan.
LEMMA SuccessfulScan ==
    ASSUME NEW row \in ProfileType, NEW h, ScanFits(row, h), row.status = "success"
    PROVE  /\ h \in Histories
           /\ Valid(h) # {}
           /\ h # NoAnswer
           /\ row.statistics = Calculate(h).statistics
<1>1. /\ h \in Histories
      /\ Profile[h].status = "success"
      /\ row.statistics = Profile[h].statistics
  BY DEF ScanFits
<1>2. Profile[h] = Calculate(h)
  BY <1>1, ProfileOf
<1>3. Valid(h) # {}
  BY <1>1, <1>2 DEF Calculate
<1>4. PICK d \in Sessions : TRUE
  BY <1>3 DEF Valid
<1>5. DOMAIN h.bars = Sessions
  BY <1>1, HistoryFields
<1>6. DOMAIN NoAnswer.bars = {}
  BY DEF NoAnswer
<1>7. h # NoAnswer
  BY <1>4, <1>5, <1>6
<1> QED
  BY <1>1, <1>2, <1>3, <1>7

\* What is known of a security is what its row says, once its bars are usable.
LEMMA StatisticsOf ==
    ASSUME NEW h \in Histories, Valid(h) # {}
    PROVE  LET p == Calculate(h).statistics
               n == Cardinality(Sessions \ Usable(h))
           IN  /\ Calculate(h).status = "success"
               /\ p.history = IF h.start = None THEN None ELSE Latest(h) - h.start
               /\ p.volume = MedianVolume(h)
               /\ p.missing = IF h.calendar THEN n ELSE None
               /\ p.close # None
               /\ n \in Nat
               /\ Latest(h) \in Usable(h) /\ \A d \in Usable(h) : d <= Latest(h)
<1>1. Usable(h) = Valid(h)
  BY DEF Usable, Valid
<1>2. Latest(h) \in Valid(h) /\ \A d \in Valid(h) : d <= Latest(h)
  BY LatestIsLast
<1>3. Sessions # {} /\ Latest(h) \in Sessions
  BY <1>2 DEF Valid
<1>4. Cardinality(Sessions \ Usable(h)) \in Nat
  <2>1. Sessions \ Usable(h) \in SUBSET Sessions
    OBVIOUS
  <2> QED
    BY <2>1, SessionSets
<1>5. h.bars[Latest(h)].close # None
  BY <1>2 DEF Valid, None
<1> QED
  BY <1>1, <1>2, <1>3, <1>4, <1>5 DEF Calculate, MissingDays

\* A profile passes only if the bars meet the requirements, and it does pass if
\* more than half of the traded days have enough volume.
LEMMA PassesMeans ==
    ASSUME NEW h \in Histories, Valid(h) # {}
    PROVE  /\ Passes(Calculate(h).statistics) => h \in MayQualify
           /\ h \in MustQualify => Passes(Calculate(h).statistics)
<1> DEFINE p == Calculate(h).statistics
           n == Cardinality(Sessions \ Usable(h))
           size == Cardinality(Traded(h))
           half == Cardinality(Busy(h))
<1>1. /\ p.history = IF h.start = None THEN None ELSE Latest(h) - h.start
      /\ p.volume = MedianVolume(h)
      /\ p.missing = IF h.calendar THEN n ELSE None
      /\ p.close # None /\ n \in Nat
      /\ Latest(h) \in Usable(h) /\ \A d \in Usable(h) : d <= Latest(h)
  BY StatisticsOf
<1>2. \A d \in Usable(h) : d \in Int
  BY DEF Usable, Sessions
<1>3. h.start \in Int /\ h.calendar \in BOOLEAN
  BY HistoryFields
<1>4. MinimumVolume \in Nat /\ MinimumHistory \in Nat /\ MaximumMissing \in Nat
  BY SelectionAssumption
<1>5. /\ MedianVolume(h) \in Int
      /\ MedianVolume(h) # None /\ MedianVolume(h) >= 2 * MinimumVolume
           => Traded(h) # {} /\ 2 * half >= size
      /\ Traded(h) # {} => MedianVolume(h) > 0
      /\ 2 * half > size => MedianVolume(h) >= 2 * MinimumVolume
  BY <1>4, MedianDecides DEF Busy
<1>6. n # None
  BY <1>1 DEF None
<1> HIDE DEF p, n, size, half
<1>7. ASSUME Passes(p) PROVE h \in MayQualify
  <2>1. /\ p.history # None /\ p.history >= MinimumHistory
        /\ p.volume # None /\ p.volume >= 2 * MinimumVolume
        /\ h.calendar => n <= MaximumMissing
    BY <1>1, <1>3, <1>6, <1>7 DEF Passes
  <2>2. h.start # None /\ Latest(h) - h.start >= MinimumHistory
    BY <1>1, <2>1
  <2>3. Traded(h) # {} /\ 2 * half >= size
    BY <1>1, <1>5, <2>1
  <2> QED
    BY <1>1, <2>1, <2>2, <2>3 DEF MayQualify, Covered, n, size, half
<1>8. ASSUME h \in MustQualify PROVE Passes(p)
  <2>1. /\ h.calendar => n <= MaximumMissing
        /\ h.start # None
        /\ Traded(h) # {} /\ 2 * half > size
    BY <1>8 DEF MustQualify, Covered, n, size, half
  <2>2. PICK d \in Usable(h) : d - h.start >= MinimumHistory
    BY <1>8 DEF MustQualify, Covered
  <2>3. Latest(h) - h.start >= MinimumHistory /\ Latest(h) - h.start # None
    BY <1>1, <1>2, <1>3, <1>4, <2>2 DEF None
  <2>4. MedianVolume(h) # None /\ MedianVolume(h) >= 2 * MinimumVolume
    BY <1>5, <2>1 DEF None
  <2> QED
    BY <1>1, <1>3, <2>1, <2>3, <2>4 DEF Passes
<1> QED
  BY <1>7, <1>8 DEF p

\* When the training universe is decided, a member is represented by a current
\* security whose latest scan is recent and found a history that meets the
\* requirements.
THEOREM MembersCorrect == Spec => MembersQualify
<1>1. ASSUME RefreshInv, [Next]_vars, phase = "training", phase' = "scoring",
             NEW c \in Companies, training'[c] # Excluded
      PROVE  Known(training'[c]) /\ answered[training'[c]] \in MayQualify
  <2> DEFINE s == training'[c]
  <2>1. s = TrainingDecision(profiles, current, c)
    BY <1>1, OnlyTrain
  <2>2. s \in Candidates(c) /\ Passes(profiles[s].statistics)
    BY <1>1, <2>1, DecisionSelects
  <2> HIDE DEF s
  <2>3. /\ s \in Securities /\ s \in current
        /\ profiles[s].status = "success" /\ profiles[s].age <= MaximumAge
    BY <2>2 DEF Candidates, Eligible
  <2>4. profiles[s] \in ProfileType /\ ScanFits(profiles[s], answered[s])
    BY <1>1, <2>3 DEF RefreshInv
  <2>5. /\ answered[s] \in Histories /\ Valid(answered[s]) # {}
        /\ answered[s] # NoAnswer
        /\ profiles[s].statistics = Calculate(answered[s]).statistics
    BY <2>3, <2>4, SuccessfulScan
  <2>6. answered[s] \in MayQualify
    BY <2>2, <2>5, PassesMeans
  <2>7. Known(s)
    BY <2>3, <2>5 DEF Known
  <2> QED
    BY <2>6, <2>7 DEF s
<1>2. RefreshInv /\ [Next]_vars =>
        [phase = "training" /\ phase' = "scoring" =>
           \A c \in Companies : training'[c] # Excluded =>
             Known(training'[c]) /\ answered[training'[c]] \in MayQualify]_vars
  BY <1>1
<1> QED
  BY <1>2, RefreshCorrect, PTL DEF Spec, MembersQualify

\* A company that has a recently scanned security whose bars more than meet the
\* requirements, and enough reports, is left out only for another security that
\* is at least as liquid.
THEOREM OnlyDisplacedCorrect == Spec => OnlyDisplaced
<1>1. ASSUME RefreshInv, [Next]_vars, phase = "training", phase' = "scoring",
             NEW s \in Securities, Known(s), answered[s] \in MustQualify,
             DataProfile[Company[s]].annual >= MinimumAnnual,
             DataProfile[Company[s]].coverage >= MinimumCoverage,
             training'[Company[s]] = Excluded
      PROVE  \E t \in Securities \ {s} :
               /\ Company[t] = Company[s]
               /\ Known(t)
               /\ Volume(answered[t]) >= Volume(answered[s])
  <2> DEFINE c == Company[s]
             h == answered[s]
             t == Select(profiles, Candidates(c))
  <2>1. c \in Companies
    BY SelectionAssumption
  <2>2. TrainingDecision(profiles, current, c) = Excluded
    BY <1>1, <2>1, OnlyTrain
  <2>3. /\ profiles \in [Securities -> ProfileType]
        /\ \A x \in Securities : ScanFits(profiles[x], answered[x])
    BY <1>1 DEF RefreshInv
  <2>4. h \in Histories /\ h # NoAnswer /\ s \in current /\ profiles[s].age <= MaximumAge
    BY <1>1 DEF MustQualify, Known
  <2>5. Valid(h) # {}
    BY <1>1 DEF MustQualify, Covered, Usable, Valid
  <2>6. profiles[s].status = "success" /\ profiles[s].statistics = Calculate(h).statistics
    <3>1. profiles[s].status = Profile[h].status /\ profiles[s].statistics = Profile[h].statistics
      BY <2>3, <2>4 DEF ScanFits
    <3> QED
      BY <2>4, <2>5, <3>1, ProfileOf, StatisticsOf
  <2> HIDE DEF h
  <2>7. /\ profiles[s].statistics.close # None
        /\ Passes(profiles[s].statistics)
    BY <1>1, <2>4, <2>5, <2>6, StatisticsOf, PassesMeans DEF h
  <2>8. s \in Candidates(c)
    BY <2>4, <2>6, <2>7 DEF Candidates, Eligible
  <2>9. DataProfile[c] # NoData
    <3>1. DataProfile[c].annual >= MinimumAnnual /\ MinimumAnnual \in Nat
      BY <1>1, SelectionAssumption
    <3> QED
      BY <3>1 DEF NoData, None
  <2>10. t \in Candidates(c) /\ ~Passes(profiles[t].statistics)
    BY <1>1, <2>1, <2>2, <2>8, <2>9, DecisionSelects
  <2>11. profiles[s].statistics.volume # None
    BY <2>7 DEF Passes
  <2>12. profiles[t].statistics.volume >= profiles[s].statistics.volume
    <3>1. Candidates(c) \in SUBSET Securities
      BY DEF Candidates
    <3> QED
      BY <2>3, <2>8, <2>11, <3>1, SelectIsMostLiquid
  <2> HIDE DEF t, c
  <2>13. /\ t \in Securities /\ Company[t] = Company[s] /\ t \in current
         /\ profiles[t].status = "success" /\ profiles[t].age <= MaximumAge
    BY <2>10 DEF Candidates, Eligible, c
  <2>14. t # s
    BY <2>7, <2>10
  <2>15. /\ answered[t] \in Histories /\ answered[t] # NoAnswer
         /\ profiles[t].statistics = Calculate(answered[t]).statistics
    BY <2>3, <2>13, SuccessfulScan
  <2>16. Volume(answered[t]) = profiles[t].statistics.volume
    BY <2>15, ProfileOf DEF Volume
  <2>17. Volume(answered[s]) = profiles[s].statistics.volume
    BY <2>4, <2>6, ProfileOf DEF Volume, h
  <2>18. Known(t)
    BY <2>13, <2>15 DEF Known
  <2> QED
    BY <2>12, <2>13, <2>14, <2>16, <2>17, <2>18
<1>2. RefreshInv /\ [Next]_vars =>
        [phase = "training" /\ phase' = "scoring" =>
           \A s \in Securities :
             /\ Known(s)
             /\ answered[s] \in MustQualify
             /\ DataProfile[Company[s]].annual >= MinimumAnnual
             /\ DataProfile[Company[s]].coverage >= MinimumCoverage
             /\ training'[Company[s]] = Excluded
             => \E t \in Securities \ {s} :
                  /\ Company[t] = Company[s]
                  /\ Known(t)
                  /\ Volume(answered[t]) >= Volume(answered[s])]_vars
  BY <1>1
<1> QED
  BY <1>2, RefreshCorrect, PTL DEF Spec, OnlyDisplaced

--------------------------------------------------------------------------------
(***************************************************************************)
(* The histories in which decisions like these are recorded: what every    *)
(* implementation of EffectiveDating promises, for all subjects, values    *)
(* and dates.                                                              *)
(***************************************************************************)

\* Every statement below assumes that 0 is not a date.
LEMMA DateFacts ==
    ASSUME DatesArePositive PROVE \A d \in Dates : d \in Nat /\ d # 0
    BY DEF DatesArePositive

Disjoint(x, y) ==
    \/ x.until # 0 /\ x.until <= y.from
    \/ y.until # 0 /\ y.until <= x.from

\* The rows of one subject.
RowsOK(entries) ==
    /\ entries \in SUBSET RowOf
    /\ \A x, y \in entries : x # y => Disjoint(x, y)

Shut(x, date) == IF x.until = 0 THEN [x EXCEPT !.until = date] ELSE x

\* Closing keeps value and start of a row and gives it an end.
LEMMA ShutRow ==
    ASSUME DatesArePositive, NEW x \in RowOf, NEW date \in Dates
    PROVE  /\ Shut(x, date) \in RowOf
           /\ Shut(x, date).value = x.value
           /\ Shut(x, date).from = x.from
           /\ Shut(x, date).until = IF x.until = 0 THEN date ELSE x.until
           /\ Shut(x, date).until # 0
    BY DateFacts DEF Shut, RowOf

\* Rows that follow each other still do after closing at a recorded date.
LEMMA ClosedOK ==
    ASSUME DatesArePositive, NEW old, RowsOK(old), NEW date \in Dates, Recorded(old, date)
    PROVE  RowsOK(Closed(old, date))
<1> DEFINE new == Closed(old, date)
<1>1. new = {Shut(x, date) : x \in old}
  BY DEF Closed, Shut
<1>2. new \in SUBSET RowOf
  BY <1>1, ShutRow DEF RowsOK
<1>3. ASSUME NEW x \in old, NEW y \in old, Shut(x, date) # Shut(y, date)
      PROVE  Disjoint(Shut(x, date), Shut(y, date))
  <2>1. x # y /\ Disjoint(x, y) /\ x \in RowOf /\ y \in RowOf
    BY <1>3 DEF RowsOK
  <2>2. x.from \in Nat /\ y.from \in Nat /\ x.until \in Nat /\ y.until \in Nat /\ date \in Nat
    BY <2>1, DateFacts DEF RowOf
  <2>3. x.from <= date /\ y.from <= date
    BY DEF Recorded
  <2>4. /\ Shut(x, date).from = x.from /\ Shut(y, date).from = y.from
        /\ Shut(x, date).until = IF x.until = 0 THEN date ELSE x.until
        /\ Shut(y, date).until = IF y.until = 0 THEN date ELSE y.until
    BY <2>1, ShutRow
  <2>5. date # 0
    BY DateFacts
  <2> HIDE DEF Shut
  <2> QED
    BY <2>1, <2>2, <2>3, <2>4, <2>5 DEF Disjoint
<1> QED
  BY <1>1, <1>2, <1>3 DEF RowsOK

\* A new open row follows all closed ones.
LEMMA OpenedOK ==
    ASSUME DatesArePositive, NEW old, RowsOK(old), NEW date \in Dates, Recorded(old, date), NEW v \in Values
    PROVE  RowsOK(Closed(old, date) \cup {[value |-> v, from |-> date, until |-> 0]})
<1> DEFINE opened == [value |-> v, from |-> date, until |-> 0]
<1>1. RowsOK(Closed(old, date))
  BY ClosedOK
<1>2. opened \in RowOf
  BY DEF RowOf
<1>3. ASSUME NEW x \in Closed(old, date)
      PROVE  Disjoint(x, opened) /\ Disjoint(opened, x)
  <2>1. PICK y \in old : x = Shut(y, date)
    BY DEF Closed, Shut
  <2>2. y \in RowOf /\ y.until <= date
    BY DEF RowsOK, Recorded
  <2>3. x.until = (IF y.until = 0 THEN date ELSE y.until) /\ x.until # 0
    BY <2>1, <2>2, ShutRow
  <2>4. date \in Nat
    BY DateFacts
  <2>5. x.until <= date
    BY <2>2, <2>3, <2>4
  <2> QED
    BY <2>3, <2>5 DEF Disjoint
<1> QED
  BY <1>1, <1>2, <1>3 DEF RowsOK

\* The inductive invariant.
HistoryInv == history \in [Subjects -> SUBSET RowOf] /\ \A s \in Subjects : RowsOK(history[s])

LEMMA HistoryInvInductive ==
    ASSUME DatesArePositive PROVE HistorySpec => []HistoryInv
<1>1. HistoryInit => HistoryInv
  BY DEF HistoryInit, HistoryInv, RowsOK
<1>2. HistoryInv /\ [HistoryNext]_history => HistoryInv'
  <2> SUFFICES ASSUME HistoryInv, [HistoryNext]_history PROVE HistoryInv'
    OBVIOUS
  <2>1. CASE UNCHANGED history
    BY <2>1 DEF HistoryInv
  <2>2. CASE HistoryNext
    <3>1. history' \in [Subjects -> SUBSET RowOf]
      BY <2>2 DEF HistoryNext
    <3>2. ASSUME NEW s \in Subjects PROVE RowsOK(history'[s])
      <4>1. CASE history'[s] = history[s]
        BY <4>1 DEF HistoryInv
      <4>2. CASE Revised(history[s], history'[s])
        <5>1. PICK date \in Dates :
                /\ Recorded(history[s], date)
                /\ \/ history'[s] = Closed(history[s], date)
                   \/ \E v \in Values :
                        history'[s] = Closed(history[s], date)
                                        \cup {[value |-> v, from |-> date, until |-> 0]}
          BY <4>2 DEF Revised
        <5>2. RowsOK(history[s])
          BY DEF HistoryInv
        <5> QED
          BY <5>1, <5>2, ClosedOK, OpenedOK
      <4> QED
        BY <2>2, <4>1, <4>2 DEF HistoryNext
    <3> QED
      BY <3>1, <3>2 DEF HistoryInv
  <2> QED
    BY <2>1, <2>2
<1> QED
  BY <1>1, <1>2, PTL DEF HistorySpec

\* Rows never overlap and only the last one is open, however often a subject's
\* value is changed, given up and taken back.
THEOREM HistoryIsDisjoint ==
    ASSUME DatesArePositive PROVE HistorySpec => []RowsAreDisjoint
<1>1. HistoryInv => RowsAreDisjoint
  BY DEF HistoryInv, RowsOK, Disjoint, RowsAreDisjoint
<1> QED
  BY <1>1, HistoryInvInductive, PTL

\* An as-of query never finds two values.
THEOREM OneValuePerDate ==
    ASSUME DatesArePositive PROVE HistorySpec => []AsOfIsUnique
<1>1. HistoryInv => AsOfIsUnique
  <2> SUFFICES ASSUME HistoryInv, NEW s \in Subjects, NEW date \in Dates,
                      NEW v \in AsOf(s, date), NEW w \in AsOf(s, date)
               PROVE  v = w
    BY DEF AsOfIsUnique
  <2>1. PICK x \in history[s] : InForce(x, date) /\ v = x.value
    BY DEF AsOf
  <2>2. PICK y \in history[s] : InForce(y, date) /\ w = y.value
    BY DEF AsOf
  <2>3. x = y \/ Disjoint(x, y)
    BY DEF HistoryInv, RowsOK
  <2>4. x \in RowOf /\ y \in RowOf
    BY DEF HistoryInv
  <2>5. /\ x.from \in Nat /\ y.from \in Nat /\ date \in Nat
        /\ x.until \in Nat /\ y.until \in Nat
    BY <2>4, DateFacts DEF RowOf
  <2> QED
    BY <2>1, <2>2, <2>3, <2>5 DEF InForce, Disjoint
<1> QED
  BY <1>1, HistoryInvInductive, PTL

\* At a date before the one at which rows are closed, the closed row is in
\* force exactly where the open one was.
LEMMA ShutInForce ==
    ASSUME DatesArePositive, NEW x \in RowOf, NEW d \in Dates, NEW date \in Dates, date < d
    PROVE  InForce(Shut(x, d), date) <=> InForce(x, date)
  BY ShutRow, DateFacts DEF InForce

\* Point-in-time answers from before the last change are final.
THEOREM PastAnswersAreFinal ==
    ASSUME DatesArePositive PROVE HistorySpec => PastIsFinal
<1>1. ASSUME HistoryInv, [HistoryNext]_history, NEW s \in Subjects, NEW date \in Dates,
             NEW z \in history[s], date < z.from \/ date < z.until
      PROVE  AsOf(s, date)' = AsOf(s, date)
  <2> DEFINE answers(entries) == {x.value : x \in {y \in entries : InForce(y, date)}}
  <2>1. history' = history \/ HistoryNext
    BY <1>1
  <2>2. CASE history'[s] = history[s]
    BY <2>2 DEF AsOf, InForce
  <2>3. CASE Revised(history[s], history'[s])
    <3>1. PICK d \in Dates :
            /\ Recorded(history[s], d)
            /\ \/ history'[s] = Closed(history[s], d)
               \/ \E v \in Values :
                    history'[s] = Closed(history[s], d)
                                    \cup {[value |-> v, from |-> d, until |-> 0]}
      BY <2>3 DEF Revised
    <3>2. date < d /\ history[s] \subseteq RowOf
      <4>1. z \in RowOf /\ z.from <= d /\ z.until <= d /\ history[s] \subseteq RowOf
        BY <1>1, <3>1 DEF HistoryInv, Recorded
      <4>2. z.from \in Nat /\ z.until \in Nat /\ d \in Nat /\ date \in Nat
        BY <4>1, DateFacts DEF RowOf
      <4> QED
        BY <4>1, <4>2, <1>1
    <3>3. \A x \in history[s] : /\ InForce(Shut(x, d), date) <=> InForce(x, date)
                                /\ Shut(x, d).value = x.value
      BY <3>2, ShutInForce, ShutRow
    <3>4. Closed(history[s], d) = {Shut(x, d) : x \in history[s]}
      BY DEF Closed, Shut
    <3>5. answers(Closed(history[s], d)) = answers(history[s])
      <4> HIDE DEF Shut
      <4> QED
        BY <3>3, <3>4
    <3>6. ASSUME NEW v \in Values
          PROVE  ~ InForce([value |-> v, from |-> d, until |-> 0], date)
      BY <3>2, DateFacts DEF InForce
    <3>7. answers(history'[s]) = answers(history[s])
      BY <3>1, <3>5, <3>6
    <3> QED
      BY <3>7 DEF AsOf
  <2> QED
    BY <2>1, <2>2, <2>3 DEF HistoryNext
<1>2. HistoryInv /\ [HistoryNext]_history =>
        [\A s \in Subjects, date \in Dates :
           (\E x \in history[s] : date < x.from \/ date < x.until) =>
             AsOf(s, date)' = AsOf(s, date)]_history
  BY <1>1
<1> QED
  BY <1>2, HistoryInvInductive, PTL DEF HistorySpec, PastIsFinal
================================================================================
