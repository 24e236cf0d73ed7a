--------------------------- MODULE MetricsProofs ---------------------------
(***************************************************************************)
(* Theorems about the metrics of both processes, for any keys, handlers,   *)
(* partitions and batch size: what is counted reaches the log once,        *)
(* little is left in memory between requests, and the inflight counter     *)
(* is the work of the workers at every step.  Each process is taken alone, *)
(* for each has a sink of its own.                                         *)
(***************************************************************************)
EXTENDS ApiMetrics, ConsumerMetrics, FoldLemmas, FiniteSetTheorems, SequenceTheorems

----------------------------------------------------------------------------
(* The sink, whoever uses it. *)

Totals == [counters : [Counters -> Nat], durations : [Timers -> Nat]]

SinkType ==
  /\ counters \in [Counters -> Nat]
  /\ gauges \in [Gauges -> Int \cup {NoValue}]
  /\ timers \in [Timers -> Seq(Nat)]
  /\ logged.total \in Totals
  /\ told \in Totals

SinkInv == SinkType /\ NothingLostOrDoubled

(* What a user of the sink can do to it in one step. *)
SinkStep ==
  \/ \E k \in Counters, n \in Nat : IncCounter(k, n)
  \/ \E k \in Gauges, v \in Int : SetGauge(k, v)
  \/ \E k \in Timers, d \in Nat : ObserveDuration(k, d)
  \/ Flush
  \/ UNCHANGED sink

LEMMA NothingType == Nothing \in Totals
BY DEF Nothing, Totals

LEMMA SinkStarts == SinkInit => SinkInv
BY NothingType, EmptySeq DEF SinkInit, SinkInv, SinkType, NothingLostOrDoubled, Nothing, Totals

LEMMA IncCounterKeeps ==
  ASSUME SinkInv, NEW k \in Counters, NEW n \in Nat, IncCounter(k, n)
  PROVE  SinkInv'
<1>1. told' \in Totals /\ told'.durations = told.durations
  <2>1. /\ told.counters \in [Counters -> Nat] /\ told.durations \in [Timers -> Nat]
        /\ told = [counters |-> told.counters, durations |-> told.durations]
    BY DEF SinkInv, SinkType, Totals
  <2>2. told' = [counters |-> [told.counters EXCEPT ![k] = @ + n],
                 durations |-> told.durations]
    BY <2>1 DEF IncCounter
  <2> QED BY <2>1, <2>2 DEF Totals
<1>2. told'.counters = [told.counters EXCEPT ![k] = @ + n]
  BY DEF IncCounter, SinkInv, SinkType, Totals
<1>3. NothingLostOrDoubled'
  <2>1. /\ told.counters \in [Counters -> Nat] /\ logged.total.counters \in [Counters -> Nat]
        /\ counters \in [Counters -> Nat]
    BY DEF SinkInv, SinkType, Totals
  <2>2. /\ counters' = [counters EXCEPT ![k] = @ + n]
        /\ logged' = logged /\ timers' = timers
    BY DEF IncCounter
  <2>3. ASSUME NEW j \in Counters
        PROVE  logged'.total.counters[j] + counters'[j] = told'.counters[j]
    <3>1. logged.total.counters[j] + counters[j] = told.counters[j]
      BY DEF SinkInv, NothingLostOrDoubled
    <3> QED BY <1>2, <2>1, <2>2, <3>1
  <2>4. ASSUME NEW j \in Timers
        PROVE  logged'.total.durations[j] + Len(timers'[j]) = told'.durations[j]
    BY <1>1, <2>2 DEF SinkInv, NothingLostOrDoubled
  <2> QED BY <2>3, <2>4 DEF NothingLostOrDoubled
<1>4. SinkType'
  BY <1>1 DEF IncCounter, SinkInv, SinkType
<1> QED BY <1>3, <1>4 DEF SinkInv

LEMMA SetGaugeKeeps ==
  ASSUME SinkInv, NEW k \in Gauges, NEW v \in Int, SetGauge(k, v)
  PROVE  SinkInv'
BY DEF SetGauge, SinkInv, SinkType, NothingLostOrDoubled, Totals

LEMMA ObserveDurationKeeps ==
  ASSUME SinkInv, NEW k \in Timers, NEW d \in Nat, ObserveDuration(k, d)
  PROVE  SinkInv'
<1>1. /\ timers'[k] = Append(timers[k], d)
      /\ \A j \in Timers \ {k} : timers'[j] = timers[j]
  BY DEF ObserveDuration, SinkInv, SinkType
<1>2. timers' \in [Timers -> Seq(Nat)] /\ Len(timers'[k]) = Len(timers[k]) + 1
  BY <1>1 DEF ObserveDuration, SinkInv, SinkType
<1>3. told' \in Totals /\ told'.counters = told.counters
  <2>1. /\ told.counters \in [Counters -> Nat] /\ told.durations \in [Timers -> Nat]
        /\ told = [counters |-> told.counters, durations |-> told.durations]
    BY DEF SinkInv, SinkType, Totals
  <2>2. told' = [counters |-> told.counters,
                 durations |-> [told.durations EXCEPT ![k] = @ + 1]]
    BY <2>1 DEF ObserveDuration
  <2> QED BY <2>1, <2>2 DEF Totals
<1>4. told'.durations = [told.durations EXCEPT ![k] = @ + 1]
  BY DEF ObserveDuration, SinkInv, SinkType, Totals
<1>5. \A j \in Timers : Len(timers[j]) \in Nat
  BY DEF SinkInv, SinkType
<1>6. NothingLostOrDoubled'
  <2>1. /\ told.durations \in [Timers -> Nat] /\ logged.total.durations \in [Timers -> Nat]
        /\ counters' = counters /\ logged' = logged
    BY DEF ObserveDuration, SinkInv, SinkType, Totals
  <2>2. ASSUME NEW j \in Timers
        PROVE  logged'.total.durations[j] + Len(timers'[j]) = told'.durations[j]
    <3>1. logged.total.durations[j] + Len(timers[j]) = told.durations[j]
      BY DEF SinkInv, NothingLostOrDoubled
    <3>2. CASE j = k
      <4>1. Len(timers'[k]) = Len(timers[k]) + 1 /\ Len(timers[k]) \in Nat
        BY <1>2, <1>5
      <4>2. told'.durations[k] = told.durations[k] + 1
        BY <1>4, <2>1
      <4>3. told.durations[k] \in Nat /\ logged.total.durations[k] \in Nat
        BY <2>1
      <4> QED BY <2>1, <3>1, <3>2, <4>1, <4>2, <4>3
    <3>3. CASE j # k
      BY <1>1, <1>4, <1>5, <2>1, <3>1, <3>3
    <3> QED BY <3>2, <3>3
  <2>3. ASSUME NEW j \in Counters
        PROVE  logged'.total.counters[j] + counters'[j] = told'.counters[j]
    BY <1>3, <2>1 DEF SinkInv, NothingLostOrDoubled
  <2> QED BY <2>2, <2>3 DEF NothingLostOrDoubled
<1>7. SinkType'
  BY <1>2, <1>3 DEF ObserveDuration, SinkInv, SinkType
<1> QED BY <1>6, <1>7 DEF SinkInv

LEMMA FlushKeeps ==
  ASSUME SinkInv, Flush
  PROVE  SinkInv'
<1>1. /\ logged'.total.counters = [k \in Counters |-> logged.total.counters[k] + counters[k]]
      /\ logged'.total.durations = [k \in Timers |-> logged.total.durations[k] + Len(timers[k])]
      /\ logged'.total = [counters |-> logged'.total.counters, durations |-> logged'.total.durations]
  BY DEF Flush
<1>2. \A k \in Timers : Len(timers[k]) \in Nat
  BY DEF SinkInv, SinkType
<1>3. logged'.total \in Totals
  BY <1>1, <1>2 DEF SinkInv, SinkType, Totals
<1>4. /\ counters' = [k \in Counters |-> 0] /\ gauges' = [k \in Gauges |-> NoValue]
      /\ timers' = [k \in Timers |-> <<>>] /\ told' = told
  BY DEF Flush, Nothing
<1>5. SinkType'
  BY <1>3, <1>4, EmptySeq DEF SinkInv, SinkType
<1>6. NothingLostOrDoubled'
  BY <1>1, <1>2, <1>4 DEF SinkInv, SinkType, NothingLostOrDoubled, Totals
<1> QED BY <1>5, <1>6 DEF SinkInv

LEMMA SinkStepKeeps ==
  ASSUME SinkInv, SinkStep
  PROVE  SinkInv'
<1>1. CASE UNCHANGED sink
  BY <1>1 DEF sink, SinkInv, SinkType, NothingLostOrDoubled, Totals
<1> QED
  BY <1>1, IncCounterKeeps, SetGaugeKeeps, ObserveDurationKeeps, FlushKeeps DEF SinkStep

----------------------------------------------------------------------------
(* What Flush says of a window of durations. *)

(* The sum of a window is the sum of its parts. *)
LEMMA SumUnfolds ==
  ASSUME NEW s \in Seq(Nat)
  PROVE  \E f : /\ f[0] = 0 /\ FoldLeft(+, 0, s) = f[Len(s)]
                /\ \A k \in 1..Len(s) : f[k] = f[k - 1] + s[k]
<1> DEFINE n == Len(s)
           g == [t \in Nat \X Int |-> IF t[1] \in 1..n THEN t[2] + s[t[1]] ELSE t[2]]
           Unfolded(h) ==
             h = [d \in SUBSET (1..n) |-> IF d = {} THEN 0 ELSE h[d \ {Max(d)}] + s[Max(d)]]
           iter == CHOOSE h : Unfolded(h)
<1>1. n \in Nat /\ DOMAIN s = 1..n
  OBVIOUS
<1>2. FoldLeft(+, 0, s) = iter[1..n]
  BY <1>1 DEF FoldLeft, MapThenFoldSet
<1>3. \E h : Unfolded(h)
  <2>1. g \in [Nat \X Int -> Int]
    BY <1>1
  <2>2. PICK h : Folds(h, n, Int, 0, g)
    <3>1. 0 \in Int
      OBVIOUS
    <3> HIDE DEF g, n
    <3> QED BY <1>1, <2>1, <3>1, FoldDefined, Zenon
  <2>3. ASSUME NEW d \in SUBSET (1..n), d # {}
        PROVE  h[d] = h[d \ {Max(d)}] + s[Max(d)]
    <3> DEFINE m == Max(d)
               r == d \ {m}
    <3>1. m \in 1..n /\ r \in SUBSET (1..n) /\ h[d] = g[<<m, h[r]>>]
      <4> HIDE DEF g
      <4> QED BY <2>2, <2>3 DEF Folds
    <3>2. h[r] \in Int
      BY <2>2, <3>1 DEF Folds
    <3> HIDE DEF m, r
    <3>3. g[<<m, h[r]>>] = h[r] + s[m]
      BY <1>1, <3>1, <3>2
    <3>4. h[d] = h[r] + s[m]
      BY <3>1, <3>3
    <3> QED BY <3>4 DEF m, r
  <2>4. Unfolded(h)
    BY <2>2, <2>3 DEF Folds
  <2> HIDE DEF Unfolded
  <2> QED BY <2>4
<1>4. Unfolded(iter)
  <2> HIDE DEF Unfolded
  <2> QED BY <1>3
<1>5. iter[{}] = 0
  BY <1>4
<1>6. ASSUME NEW k \in 1..n
      PROVE  iter[1..k] = iter[1..(k - 1)] + s[k]
  <2>1. /\ 1..k # {} /\ 1..k \in SUBSET (1..n)
        /\ Max(1..k) = k /\ (1..k) \ {k} = 1..(k - 1)
    BY <1>1, FoldStep
  <2> DEFINE d == 1..k
             e == 1..(k - 1)
  <2>2. d # {} /\ d \in SUBSET (1..n) /\ Max(d) = k /\ d \ {k} = e
    BY <2>1
  <2>3. iter[d] = iter[e] + s[k]
    <3> HIDE DEF iter, n, d, e
    <3> QED BY <1>4, <2>2
  <2> QED BY <2>3
<1> DEFINE f == [k \in 0..n |-> iter[1..k]]
<1>7. f[0] = 0 /\ FoldLeft(+, 0, s) = f[n] /\ \A k \in 1..n : f[k] = f[k - 1] + s[k]
  <2>1. 1..0 = {}
    OBVIOUS
  <2>2. \A k \in 0..n : f[k] = iter[1..k]
    OBVIOUS
  <2> HIDE DEF iter, f
  <2>3. f[0] = 0
    BY <1>1, <1>5, <2>1, <2>2
  <2>4. f[n] = FoldLeft(+, 0, s)
    <3> DEFINE total == FoldLeft(+, 0, s)
    <3>1. total = iter[1..n]
      BY <1>2
    <3> HIDE DEF total
    <3>2. f[n] = total
      BY <1>1, <2>2, <3>1
    <3> QED BY <3>2 DEF total
  <2>5. ASSUME NEW k \in 1..n PROVE f[k] = f[k - 1] + s[k]
    <3>1. k \in 0..n /\ k - 1 \in 0..n
      BY <1>1
    <3> HIDE DEF n
    <3> QED BY <1>6, <2>2, <3>1
  <2> QED BY <2>3, <2>4, <2>5
<1> HIDE DEF f
<1> QED BY <1>7

(* The mean of a window lies between any bounds of its values. *)
LEMMA SumBounded ==
  ASSUME NEW s \in Seq(Nat), NEW l \in Nat, NEW m \in Nat,
         \A k \in DOMAIN s : l <= s[k] /\ s[k] <= m
  PROVE  /\ FoldLeft(+, 0, s) \in Nat
         /\ Len(s) * l <= FoldLeft(+, 0, s) /\ FoldLeft(+, 0, s) <= Len(s) * m
<1> DEFINE n == Len(s)
<1>1. PICK f : /\ f[0] = 0 /\ FoldLeft(+, 0, s) = f[n]
               /\ \A k \in 1..n : f[k] = f[k - 1] + s[k]
  BY SumUnfolds
<1>2. n \in Nat /\ \A k \in 1..n : s[k] \in Nat /\ l <= s[k] /\ s[k] <= m
  OBVIOUS
<1> DEFINE S == {k \in Nat : k <= n => f[k] \in Nat /\ k * l <= f[k] /\ f[k] <= k * m}
<1> HIDE DEF n
<1>3. 0 \in S
  <2>1. f[0] = 0
    BY <1>1
  <2> QED BY <2>1
<1>4. ASSUME NEW k \in Nat, k \in S
      PROVE  k + 1 \in S
  <2> SUFFICES ASSUME k + 1 <= n
               PROVE  /\ f[k + 1] \in Nat
                      /\ (k + 1) * l <= f[k + 1] /\ f[k + 1] <= (k + 1) * m
    OBVIOUS
  <2>1. f[k] \in Nat /\ k * l <= f[k] /\ f[k] <= k * m
    BY <1>2, <1>4
  <2>2. f[k + 1] = f[k] + s[k + 1]
    <3>1. k + 1 \in 1..n /\ (k + 1) - 1 = k
      BY <1>2
    <3> QED BY <1>1, <3>1
  <2>3. s[k + 1] \in Nat /\ l <= s[k + 1] /\ s[k + 1] <= m
    BY <1>2
  <2>4. (k + 1) * l = k * l + l /\ (k + 1) * m = k * m + m
    OBVIOUS
  <2> QED BY <2>1, <2>2, <2>3, <2>4
<1>5. n \in S
  <2> HIDE DEF S
  <2> QED BY <1>2, <1>3, <1>4, Induction
<1> DEFINE total == FoldLeft(+, 0, s)
<1>6. total = f[n]
  BY <1>1
<1> HIDE DEF total
<1>7. total \in Nat /\ n * l <= total /\ total <= n * m
  BY <1>5, <1>6
<1> QED BY <1>7 DEF total, n

(* How many values lie below v, or not above it. *)
Lower(s, v) == {j \in DOMAIN s : s[j] < v}
UpTo(s, v) == {j \in DOMAIN s : s[j] <= v}

LEMMA CountsTypes ==
  ASSUME NEW s \in Seq(Nat), NEW v \in Int
  PROVE  /\ IsFiniteSet(DOMAIN s) /\ Cardinality(DOMAIN s) = Len(s)
         /\ IsFiniteSet(Lower(s, v)) /\ Cardinality(Lower(s, v)) \in 0..Len(s)
         /\ IsFiniteSet(UpTo(s, v)) /\ Cardinality(UpTo(s, v)) \in 0..Len(s)
<1>1. DOMAIN s = 1..Len(s) /\ Len(s) \in Nat
  OBVIOUS
<1>2. IsFiniteSet(DOMAIN s) /\ Cardinality(DOMAIN s) = Len(s)
  <2> DEFINE n == Len(s)
  <2>1. n \in Nat /\ DOMAIN s = 1..n
    BY <1>1
  <2> HIDE DEF n
  <2>2. IsFiniteSet(1..n) /\ Cardinality(1..n) = n
    BY <2>1, FS_Interval
  <2> QED BY <2>1, <2>2 DEF n
<1>3. ASSUME NEW T, T \subseteq DOMAIN s
      PROVE  IsFiniteSet(T) /\ Cardinality(T) \in 0..Len(s)
  <2>1. IsFiniteSet(T) /\ Cardinality(T) <= Cardinality(DOMAIN s)
    BY <1>2, <1>3, FS_Subset
  <2>2. Cardinality(T) \in Nat
    BY <2>1, FS_CardinalityType
  <2> QED BY <1>1, <1>2, <2>1, <2>2
<1>4. Lower(s, v) \subseteq DOMAIN s /\ UpTo(s, v) \subseteq DOMAIN s
  BY DEF Lower, UpTo
<1> QED BY <1>2, <1>3, <1>4

(* A window has a largest value or is empty. *)
LEMMA WindowBounded ==
  ASSUME NEW s \in Seq(Nat)
  PROVE  \E v \in Nat : UpTo(s, v) = DOMAIN s
<1> DEFINE S == {n \in Nat : n <= Len(s) => \E v \in Nat : \A j \in 1..n : s[j] <= v}
<1>1. Len(s) \in Nat /\ DOMAIN s = 1..Len(s) /\ \A j \in DOMAIN s : s[j] \in Nat
  OBVIOUS
<1>2. 0 \in S
  OBVIOUS
<1>3. ASSUME NEW n \in Nat, n \in S
      PROVE  n + 1 \in S
  <2> SUFFICES ASSUME n + 1 <= Len(s)
               PROVE  \E v \in Nat : \A j \in 1..(n + 1) : s[j] <= v
    OBVIOUS
  <2>1. PICK v \in Nat : \A j \in 1..n : s[j] <= v
    BY <1>1, <1>3
  <2> DEFINE w == IF s[n + 1] <= v THEN v ELSE s[n + 1]
  <2>2. s[n + 1] \in Nat
    BY <1>1
  <2>3. w \in Nat /\ v <= w /\ s[n + 1] <= w
    BY <2>2
  <2>4. \A j \in 1..(n + 1) : s[j] <= w
    <3> HIDE DEF w
    <3> SUFFICES ASSUME NEW j \in 1..(n + 1) PROVE s[j] <= w
      OBVIOUS
    <3>1. s[j] \in Nat
      BY <1>1
    <3> QED BY <2>1, <2>3, <3>1
  <2> HIDE DEF w
  <2> QED BY <2>3, <2>4
<1>4. Len(s) \in S
  <2> HIDE DEF S
  <2> QED BY <1>1, <1>2, <1>3, Induction
<1>5. PICK v \in Nat : \A j \in 1..Len(s) : s[j] <= v
  BY <1>1, <1>4
<1>6. UpTo(s, v) = DOMAIN s
  BY <1>1, <1>5 DEF UpTo
<1> QED BY <1>6

LEMMA Smallest ==
  ASSUME NEW s \in Seq(Nat), s # <<>>
  PROVE  \E k \in DOMAIN s : \A j \in DOMAIN s : s[k] <= s[j]
<1> DEFINE S == {s[k] : k \in DOMAIN s}
<1>1. S \in SUBSET Nat /\ s[1] \in S
  OBVIOUS
<1>2. PICK m \in S : \A n \in S : m <= n
  <2> HIDE DEF S
  <2> QED BY <1>1, LeastNumber
<1> QED BY <1>2

(* What Sorted puts at place k is there: the least number that k values do   *)
(* not exceed is one of the values.                                          *)
LEMMA SortedRank ==
  ASSUME NEW s \in Seq(Nat), NEW k \in 1..Len(s)
  PROVE  /\ Sorted(s)[k] \in Nat
         /\ Cardinality(Lower(s, Sorted(s)[k])) < k
         /\ Cardinality(UpTo(s, Sorted(s)[k])) >= k
<1> DEFINE S == {v \in Nat : Cardinality(UpTo(s, v)) >= k}
           Ranked(v) == Cardinality(Lower(s, v)) < k /\ Cardinality(UpTo(s, v)) >= k
<1>1. Len(s) \in Nat /\ DOMAIN s = 1..Len(s) /\ \A j \in DOMAIN s : s[j] \in Nat
  OBVIOUS
<1>2. S # {}
  <2>1. PICK v \in Nat : UpTo(s, v) = DOMAIN s
    BY WindowBounded
  <2>2. Cardinality(UpTo(s, v)) = Len(s)
    BY <2>1, CountsTypes
  <2> QED BY <2>2
<1>3. PICK v \in S : \A u \in S : v <= u
  <2> HIDE DEF S
  <2>1. S \in SUBSET Nat
    BY DEF S
  <2> QED BY <1>2, <2>1, LeastNumber
<1>4. Cardinality(Lower(s, v)) < k
  <2>1. CASE v = 0
    <3>1. Lower(s, v) = {}
      BY <1>1, <2>1 DEF Lower
    <3> QED BY <3>1, FS_EmptySet
  <2>2. CASE v # 0
    <3>1. v - 1 \in Nat /\ v - 1 \notin S
      BY <1>3, <2>2
    <3>2. Lower(s, v) = UpTo(s, v - 1)
      BY <1>1, <1>3 DEF Lower, UpTo
    <3>3. Cardinality(UpTo(s, v - 1)) \in 0..Len(s)
      BY <3>1, CountsTypes
    <3> QED BY <3>1, <3>2, <3>3
  <2> QED BY <2>1, <2>2
<1>5. v \in Range(s)
  <2>1. Lower(s, v) # UpTo(s, v)
    BY <1>3, <1>4, CountsTypes
  <2>2. PICK j \in DOMAIN s : s[j] <= v /\ ~(s[j] < v)
    BY <2>1 DEF Lower, UpTo
  <2>3. s[j] = v
    BY <1>1, <2>2
  <2> QED BY <2>2, <2>3 DEF Range
<1>6. Sorted(s)[k] = CHOOSE u \in Range(s) : Ranked(u)
  BY <1>1 DEF Sorted, Lower, UpTo
<1>7. Range(s) \subseteq Nat
  BY <1>1 DEF Range
<1>8. Ranked(v)
  BY <1>3, <1>4
<1>9. Sorted(s)[k] \in Range(s) /\ Ranked(Sorted(s)[k])
  <2> HIDE DEF Ranked
  <2> QED BY <1>5, <1>6, <1>8, Zenon
<1> QED BY <1>7, <1>9

LEMMA SortedMonotonic ==
  ASSUME NEW s \in Seq(Nat), NEW i \in 1..Len(s), NEW j \in i..Len(s)
  PROVE  Sorted(s)[i] <= Sorted(s)[j]
<1> DEFINE u == Sorted(s)[i]
           v == Sorted(s)[j]
<1>1. Len(s) \in Nat /\ j \in 1..Len(s) /\ i <= j
  OBVIOUS
<1>2. /\ u \in Nat /\ Cardinality(Lower(s, u)) < i
      /\ v \in Nat /\ Cardinality(UpTo(s, v)) >= j
  BY <1>1, SortedRank
<1> HIDE DEF u, v
<1>3. ASSUME v < u PROVE FALSE
  <2>1. UpTo(s, v) \subseteq Lower(s, u)
    BY <1>2, <1>3 DEF UpTo, Lower
  <2>2. /\ IsFiniteSet(Lower(s, u)) /\ Cardinality(Lower(s, u)) \in 0..Len(s)
        /\ Cardinality(UpTo(s, v)) \in 0..Len(s)
    BY <1>2, CountsTypes
  <2>3. Cardinality(UpTo(s, v)) <= Cardinality(Lower(s, u))
    BY <2>1, <2>2, FS_Subset
  <2> QED BY <1>1, <1>2, <2>2, <2>3
<1>4. u <= v
  BY <1>2, <1>3
<1> QED BY <1>4 DEF u, v

LEMMA SortedLast ==
  ASSUME NEW s \in Seq(Nat), s # <<>>, NEW j \in DOMAIN s
  PROVE  s[j] <= Sorted(s)[Len(s)]
<1> DEFINE v == Sorted(s)[Len(s)]
<1>1. Len(s) \in 1..Len(s)
  OBVIOUS
<1>2. v \in Nat /\ Cardinality(UpTo(s, v)) >= Len(s)
  BY <1>1, SortedRank
<1>3. /\ IsFiniteSet(DOMAIN s) /\ Cardinality(DOMAIN s) = Len(s)
      /\ Cardinality(UpTo(s, v)) \in 0..Len(s) /\ UpTo(s, v) \subseteq DOMAIN s
  <2>1. UpTo(s, v) \subseteq DOMAIN s
    BY DEF UpTo
  <2> HIDE DEF v
  <2> QED BY <1>2, <2>1, CountsTypes
<1> HIDE DEF v
<1>4. UpTo(s, v) = DOMAIN s
  <2>1. Cardinality(UpTo(s, v)) = Cardinality(DOMAIN s)
    BY <1>1, <1>2, <1>3
  <2> QED BY <1>3, <2>1, FS_Subset
<1>5. s[j] <= v
  BY <1>4 DEF UpTo
<1> QED BY <1>5 DEF v

(* The q-th percentile of the sorted values of s lies between the values at  *)
(* the places floor + 1 and floor + 2, the second of which need not be there *)
(* when it is the first.                                                     *)
Between(s, q, floor, weight) ==
  /\ floor \in 0..(Len(s) - 1) /\ weight \in 0..99
  /\ q * (Len(s) - 1) = 100 * floor + weight
  /\ weight # 0 => floor + 2 \in 1..Len(s)
  /\ Quantile(Sorted(s), q) =
       IF weight = 0 THEN 100 * Sorted(s)[floor + 1]
       ELSE Sorted(s)[floor + 1] * (100 - weight) + Sorted(s)[floor + 2] * weight

LEMMA QuantileBetween ==
  ASSUME NEW s \in Seq(Nat), s # <<>>, NEW q \in {50, 95}
  PROVE  Between(s, q, (q * (Len(s) - 1)) \div 100, (q * (Len(s) - 1)) % 100)
<1> DEFINE floor == (q * (Len(s) - 1)) \div 100
           weight == (q * (Len(s) - 1)) % 100
<1> DEFINE n == Len(s)
           rank == q * (n - 1)
<1>1. n \in Nat \ {0} /\ DOMAIN Sorted(s) = DOMAIN s /\ DOMAIN s = 1..n
  BY DEF Sorted
<1>2. Len(Sorted(s)) = n
  BY <1>1
<1>3. rank \in Nat /\ rank <= 100 * (n - 1)
  <2> HIDE DEF n
  <2>1. CASE q = 50
    BY <1>1, <2>1
  <2>2. CASE q = 95
    BY <1>1, <2>2
  <2> QED BY <2>1, <2>2
<1> HIDE DEF n, rank
<1>4. rank = 100 * (rank \div 100) + (rank % 100) /\ rank % 100 \in 0..99 /\ rank \div 100 \in Nat
  BY <1>3
<1>5. floor = rank \div 100 /\ weight = rank % 100
  BY DEF rank, n
<1> HIDE DEF floor, weight
<1>6. floor \in 0..(n - 1) /\ weight \in 0..99 /\ (weight # 0 => floor + 2 \in 1..n)
  <2>1. floor \in Nat /\ weight \in 0..99 /\ rank = 100 * floor + weight
    BY <1>4, <1>5
  <2> DEFINE m == n - 1
  <2>2. m \in Nat /\ n = m + 1
    BY <1>1
  <2>3. 100 * floor + weight <= 100 * m
    BY <1>3, <2>1
  <2> HIDE DEF m
  <2>4. floor <= m /\ (weight # 0 => floor < m)
    BY <2>1, <2>2, <2>3
  <2> QED BY <2>1, <2>2, <2>4
<1>7. Quantile(Sorted(s), q) =
        IF weight = 0 THEN 100 * Sorted(s)[floor + 1]
        ELSE Sorted(s)[floor + 1] * (100 - weight) + Sorted(s)[floor + 2] * weight
  BY <1>2, <1>5 DEF Quantile, rank, n
<1>8. Between(s, q, floor, weight)
  BY <1>4, <1>5, <1>6, <1>7 DEF n, rank, Between
<1> QED BY <1>8 DEF floor, weight

(* Statistics describe their window, whatever its length and values. *)
LEMMA StatsDescribe ==
  ASSUME NEW values \in Seq(Nat), values # <<>>, NEW s, s = DurationStats(values)
  PROVE  LET below == {k \in DOMAIN s.of : 100 * s.of[k] <= s.p50}
             above == {k \in DOMAIN s.of : 100 * s.of[k] >= s.p50}
         IN
         /\ 2 * Cardinality(below) >= s.count /\ 2 * Cardinality(above) >= s.count
         /\ s.p50 <= s.p95 /\ s.p95 <= 100 * s.max
         /\ \A k \in DOMAIN s.of : s.of[k] <= s.max
         /\ s.sum <= s.count * s.max /\ \E k \in DOMAIN s.of : s.count * s.of[k] <= s.sum
<1> DEFINE n == Len(values)
           v(k) == Sorted(values)[k]
           below == {k \in DOMAIN values : 100 * values[k] <= s.p50}
           above == {k \in DOMAIN values : 100 * values[k] >= s.p50}
           l == (50 * (n - 1)) \div 100
           w == (50 * (n - 1)) % 100
           ll == (95 * (n - 1)) \div 100
           ww == (95 * (n - 1)) % 100
<1>1. /\ n \in Nat \ {0} /\ DOMAIN values = 1..n /\ \A j \in 1..n : values[j] \in Nat
      /\ DOMAIN Sorted(values) = 1..n /\ Len(Sorted(values)) = n
  BY DEF Sorted
<1>2. /\ s.of = values /\ s.count = n /\ s.max = v(n)
      /\ s.p50 = Quantile(Sorted(values), 50) /\ s.p95 = Quantile(Sorted(values), 95)
      /\ s.sum = FoldLeft(+, 0, values)
  BY <1>1 DEF DurationStats
<1>3. /\ \A k \in 1..n : v(k) \in Nat
      /\ \A i, j \in 1..n : i <= j => v(i) <= v(j)
  <2>1. ASSUME NEW k \in 1..n PROVE v(k) \in Nat
    BY SortedRank
  <2>2. ASSUME NEW i \in 1..n, NEW j \in 1..n, i <= j PROVE v(i) <= v(j)
    <3>1. j \in i..n
      BY <1>1, <2>2
    <3> QED BY <2>2, <3>1, SortedMonotonic
  <2> QED BY <2>1, <2>2
<1>4. /\ l \in 0..(n - 1) /\ w \in 0..99 /\ 50 * (n - 1) = 100 * l + w
      /\ w # 0 => l + 2 \in 1..n
      /\ s.p50 = IF w = 0 THEN 100 * v(l + 1) ELSE v(l + 1) * (100 - w) + v(l + 2) * w
  <2>1. Between(values, 50, l, w)
    BY QuantileBetween
  <2> HIDE DEF l, w
  <2> QED BY <1>2, <2>1 DEF Between
<1>5. /\ ll \in 0..(n - 1) /\ ww \in 0..99 /\ 95 * (n - 1) = 100 * ll + ww
      /\ ww # 0 => ll + 2 \in 1..n
      /\ s.p95 = IF ww = 0 THEN 100 * v(ll + 1) ELSE v(ll + 1) * (100 - ww) + v(ll + 2) * ww
  <2>1. Between(values, 95, ll, ww)
    BY QuantileBetween
  <2> HIDE DEF ll, ww
  <2> QED BY <1>2, <2>1 DEF Between
<1>6. /\ \A k \in 1..n : Cardinality(Lower(values, v(k))) < k
      /\ \A k \in 1..n : Cardinality(UpTo(values, v(k))) >= k
  BY SortedRank
<1>7. \A k \in 1..n : /\ IsFiniteSet(Lower(values, v(k))) /\ Cardinality(Lower(values, v(k))) \in Nat
                      /\ IsFiniteSet(UpTo(values, v(k))) /\ Cardinality(UpTo(values, v(k))) \in Nat
  <2> SUFFICES ASSUME NEW k \in 1..n
               PROVE  LET u == v(k) IN
                      /\ IsFiniteSet(Lower(values, u)) /\ Cardinality(Lower(values, u)) \in Nat
                      /\ IsFiniteSet(UpTo(values, u)) /\ Cardinality(UpTo(values, u)) \in Nat
    OBVIOUS
  <2> DEFINE u == v(k)
  <2>1. u \in Int
    BY <1>3
  <2> HIDE DEF u
  <2>2. /\ IsFiniteSet(Lower(values, u)) /\ Cardinality(Lower(values, u)) \in Nat
        /\ IsFiniteSet(UpTo(values, u)) /\ Cardinality(UpTo(values, u)) \in Nat
    BY <2>1, CountsTypes, FS_CardinalityType
  <2> QED BY <2>2 DEF u
<1> HIDE DEF n, v, l, w, ll, ww
<1>8. w \in {0, 50} /\ (w = 0 => n = 2 * l + 1) /\ (w = 50 => n = 2 * l + 2)
  <2>1. n - 1 \in Nat /\ l \in Nat /\ w \in 0..99 /\ w = 50 * ((n - 1) - 2 * l)
    BY <1>1, <1>4
  <2> DEFINE x == (n - 1) - 2 * l
  <2>2. x \in {0, 1}
    <3>1. x \in Int /\ w = 50 * x /\ w \in 0..99
      BY <2>1
    <3> HIDE DEF x
    <3> QED BY <3>1
  <2> QED BY <1>1, <2>1, <2>2
<1>9. /\ s.p50 \in Nat /\ 100 * v(l + 1) <= s.p50
      /\ w # 0 => s.p50 = 50 * v(l + 1) + 50 * v(l + 2) /\ s.p50 <= 100 * v(l + 2)
  <2>1. CASE w = 0
    <3>1. s.p50 = 100 * v(l + 1) /\ v(l + 1) \in Nat
      BY <1>1, <1>3, <1>4, <2>1
    <3> QED BY <2>1, <3>1
  <2>2. CASE w = 50
    <3>1. v(l + 1) \in Nat /\ v(l + 2) \in Nat /\ v(l + 1) <= v(l + 2)
      BY <1>1, <1>3, <1>4, <2>2
    <3>2. s.p50 = v(l + 1) * 50 + v(l + 2) * 50
      BY <1>4, <2>2
    <3> QED BY <2>2, <3>1, <3>2
  <2> QED BY <1>8, <2>1, <2>2
<1>10. IsFiniteSet(below) /\ Cardinality(below) \in Nat /\ IsFiniteSet(above) /\ Cardinality(above) \in Nat
  <2>1. IsFiniteSet(DOMAIN values)
    BY <1>1, FS_Interval
  <2> QED BY <2>1, FS_Subset, FS_CardinalityType
<1>11. 2 * Cardinality(below) >= n
  <2>1. l + 1 \in 1..n /\ v(l + 1) \in Nat
    BY <1>1, <1>3, <1>4
  <2>2. UpTo(values, v(l + 1)) \subseteq below
    BY <1>1, <1>9, <2>1 DEF UpTo
  <2>3. Cardinality(UpTo(values, v(l + 1))) <= Cardinality(below)
    BY <1>10, <2>2, FS_Subset
  <2>4. Cardinality(UpTo(values, v(l + 1))) >= l + 1 /\ Cardinality(UpTo(values, v(l + 1))) \in Nat
    BY <1>6, <1>7, <2>1
  <2> HIDE DEF below
  <2>5. Cardinality(below) >= l + 1
    BY <1>4, <1>10, <2>3, <2>4
  <2> QED BY <1>4, <1>8, <1>10, <2>5
<1>12. 2 * Cardinality(above) >= n
  <2> DEFINE m == IF w = 0 THEN l + 1 ELSE l + 2
  <2>1. m \in 1..n /\ v(m) \in Nat /\ s.p50 <= 100 * v(m)
    <3>1. CASE w = 0
      BY <1>1, <1>3, <1>4, <3>1
    <3>2. CASE w # 0
      BY <1>1, <1>3, <1>4, <1>9, <3>2
    <3> QED BY <3>1, <3>2
  <2> HIDE DEF m
  <2>2. (DOMAIN values) \ Lower(values, v(m)) \subseteq above
    BY <1>1, <1>9, <2>1 DEF Lower
  <2> HIDE DEF above
  <2> DEFINE low == Lower(values, v(m))
             rest == (DOMAIN values) \ low
  <2>3. Cardinality(low) < m /\ Cardinality(low) \in Nat /\ low \subseteq DOMAIN values
    BY <1>6, <1>7, <2>1 DEF Lower
  <2> HIDE DEF low
  <2>4. Cardinality(DOMAIN values) = n /\ IsFiniteSet(DOMAIN values)
    BY <1>1, FS_Interval
  <2>5. Cardinality(rest) = n - Cardinality(low)
    <3>1. (DOMAIN values) \cap low = low
      BY <2>3
    <3> QED BY <2>4, <3>1, FS_Difference
  <2>6. Cardinality(rest) <= Cardinality(above)
    <3>1. rest \subseteq above
      BY <2>2 DEF low
    <3> QED BY <1>10, <3>1, FS_Subset
  <2>7. Cardinality(above) >= n - m + 1
    BY <1>1, <1>10, <2>1, <2>3, <2>5, <2>6
  <2> QED BY <1>1, <1>4, <1>8, <1>10, <2>1, <2>7 DEF m
<1>13. /\ s.p95 \in Nat /\ 100 * v(ll + 1) <= s.p95 /\ s.p95 <= 100 * v(n)
       /\ ww >= 50 => s.p95 >= 50 * v(ll + 1) + 50 * v(ll + 2)
  <2>1. CASE ww = 0
    <3>1. ll + 1 \in 1..n /\ n \in 1..n /\ ll + 1 <= n
      BY <1>1, <1>5
    <3>2. v(ll + 1) \in Nat /\ v(n) \in Nat /\ v(ll + 1) <= v(n) /\ s.p95 = 100 * v(ll + 1)
      BY <1>3, <1>5, <2>1, <3>1
    <3> QED BY <2>1, <3>2
  <2>2. CASE ww # 0
    <3> DEFINE a == v(ll + 1)
               b == v(ll + 2)
    <3>1. ll + 1 \in 1..n /\ ll + 2 \in 1..n /\ n \in 1..n /\ ll + 1 <= ll + 2 /\ ll + 2 <= n
      BY <1>1, <1>5, <2>2
    <3>2. a \in Nat /\ b \in Nat /\ v(n) \in Nat /\ a <= b /\ b <= v(n)
      BY <1>3, <3>1
    <3>3. s.p95 = a * (100 - ww) + b * ww
      BY <1>5, <2>2
    <3> HIDE DEF a, b
    <3>4. PICK d \in Nat : b = a + d
      <4>1. b - a \in Nat /\ b = a + (b - a)
        BY <3>2
      <4> QED BY <4>1
    <3>5. ww \in Nat /\ ww <= 100
      BY <1>5
    <3>6. s.p95 = 100 * a + d * ww
      BY <3>2, <3>3, <3>4, <3>5
    <3>7. d * ww \in Nat /\ d * ww <= 100 * d /\ (ww >= 50 => d * ww >= 50 * d)
      BY <3>4, <3>5
    <3>8. /\ s.p95 \in Nat /\ 100 * a <= s.p95 /\ s.p95 <= 100 * v(n)
          /\ ww >= 50 => s.p95 >= 50 * a + 50 * b
      BY <3>2, <3>4, <3>6, <3>7
    <3> QED BY <3>8 DEF a, b
  <2> QED BY <2>1, <2>2
<1>14. s.p50 <= s.p95 /\ s.p95 <= 100 * s.max
  <2>0. s.max = v(n)
    BY <1>2
  <2>1. l <= ll /\ (w = 50 /\ l = ll => ww >= 50)
    <3> DEFINE m == n - 1
    <3>1. /\ m \in Nat /\ l \in Nat /\ w \in 0..99 /\ ll \in Nat /\ ww \in 0..99
          /\ 50 * m = 100 * l + w /\ 95 * m = 100 * ll + ww
      BY <1>1, <1>4, <1>5
    <3> HIDE DEF m
    <3>2. 100 * l <= 100 * ll + 99
      BY <3>1
    <3>3. l <= ll
      BY <3>1, <3>2
    <3>4. l = ll => w <= ww
      BY <3>1
    <3> QED BY <3>3, <3>4
  <2>2. w # 0 => v(l + 1) \in Nat /\ v(l + 2) \in Nat
    BY <1>1, <1>3, <1>4
  <2>3. CASE w = 0
    <3>1. l + 1 \in 1..n /\ ll + 1 \in 1..n /\ l + 1 <= ll + 1
      BY <1>1, <1>4, <1>5, <2>1
    <3>2. s.p50 = 100 * v(l + 1) /\ v(l + 1) \in Nat /\ v(ll + 1) \in Nat /\ v(l + 1) <= v(ll + 1)
      BY <1>3, <1>4, <2>3, <3>1
    <3> QED BY <1>13, <2>0, <3>2
  <2>4. CASE w = 50 /\ l = ll
    BY <1>9, <1>13, <2>0, <2>1, <2>4, <2>2
  <2>5. CASE w = 50 /\ l # ll
    <3>1. l + 2 \in 1..n /\ ll + 1 \in 1..n /\ l + 2 <= ll + 1
      BY <1>1, <1>4, <1>5, <2>1, <2>5
    <3>2. v(l + 2) \in Nat /\ v(ll + 1) \in Nat /\ v(l + 2) <= v(ll + 1)
      BY <1>3, <3>1
    <3>3. s.p50 <= 100 * v(l + 2)
      BY <1>9, <2>5
    <3> QED BY <1>9, <1>13, <2>0, <3>2, <3>3
  <2> QED BY <1>8, <2>3, <2>4, <2>5
<1>15. \A k \in DOMAIN values : values[k] <= s.max
  BY <1>2, SortedLast DEF v, n
<1>16. s.sum <= s.count * s.max /\ \E k \in DOMAIN values : s.count * values[k] <= s.sum
  <2>1. v(n) \in Nat
    BY <1>1, <1>3
  <2>2. PICK k \in DOMAIN values : \A j \in DOMAIN values : values[k] <= values[j]
    BY <1>1, Smallest
  <2> DEFINE total == FoldLeft(+, 0, values)
             least == values[k]
  <2>3. least \in Nat /\ \A j \in DOMAIN values : least <= values[j] /\ values[j] <= v(n)
    BY <1>1, <1>2, <1>15, <2>2
  <2>4. s.sum = total /\ s.count = Len(values) /\ s.max = v(n)
    BY <1>2 DEF n
  <2> HIDE DEF least
  <2>5. Len(values) * least <= total /\ total <= Len(values) * v(n)
    BY <2>1, <2>3, SumBounded
  <2> HIDE DEF total
  <2> QED BY <2>2, <2>4, <2>5 DEF least
<1> HIDE DEF below, above
<1>17. /\ s.of = values /\ s.count = n
       /\ below = {k \in DOMAIN s.of : 100 * s.of[k] <= s.p50}
       /\ above = {k \in DOMAIN s.of : 100 * s.of[k] >= s.p50}
  BY <1>2 DEF below, above
<1> QED BY <1>11, <1>12, <1>14, <1>15, <1>16, <1>17

(* All that is in the log are statistics of windows that were not empty. *)
StatsKnown ==
  \A s \in logged.stats : \E values \in Seq(Nat) : values # <<>> /\ s = DurationStats(values)

LEMMA StatsStart == SinkInit => StatsKnown
BY DEF SinkInit, StatsKnown

LEMMA StatsStepKeeps ==
  ASSUME SinkInv, StatsKnown, SinkStep
  PROVE  StatsKnown'
<1>1. CASE Flush
  <2>1. logged'.stats = {DurationStats(timers[k]) : k \in {j \in Timers : timers[j] # <<>>}}
    BY <1>1 DEF Flush
  <2>2. \A k \in Timers : timers[k] \in Seq(Nat)
    BY DEF SinkInv, SinkType
  <2> QED BY <2>1, <2>2 DEF StatsKnown
<1>2. CASE logged' = logged
  BY <1>2 DEF StatsKnown
<1> QED BY <1>1, <1>2 DEF SinkStep, IncCounter, SetGauge, ObserveDuration, sink

LEMMA StatsKnownDescribes == StatsKnown => StatsDescribeWindow
BY StatsDescribe DEF StatsKnown, StatsDescribeWindow

----------------------------------------------------------------------------
(* The API. *)

ApiSteps(h) ==
  \/ Request(h) \/ Refuse(h) \/ CountQuery(h) \/ CountCloseError(h) \/ ObserveQuery(h)
  \/ CountRequest(h) \/ FlushMetrics(h) \/ ObserveRequest(h)

LEMMA ApiStepsOfNext == ApiNext <=> \E h \in Handlers : ApiSteps(h)
BY DEF ApiNext, Step, ApiSteps

(* Whatever a handler does to the sink is one of its operations. *)
LEMMA ApiUsesSink ==
  ASSUME [ApiNext]_<<sink, api>>
  PROVE  SinkStep
<1>1. CASE UNCHANGED <<sink, api>>
  BY <1>1 DEF SinkStep
<1>2. ASSUME NEW h \in Handlers, ApiSteps(h)
      PROVE  SinkStep
  <2>1. CASE Request(h)
    BY <2>1 DEF Request, SinkStep
  <2>2. CASE Refuse(h) \/ CountQuery(h) \/ CountCloseError(h) \/ CountRequest(h)
    BY <2>2, ApiMetricsAssumption
    DEF Refuse, CountQuery, CountCloseError, CountRequest, SinkStep
  <2>3. CASE ObserveQuery(h) \/ ObserveRequest(h)
    BY <2>3, ApiMetricsAssumption DEF ObserveQuery, ObserveRequest, SinkStep
  <2>4. CASE FlushMetrics(h)
    BY <2>4 DEF FlushMetrics, SinkStep
  <2> QED BY <1>2, <2>1, <2>2, <2>3, <2>4 DEF ApiSteps
<1> QED BY <1>1, <1>2, ApiStepsOfNext

(* The handlers of the API lose no count and no duration and log none twice, *)
(* however many of them flush the sink under each other.                     *)
THEOREM ApiLosesNothing == ApiSpec => []NothingLostOrDoubled
<1>1. ApiInit => SinkInv
  BY SinkStarts DEF ApiInit
<1>2. SinkInv /\ [ApiNext]_<<sink, api>> => SinkInv'
  BY ApiUsesSink, SinkStepKeeps
<1>3. SinkInv => NothingLostOrDoubled
  BY DEF SinkInv
<1> QED BY <1>1, <1>2, <1>3, PTL DEF ApiSpec

(* Half of a logged window of the API lies on either side of p50, p95 is     *)
(* between p50 and the largest value, the mean between the extremes, however *)
(* long the window and whatever the durations.                               *)
THEOREM ApiStatsDescribe == ApiSpec => []StatsDescribeWindow
<1>1. ApiInit => SinkInv /\ StatsKnown
  BY SinkStarts, StatsStart DEF ApiInit
<1>2. SinkInv /\ StatsKnown /\ [ApiNext]_<<sink, api>> => SinkInv' /\ StatsKnown'
  BY ApiUsesSink, SinkStepKeeps, StatsStepKeeps
<1> QED BY <1>1, <1>2, StatsKnownDescribes, PTL DEF ApiSpec

(* Counters and query durations wait for the flush of a handler on its way   *)
(* there, and every request duration in the sink was observed by a handler   *)
(* that has not flushed since.                                               *)
BeforeFlush == {"queried", "closed", "answer", "deferred"}

Observing == {h \in Handlers : handler[h] = "observe"}

FlushIsComing ==
  \/ /\ counters[RequestCounter] = 0 /\ counters[QueryCounter] = 0
     /\ timers[QueryTimer] = <<>>
  \/ \E h \in Handlers : handler[h] \in BeforeFlush

ApiInv ==
  /\ SinkInv
  /\ handler \in [Handlers -> {"idle", "parse", "observe"} \cup BeforeFlush]
  /\ FlushIsComing
  /\ Len(timers[RequestTimer]) + Cardinality(Observing) <= Cardinality(Handlers)

LEMMA ObservingFinite ==
  ASSUME NEW S \in SUBSET Handlers
  PROVE  /\ IsFiniteSet(S) /\ Cardinality(S) \in Nat
         /\ Cardinality(S) <= Cardinality(Handlers) /\ Cardinality(Handlers) \in Nat
BY FS_Subset, FS_CardinalityType, ApiMetricsAssumption

LEMMA ApiStarts == ApiInit => ApiInv
<1> SUFFICES ASSUME ApiInit PROVE ApiInv
  OBVIOUS
<1>1. SinkInv
  BY SinkStarts DEF ApiInit
<1>2. /\ handler = [h \in Handlers |-> "idle"]
      /\ counters[RequestCounter] = 0 /\ counters[QueryCounter] = 0
      /\ timers[QueryTimer] = <<>> /\ timers[RequestTimer] = <<>>
  BY ApiMetricsAssumption DEF ApiInit, SinkInit, Nothing
<1>3. Observing = {}
  BY <1>2 DEF Observing
<1>4. Len(timers[RequestTimer]) + Cardinality(Observing) <= Cardinality(Handlers)
  BY <1>2, <1>3, FS_EmptySet, ObservingFinite
<1> QED BY <1>1, <1>2, <1>4 DEF ApiInv, FlushIsComing

LEMMA ApiStepKeeps ==
  ASSUME ApiInv, NEW h \in Handlers, ApiSteps(h)
  PROVE  ApiInv'
<1>1. SinkInv'
  BY ApiUsesSink, SinkStepKeeps, ApiStepsOfNext DEF ApiInv
<1>2. handler' \in [Handlers -> {"idle", "parse", "observe"} \cup BeforeFlush]
  BY DEF ApiInv, ApiSteps, BeforeFlush, Request, Refuse, CountQuery, CountCloseError,
     ObserveQuery, CountRequest, FlushMetrics, ObserveRequest, Proceed
<1>3. /\ timers \in [Timers -> Seq(Nat)] /\ timers' \in [Timers -> Seq(Nat)]
      /\ counters \in [Counters -> Nat]
      /\ RequestTimer \in Timers /\ QueryTimer \in Timers /\ RequestTimer # QueryTimer
      /\ RequestCounter \in Counters /\ QueryCounter \in Counters
  BY <1>1, ApiMetricsAssumption DEF ApiInv, SinkInv, SinkType, RequestTimer, QueryTimer
<1>4. FlushIsComing'
  <2>1. CASE Request(h)
    BY <2>1, <1>2 DEF ApiInv, FlushIsComing, BeforeFlush, Request, sink
  <2>2. CASE Refuse(h) \/ CountQuery(h) \/ CountCloseError(h) \/ ObserveQuery(h)
             \/ CountRequest(h)
    <3>1. handler'[h] \in BeforeFlush
      BY <2>2 DEF ApiInv, BeforeFlush, Refuse, CountQuery, CountCloseError, ObserveQuery,
         CountRequest, Proceed
    <3> QED BY <3>1 DEF FlushIsComing
  <2>3. CASE FlushMetrics(h)
    BY <2>3, <1>3 DEF FlushMetrics, Flush, Nothing, FlushIsComing
  <2>4. CASE ObserveRequest(h)
    <3>1. /\ counters' = counters /\ timers'[QueryTimer] = timers[QueryTimer]
          /\ handler[h] = "observe" /\ handler' = [handler EXCEPT ![h] = "idle"]
      BY <2>4, <1>3 DEF ObserveRequest, ObserveDuration, Proceed
    <3> QED BY <3>1, <1>2 DEF ApiInv, FlushIsComing, BeforeFlush
  <2> QED BY <2>1, <2>2, <2>3, <2>4 DEF ApiSteps
<1>5. (Len(timers[RequestTimer]) + Cardinality(Observing) <= Cardinality(Handlers))'
  <2>1. Observing \in SUBSET Handlers /\ Observing' \in SUBSET Handlers
    BY DEF Observing
  <2>2. /\ Len(timers[RequestTimer]) \in Nat /\ Cardinality(Observing) \in Nat
        /\ Cardinality(Observing') \in Nat /\ Cardinality(Observing') <= Cardinality(Handlers)
        /\ Cardinality(Handlers) \in Nat
    BY <1>3, <2>1, ObservingFinite
  <2>3. CASE FlushMetrics(h)
    <3>1. Len(timers'[RequestTimer]) = 0
      BY <2>3, <1>3 DEF FlushMetrics, Flush
    <3> QED BY <3>1, <2>2
  <2>4. CASE ObserveRequest(h)
    <3>1. \E d \in Durations : timers' = [timers EXCEPT ![RequestTimer] = Append(@, d)]
      BY <2>4 DEF ObserveRequest, ObserveDuration
    <3>2. Len(timers'[RequestTimer]) = Len(timers[RequestTimer]) + 1
      BY <3>1, <1>3, ApiMetricsAssumption
    <3>3. h \in Observing /\ Observing' = Observing \ {h}
      BY <2>4 DEF ApiInv, ObserveRequest, Proceed, Observing
    <3>4. Cardinality(Observing') = Cardinality(Observing) - 1
      BY <3>3, <2>1, FS_RemoveElement, ObservingFinite
    <3> QED BY <3>2, <3>4, <2>2 DEF ApiInv
  <2>5. CASE Request(h) \/ Refuse(h) \/ CountQuery(h) \/ CountCloseError(h)
             \/ ObserveQuery(h) \/ CountRequest(h)
    <3>1. Observing' = Observing
      BY <2>5 DEF ApiInv, Observing, Request, Refuse, CountQuery, CountCloseError,
         ObserveQuery, CountRequest, Proceed
    <3>2. timers'[RequestTimer] = timers[RequestTimer]
      BY <2>5, <1>3 DEF Request, Refuse, CountQuery, CountCloseError,
         ObserveQuery, CountRequest, IncCounter, ObserveDuration, sink
    <3> QED BY <3>1, <3>2 DEF ApiInv
  <2> QED BY <2>3, <2>4, <2>5 DEF ApiSteps
<1> QED BY <1>1, <1>2, <1>4, <1>5 DEF ApiInv

(* When no request runs everything counted is in the log, and at most one    *)
(* request duration per handler is still in memory, for any number of        *)
(* handlers.                                                                 *)
THEOREM LittleIsLeft == ApiSpec => []LittleIsLeftAtRest
<1>1. ApiInv /\ UNCHANGED <<sink, api>> => ApiInv'
  BY DEF sink, api, ApiInv, SinkInv, SinkType, NothingLostOrDoubled, FlushIsComing, Observing
<1>2. ApiInv /\ [ApiNext]_<<sink, api>> => ApiInv'
  BY <1>1, ApiStepKeeps, ApiStepsOfNext
<1>3. ApiInv => LittleIsLeftAtRest
  <2> SUFFICES ASSUME ApiInv, AtRest
               PROVE  /\ counters[RequestCounter] = 0 /\ counters[QueryCounter] = 0
                      /\ timers[QueryTimer] = <<>>
                      /\ Len(timers[RequestTimer]) <= Cardinality(Handlers)
    BY DEF LittleIsLeftAtRest
  <2>1. \A h \in Handlers : handler[h] \notin BeforeFlush
    BY DEF AtRest, BeforeFlush
  <2>2. Observing \in SUBSET Handlers /\ Len(timers[RequestTimer]) \in Nat
    BY ApiMetricsAssumption DEF Observing, ApiInv, SinkInv, SinkType
  <2>3. Cardinality(Observing) \in Nat /\ Cardinality(Handlers) \in Nat
    BY <2>2, ObservingFinite
  <2>4. Len(timers[RequestTimer]) <= Cardinality(Handlers)
    BY <2>2, <2>3 DEF ApiInv
  <2> QED BY <2>1, <2>4 DEF ApiInv, FlushIsComing
<1> QED BY <1>2, <1>3, ApiStarts, PTL DEF ApiSpec
----------------------------------------------------------------------------
(* The consumer. *)

(* Where a worker is while its work is in the counter, one by one or as the  *)
(* batch, and everywhere from publishing a sum to publishing the next.       *)
AsBatch == {"publish", "bulk", "bulkCommit", "leave"}
AsMessage == {"publishBad", "message", "count", "commit", "handled"}
Leaving == {"publishOut", "publishThenBad"}
Outside == {"select", "enter", "enterBad"}
Places == AsBatch \cup AsMessage \cup Leaving \cup Outside \cup {"next"}
Published == (Places \ Outside) \ {"publish", "publishBad"}

(* What worker p has added to the counter and not taken off. *)
Share(p) == IF pc[p] \in AsBatch THEN held[p] ELSE IF pc[p] \in AsMessage THEN 1 ELSE 0

(* One token for each unit of every worker's share: their number is the sum. *)
Grid(f) == {t \in Partitions \X (1 .. BatchSize) : t[2] <= f[t[1]]}

Shares == [p \in Partitions |-> Share(p)]

Tokens == Grid(Shares)

Bound(n) == 0 .. n * BatchSize

WorkerType ==
  /\ pc \in [Partitions -> Places]
  /\ held \in [Partitions -> 0 .. BatchSize]
  /\ value \in [Partitions -> Int]
  /\ inflight \in Int

(* A batch is flushed when it is full, and gone when its flush is left. *)
BatchInv ==
  \A p \in Partitions :
    /\ pc[p] = "select" => held[p] < BatchSize
    /\ pc[p] \in Leaving \cup {"enterBad", "publishBad"} => held[p] = 0

(* A sum about to be published by a worker that leaves, and a sum that was   *)
(* the last to be published when every worker was out, counts only others.   *)
GaugeInv ==
  /\ \A p \in Partitions :
       pc[p] \in Leaving => value[p] \in Bound(Cardinality(Partitions) - 1)
  /\ \/ gauges[Inflight] \in {NoValue} \cup Bound(Cardinality(Partitions) - 1)
     \/ \E p \in Partitions : pc[p] \in Published

ConsumerInv ==
  /\ SinkInv /\ WorkerType /\ BatchInv
  /\ inflight = Cardinality(Tokens)
  /\ GaugeInv

(* Tokens of the others. *)
Rest(f, p) == {t \in (Partitions \ {p}) \X (1 .. BatchSize) : t[2] <= f[t[1]]}

LEMMA Products ==
  ASSUME NEW S \in SUBSET Partitions
  PROVE  /\ IsFiniteSet(S) /\ Cardinality(S) \in Nat
         /\ IsFiniteSet(S \X (1 .. BatchSize))
         /\ Cardinality(S \X (1 .. BatchSize)) = Cardinality(S) * BatchSize
<1>1. IsFiniteSet(S)
  BY FS_Subset, ConsumerMetricsAssumption
<1>2. IsFiniteSet(1 .. BatchSize) /\ Cardinality(1 .. BatchSize) = BatchSize
  BY FS_Interval, ConsumerMetricsAssumption
<1> QED BY <1>1, <1>2, FS_Product, FS_CardinalityType

LEMMA GridSplit ==
  ASSUME NEW f \in [Partitions -> 0 .. BatchSize], NEW p \in Partitions
  PROVE  /\ Cardinality(Grid(f)) = Cardinality(Rest(f, p)) + f[p]
         /\ Cardinality(Rest(f, p)) \in Bound(Cardinality(Partitions) - 1)
<1> DEFINE column == {p} \X (1 .. f[p])
<1>1. Grid(f) = Rest(f, p) \cup column /\ Rest(f, p) \cap column = {}
  BY ConsumerMetricsAssumption DEF Grid, Rest
<1>2. IsFiniteSet(column) /\ Cardinality(column) = f[p]
  <2>1. f[p] \in Nat
    BY ConsumerMetricsAssumption
  <2>2. IsFiniteSet(1 .. f[p]) /\ Cardinality(1 .. f[p]) = f[p]
    BY <2>1, FS_Interval
  <2>3. IsFiniteSet({p}) /\ Cardinality({p}) = 1
    BY FS_Singleton
  <2>4. IsFiniteSet(column) /\ Cardinality(column) = 1 * f[p]
    BY <2>2, <2>3, FS_Product
  <2> QED BY <2>1, <2>4
<1>3. /\ IsFiniteSet(Rest(f, p)) /\ Cardinality(Rest(f, p)) \in Nat
      /\ Cardinality(Rest(f, p)) <= Cardinality(Partitions \ {p}) * BatchSize
  <2>1. Rest(f, p) \in SUBSET ((Partitions \ {p}) \X (1 .. BatchSize))
    BY DEF Rest
  <2>2. IsFiniteSet((Partitions \ {p}) \X (1 .. BatchSize))
    BY Products
  <2>3. /\ IsFiniteSet(Rest(f, p))
        /\ Cardinality(Rest(f, p)) <= Cardinality((Partitions \ {p}) \X (1 .. BatchSize))
    BY <2>1, <2>2, FS_Subset
  <2> QED BY <2>3, Products, FS_CardinalityType
<1>4. Cardinality(Partitions \ {p}) = Cardinality(Partitions) - 1
  BY FS_RemoveElement, ConsumerMetricsAssumption
<1>5. Cardinality(Grid(f)) = Cardinality(Rest(f, p)) + Cardinality(column) - 0
  BY <1>1, <1>2, <1>3, FS_Union, FS_EmptySet
<1> HIDE DEF column
<1>6. Cardinality(Rest(f, p)) \in Bound(Cardinality(Partitions) - 1)
  <2>1. Cardinality(Partitions) \in Nat
    BY Products
  <2>2. Cardinality(Rest(f, p)) <= (Cardinality(Partitions) - 1) * BatchSize
    BY <1>3, <1>4
  <2>3. (Cardinality(Partitions) - 1) * BatchSize \in Int
    BY <2>1, ConsumerMetricsAssumption
  <2> QED BY <1>3, <2>2, <2>3 DEF Bound
<1> QED BY <1>2, <1>3, <1>5, <1>6

(* When one share changes the number of tokens changes with it. *)
LEMMA GridShift ==
  ASSUME NEW f \in [Partitions -> 0 .. BatchSize], NEW g \in [Partitions -> 0 .. BatchSize],
         NEW p \in Partitions, \A q \in Partitions \ {p} : g[q] = f[q]
  PROVE  /\ Cardinality(Grid(g)) = Cardinality(Grid(f)) + g[p] - f[p]
         /\ g[p] = 0 => Cardinality(Grid(g)) \in Bound(Cardinality(Partitions) - 1)
<1>1. Rest(f, p) = Rest(g, p)
  BY DEF Rest
<1>2. Cardinality(Rest(f, p)) \in Nat
  BY GridSplit DEF Bound
<1>3. f[p] \in Nat /\ g[p] \in Nat
  BY ConsumerMetricsAssumption
<1>4. /\ Cardinality(Grid(f)) = Cardinality(Rest(f, p)) + f[p]
      /\ Cardinality(Grid(g)) = Cardinality(Rest(f, p)) + g[p]
      /\ Cardinality(Rest(f, p)) \in Bound(Cardinality(Partitions) - 1)
  BY <1>1, GridSplit
<1> QED BY <1>2, <1>3, <1>4

LEMMA GridBounded ==
  ASSUME NEW f \in [Partitions -> 0 .. BatchSize]
  PROVE  /\ Cardinality(Grid(f)) \in Bound(Cardinality(Partitions))
         /\ (\A p \in Partitions : f[p] = 0) => Cardinality(Grid(f)) = 0
<1>1. Grid(f) \in SUBSET (Partitions \X (1 .. BatchSize))
  BY DEF Grid
<1>2. /\ IsFiniteSet(Grid(f))
      /\ Cardinality(Grid(f)) <= Cardinality(Partitions \X (1 .. BatchSize))
  BY <1>1, Products, FS_Subset
<1>3. Cardinality(Grid(f)) \in Nat /\ Cardinality(Partitions) * BatchSize \in Nat
  BY <1>2, FS_CardinalityType, Products, ConsumerMetricsAssumption
<1>4. Cardinality(Grid(f)) <= Cardinality(Partitions) * BatchSize
  BY <1>2, Products
<1>5. ASSUME \A p \in Partitions : f[p] = 0
      PROVE  Cardinality(Grid(f)) = 0
  <2>1. Grid(f) = {}
    BY <1>5 DEF Grid
  <2> QED BY <2>1, FS_EmptySet
<1> QED BY <1>3, <1>4, <1>5 DEF Bound

(* What a step of worker p does to the sink, the counter and its own place. *)
Effect(p) ==
  /\ SinkStep /\ UNCHANGED process
  /\ pc' \in [Partitions -> Places]
  /\ held' \in [Partitions -> 0 .. BatchSize]
  /\ value' \in [Partitions -> Int]
  /\ \A q \in Partitions \ {p} : pc'[q] = pc[q] /\ held'[q] = held[q] /\ value'[q] = value[q]
  /\ pc'[p] = "select" => held'[p] < BatchSize
  /\ pc'[p] \in Leaving \cup {"enterBad", "publishBad"} => held'[p] = 0
  /\ inflight' = inflight + Share(p)' - Share(p)
  /\ pc'[p] \in Leaving => value'[p] = inflight'
  /\ \/ pc[p] \in Leaving /\ gauges'[Inflight] = value[p]
     \/ pc'[p] \in Published
     \/ pc[p] \notin Published /\ gauges' = gauges

LEMMA ComesIn ==
  ASSUME SinkInv, WorkerType, BatchInv, NEW p \in Partitions,
         TakeGood(p) \/ TakeBad(p) \/ Tick(p) \/ Enter(p) \/ EnterBad(p)
  PROVE  Effect(p)
<1>1. /\ pc \in [Partitions -> Places] /\ held \in [Partitions -> 0 .. BatchSize]
      /\ value \in [Partitions -> Int] /\ inflight \in Int
      /\ held[p] \in 0 .. BatchSize /\ BatchSize \in Nat \ {0}
      /\ pc[p] = "select" => held[p] < BatchSize
      /\ pc[p] = "enterBad" => held[p] = 0
  BY ConsumerMetricsAssumption DEF WorkerType, BatchInv
<1>2. SinkStep /\ gauges' = gauges
  BY DEF SinkStep, TakeGood, TakeBad, Tick, Enter, EnterBad, Take, Add, sink
<1>3. CASE TakeGood(p)
  <2>1. /\ pc[p] = "select" /\ pc'[p] \in {"select", "enter"}
        /\ held' = [held EXCEPT ![p] = @ + 1] /\ inflight' = inflight /\ value' = value
        /\ pc' = [pc EXCEPT ![p] = pc'[p]]
        /\ pc'[p] = "select" => held[p] + 1 < BatchSize
        /\ UNCHANGED process
    BY <1>1, <1>3 DEF TakeGood, Take, Move
  <2> QED
    BY <1>1, <1>2, <2>1
    DEF Effect, Share, AsBatch, AsMessage, Leaving, Outside, Places, Published
<1>4. CASE TakeBad(p) \/ Tick(p)
  <2>1. /\ pc[p] = "select" /\ pc'[p] \in {"enterBad", "enter"}
        /\ pc' = [pc EXCEPT ![p] = pc'[p]]
        /\ held' = held /\ inflight' = inflight /\ value' = value
        /\ pc'[p] = "enterBad" => held[p] = 0
        /\ UNCHANGED process
    BY <1>1, <1>4 DEF TakeBad, Tick, Take, Move, worker
  <2> QED
    BY <1>1, <1>2, <2>1
    DEF Effect, Share, AsBatch, AsMessage, Leaving, Outside, Places, Published
<1>5. CASE Enter(p)
  <2>1. /\ pc[p] = "enter" /\ pc' = [pc EXCEPT ![p] = "publish"]
        /\ held' = held /\ inflight' = inflight + held[p]
        /\ value' = [value EXCEPT ![p] = inflight + held[p]]
        /\ UNCHANGED process
    BY <1>5 DEF Enter, Add, Move, worker
  <2> QED
    BY <1>1, <1>2, <2>1
    DEF Effect, Share, AsBatch, AsMessage, Leaving, Outside, Places, Published
<1>6. CASE EnterBad(p)
  <2>1. /\ pc[p] = "enterBad" /\ pc' = [pc EXCEPT ![p] = "publishBad"]
        /\ held' = held /\ inflight' = inflight + 1
        /\ value' = [value EXCEPT ![p] = inflight + 1]
        /\ UNCHANGED process
    BY <1>6 DEF EnterBad, Add, Move
  <2> QED
    BY <1>1, <1>2, <2>1
    DEF Effect, Share, AsBatch, AsMessage, Leaving, Outside, Places, Published
<1> QED BY <1>3, <1>4, <1>5, <1>6

LEMMA Publishes ==
  ASSUME SinkInv, WorkerType, BatchInv, NEW p \in Partitions,
         PublishIn(p) \/ PublishOut(p)
  PROVE  Effect(p)
<1>1. /\ pc \in [Partitions -> Places] /\ held \in [Partitions -> 0 .. BatchSize]
      /\ value \in [Partitions -> Int] /\ inflight \in Int
      /\ held[p] \in 0 .. BatchSize /\ BatchSize \in Nat \ {0}
      /\ pc[p] \in Leaving \cup {"enterBad", "publishBad"} => held[p] = 0
  BY ConsumerMetricsAssumption DEF WorkerType, BatchInv
<1>2. /\ <<pc[p], pc'[p]>> \in {<<"publish", "bulk">>, <<"publishBad", "message">>,
                                <<"publishOut", "select">>, <<"publishThenBad", "enterBad">>}
      /\ pc' = [pc EXCEPT ![p] = pc'[p]]
      /\ SetGauge(Inflight, value[p])
      /\ UNCHANGED <<worker, value, inflight, process>>
  BY <1>1 DEF PublishIn, PublishOut, Publish, Move
<1>3. SinkStep /\ gauges'[Inflight] = value[p]
  BY <1>1, <1>2, ConsumerMetricsAssumption DEF SinkStep, SinkInv, SinkType, SetGauge
<1>4. held' = held /\ value' = value /\ inflight' = inflight
  BY <1>2 DEF worker
<1> QED
  BY <1>1, <1>2, <1>3, <1>4
  DEF Effect, Share, AsBatch, AsMessage, Leaving, Outside, Places, Published

(* Steps that only tell the sink something other than the gauge. *)
LEMMA Passes ==
  ASSUME SinkInv, WorkerType, BatchInv, NEW p \in Partitions,
         \/ Retry(p) \/ BulkStored(p) \/ BulkCommitted(p) \/ BulkAborted(p)
         \/ MessageHandled(p) \/ MessageCounted(p) \/ MessageCommitted(p) \/ MessageAborted(p)
  PROVE  Effect(p)
<1>1. /\ pc \in [Partitions -> Places] /\ held \in [Partitions -> 0 .. BatchSize]
      /\ value \in [Partitions -> Int] /\ inflight \in Int
      /\ held[p] \in Nat
  BY ConsumerMetricsAssumption DEF WorkerType
<1>2. /\ \/ pc[p] \in {"bulk", "bulkCommit"} /\ pc'[p] \in {"bulk", "bulkCommit", "leave"}
         \/ /\ pc[p] \in {"message", "count", "commit"}
            /\ pc'[p] \in {"message", "count", "commit", "handled"}
      /\ pc' = [pc EXCEPT ![p] = pc'[p]]
      /\ UNCHANGED <<worker, value, inflight, process>>
  BY <1>1 DEF Retry, BulkStored, BulkCommitted, BulkAborted, MessageHandled,
     MessageCounted, MessageCommitted, MessageAborted, Count, Observe, Silent, Move
<1>3. SinkStep
  <2>1. CASE BulkStored(p) \/ MessageHandled(p)
    <3>1. \E d \in WorkDurations : ObserveDuration(Duration, d)
      BY <2>1 DEF BulkStored, MessageHandled, Observe
    <3> QED BY <3>1, ConsumerMetricsAssumption DEF SinkStep
  <2>2. CASE Retry(p) \/ BulkCommitted(p) \/ BulkAborted(p)
    BY <1>1, <2>2, ConsumerMetricsAssumption
    DEF SinkStep, Retry, BulkCommitted, BulkAborted, Count, Silent
  <2>3. CASE MessageCounted(p) \/ MessageCommitted(p) \/ MessageAborted(p)
    BY <2>3, ConsumerMetricsAssumption
    DEF SinkStep, MessageCounted, MessageCommitted, MessageAborted, Count, Silent
  <2> QED BY <2>1, <2>2, <2>3
<1>4. held' = held /\ value' = value /\ inflight' = inflight
  BY <1>2 DEF worker
<1> QED
  BY <1>1, <1>2, <1>3, <1>4
  DEF Effect, Share, AsBatch, AsMessage, Leaving, Outside, Places, Published

(* Steps that add to the counter and leave the sum to be published later. *)
LEMMA CountsUnseen ==
  ASSUME SinkInv, WorkerType, BatchInv, NEW p \in Partitions,
         FallBack(p) \/ NextMessage(p) \/ MessageLeaves(p) \/ Restore(p)
  PROVE  Effect(p)
<1>1. /\ pc \in [Partitions -> Places] /\ held \in [Partitions -> 0 .. BatchSize]
      /\ value \in [Partitions -> Int] /\ inflight \in Int
      /\ held[p] \in Nat
  BY ConsumerMetricsAssumption DEF WorkerType
<1>2. SinkStep /\ UNCHANGED process /\ held' = held /\ value' = value
  BY DEF SinkStep, FallBack, NextMessage, MessageLeaves, Restore, worker
<1>3. /\ \/ /\ pc[p] = "bulk" /\ pc' = [pc EXCEPT ![p] = "next"]
            /\ inflight' = inflight - held[p]
         \/ /\ pc[p] = "next" /\ pc' = [pc EXCEPT ![p] = "message"]
            /\ inflight' = inflight + 1
         \/ /\ pc[p] = "handled" /\ pc' = [pc EXCEPT ![p] = "next"]
            /\ inflight' = inflight - 1
         \/ /\ pc[p] = "next" /\ pc' = [pc EXCEPT ![p] = "leave"]
            /\ inflight' = inflight + held[p]
  BY DEF FallBack, NextMessage, MessageLeaves, Restore, Move
<1> QED
  BY <1>1, <1>2, <1>3
  DEF Effect, Share, AsBatch, AsMessage, Leaving, Outside, Places, Published

LEMMA Leaves ==
  ASSUME SinkInv, WorkerType, BatchInv, NEW p \in Partitions, Leave(p) \/ LeaveBad(p)
  PROVE  Effect(p)
<1>1. /\ pc \in [Partitions -> Places] /\ held \in [Partitions -> 0 .. BatchSize]
      /\ value \in [Partitions -> Int] /\ inflight \in Int
      /\ held[p] \in Nat /\ BatchSize \in Nat
  BY ConsumerMetricsAssumption DEF WorkerType
<1>2. SinkStep /\ UNCHANGED process
  BY DEF SinkStep, Leave, LeaveBad, Add
<1>3. CASE Leave(p)
  <2>1. /\ pc[p] = "leave" /\ pc'[p] \in Leaving /\ pc' = [pc EXCEPT ![p] = pc'[p]]
        /\ held' = [held EXCEPT ![p] = 0]
        /\ inflight' = inflight - held[p]
        /\ value' = [value EXCEPT ![p] = inflight']
    BY <1>1, <1>3 DEF Leave, Add, Move, Leaving
  <2> QED
    BY <1>1, <1>2, <2>1
    DEF Effect, Share, AsBatch, AsMessage, Leaving, Outside, Places, Published
<1>4. CASE LeaveBad(p)
  <2>1. /\ pc[p] = "handled" /\ pc' = [pc EXCEPT ![p] = "publishOut"]
        /\ held' = held /\ held[p] = 0
        /\ inflight' = inflight - 1
        /\ value' = [value EXCEPT ![p] = inflight']
    BY <1>1, <1>4 DEF LeaveBad, InFallback, Add, Move
  <2> QED
    BY <1>1, <1>2, <2>1
    DEF Effect, Share, AsBatch, AsMessage, Leaving, Outside, Places, Published
<1> QED BY <1>3, <1>4

LEMMA WorkerEffect ==
  ASSUME SinkInv, WorkerType, BatchInv, NEW p \in Partitions, WorkerStep(p)
  PROVE  Effect(p)
BY ComesIn, Publishes, Passes, CountsUnseen, Leaves DEF WorkerStep

(* The shares are within the batch size, so the lemmas about grids apply. *)
LEMMA SharesType ==
  ASSUME WorkerType
  PROVE  Shares \in [Partitions -> 0 .. BatchSize]
BY ConsumerMetricsAssumption DEF WorkerType, Shares, Share

LEMMA ConsumerStarts == ConsumerInit => ConsumerInv
<1> SUFFICES ASSUME ConsumerInit PROVE ConsumerInv
  OBVIOUS
<1>1. SinkInv
  BY SinkStarts DEF ConsumerInit
<1>2. /\ pc = [p \in Partitions |-> "select"] /\ held = [p \in Partitions |-> 0]
      /\ value = [p \in Partitions |-> 0] /\ inflight = 0
      /\ cancelled = FALSE /\ flusher = "running"
      /\ gauges = [k \in Gauges |-> NoValue]
  BY DEF ConsumerInit, SinkInit
<1>3. WorkerType /\ BatchInv
  BY <1>2, ConsumerMetricsAssumption DEF WorkerType, BatchInv, Places, Outside, Leaving
<1>4. \A p \in Partitions : Shares[p] = 0
  BY <1>2 DEF Shares, Share, AsBatch, AsMessage
<1>5. inflight = Cardinality(Tokens)
  BY <1>2, <1>3, <1>4, SharesType, GridBounded DEF Tokens
<1>6. GaugeInv
  BY <1>2, ConsumerMetricsAssumption DEF GaugeInv, Leaving
<1> QED BY <1>1, <1>3, <1>5, <1>6 DEF ConsumerInv

LEMMA WorkerKeeps ==
  ASSUME ConsumerInv, NEW p \in Partitions, WorkerStep(p)
  PROVE  ConsumerInv'
<1>1. Effect(p)
  BY WorkerEffect DEF ConsumerInv
<1>2. SinkInv'
  BY <1>1, SinkStepKeeps DEF Effect, ConsumerInv
<1>3. Shares \in [Partitions -> 0 .. BatchSize] /\ \A q \in Partitions : Share(q) \in Nat
  BY SharesType, ConsumerMetricsAssumption DEF ConsumerInv, WorkerType, Share
<1>4. Share(p)' \in Nat
  BY <1>1, ConsumerMetricsAssumption DEF Effect, Share
<1>5. WorkerType'
  BY <1>1, <1>3, <1>4 DEF Effect, WorkerType, ConsumerInv
<1>6. BatchInv'
  BY <1>1 DEF Effect, BatchInv, ConsumerInv
<1>7. /\ Shares' \in [Partitions -> 0 .. BatchSize]
      /\ Shares[p] = Share(p) /\ Shares'[p] = Share(p)'
      /\ \A q \in Partitions \ {p} : Shares'[q] = Shares[q]
  <2>1. Shares' \in [Partitions -> 0 .. BatchSize]
    BY <1>5, ConsumerMetricsAssumption DEF WorkerType, Shares, Share
  <2> QED BY <1>1, <2>1 DEF Effect, Shares, Share
<1>8. /\ inflight' = Cardinality(Tokens')
      /\ Share(p)' = 0 => inflight' \in Bound(Cardinality(Partitions) - 1)
  <2>1. /\ Cardinality(Tokens') = Cardinality(Tokens) + Share(p)' - Share(p)
        /\ Share(p)' = 0 => Cardinality(Tokens') \in Bound(Cardinality(Partitions) - 1)
    BY <1>3, <1>7, GridShift DEF Tokens
  <2> QED BY <1>1, <2>1 DEF Effect, ConsumerInv
<1>9. GaugeInv'
  <2>1. ASSUME NEW q \in Partitions, pc'[q] \in Leaving
        PROVE  value'[q] \in Bound(Cardinality(Partitions) - 1)
    <3>1. CASE q = p
      <4>1. Share(p)' = 0
        BY <2>1, <3>1 DEF Share, AsBatch, AsMessage, Leaving
      <4> QED BY <1>1, <1>8, <2>1, <3>1, <4>1 DEF Effect
    <3>2. CASE q # p
      BY <1>1, <2>1, <3>2 DEF Effect, GaugeInv, ConsumerInv
    <3> QED BY <3>1, <3>2
  <2>2. \/ gauges'[Inflight] \in {NoValue} \cup Bound(Cardinality(Partitions) - 1)
        \/ \E q \in Partitions : pc'[q] \in Published
    <3>1. CASE pc[p] \in Leaving /\ gauges'[Inflight] = value[p]
      BY <3>1 DEF GaugeInv, ConsumerInv
    <3>2. CASE pc'[p] \in Published
      BY <3>2
    <3>3. CASE pc[p] \notin Published /\ gauges' = gauges
      BY <1>1, <3>3 DEF Effect, GaugeInv, ConsumerInv
    <3> QED BY <1>1, <3>1, <3>2, <3>3 DEF Effect
  <2> QED BY <2>1, <2>2 DEF GaugeInv, Bound
<1> QED BY <1>2, <1>5, <1>6, <1>8, <1>9 DEF ConsumerInv

(* The background goroutines leave the workers alone. *)
LEMMA BackgroundKeeps ==
  ASSUME ConsumerInv, FetchFails \/ Cancel \/ FlushTick \/ LastFlush \/ Exit
  PROVE  ConsumerInv'
<1>1. UNCHANGED <<pc, held, value, inflight>>
  BY DEF FetchFails, Cancel, FlushTick, LastFlush, Exit, worker
<1>2. SinkStep
  BY ConsumerMetricsAssumption
  DEF FetchFails, Cancel, FlushTick, LastFlush, Exit, SinkStep
<1>3. SinkInv'
  BY <1>2, SinkStepKeeps DEF ConsumerInv
<1>4. WorkerType' /\ BatchInv' /\ inflight' = Cardinality(Tokens')
  BY <1>1 DEF ConsumerInv, WorkerType, BatchInv, Tokens, Grid, Shares, Share
<1>5. GaugeInv'
  <2>1. gauges'[Inflight] \in {gauges[Inflight], NoValue}
    BY ConsumerMetricsAssumption
    DEF FetchFails, Cancel, FlushTick, LastFlush, Exit, Flush, IncCounter, sink
  <2> QED BY <1>1, <2>1 DEF GaugeInv, Bound, ConsumerInv
<1> QED BY <1>3, <1>4, <1>5 DEF ConsumerInv

(* Every reachable state of a consumer's metrics satisfies the invariant, for *)
(* any number of partitions and any batch size.                               *)
THEOREM ConsumerInvariance == ConsumerSpec => []ConsumerInv
<1>1. ConsumerInv /\ UNCHANGED <<sink, consumer>> => ConsumerInv'
  BY DEF sink, consumer, worker, process, ConsumerInv, SinkInv, SinkType, NothingLostOrDoubled,
     WorkerType, BatchInv, Tokens, Grid, Shares, Share, GaugeInv, Bound
<1>2. ConsumerInv /\ [ConsumerNext]_<<sink, consumer>> => ConsumerInv'
  BY <1>1, WorkerKeeps, BackgroundKeeps DEF ConsumerNext
<1> QED BY <1>2, ConsumerStarts, PTL DEF ConsumerSpec

(* The workers, the fetch loop and the flusher of a consumer lose no count   *)
(* and no duration and log none twice.                                       *)
THEOREM ConsumerLosesNothing == ConsumerSpec => []NothingLostOrDoubled
<1>1. ConsumerInv => NothingLostOrDoubled
  BY DEF ConsumerInv, SinkInv
<1> QED BY <1>1, ConsumerInvariance, PTL

(* Whatever a step of a consumer does to the sink is one of its operations. *)
LEMMA ConsumerUsesSink ==
  ASSUME ConsumerInv, [ConsumerNext]_<<sink, consumer>>
  PROVE  SinkStep
<1>1. CASE UNCHANGED <<sink, consumer>>
  BY <1>1 DEF SinkStep
<1>2. ASSUME NEW p \in Partitions, WorkerStep(p) PROVE SinkStep
  BY <1>2, WorkerEffect DEF ConsumerInv, Effect
<1>3. CASE FetchFails \/ Cancel \/ FlushTick \/ LastFlush \/ Exit
  BY <1>3, ConsumerMetricsAssumption DEF FetchFails, Cancel, FlushTick, LastFlush, Exit, SinkStep
<1> QED BY <1>1, <1>2, <1>3 DEF ConsumerNext

(* The statistics of a window a consumer logs belong together too: half of   *)
(* it on either side of p50, p95 up to the largest value, the mean between   *)
(* the extremes, however long the work took and whenever it was flushed.      *)
THEOREM ConsumerStatsDescribe == ConsumerSpec => []StatsDescribeWindow
<1>1. ConsumerInit => StatsKnown
  BY StatsStart DEF ConsumerInit
<1>2. ConsumerInv /\ StatsKnown /\ [ConsumerNext]_<<sink, consumer>> => StatsKnown'
  BY ConsumerUsesSink, StatsStepKeeps DEF ConsumerInv
<1> QED BY <1>1, <1>2, ConsumerInvariance, StatsKnownDescribes, PTL DEF ConsumerSpec

(* The inflight counter is at every step what the workers have in flight,    *)
(* the detour of the fallback included, and nothing when all are idle.       *)
THEOREM InflightWithinWorkHolds == ConsumerSpec => []InflightWithinWork
<1>1. ASSUME ConsumerInv PROVE InflightWithinWork
  <2>1. Shares \in [Partitions -> 0 .. BatchSize]
    BY <1>1, SharesType DEF ConsumerInv
  <2>2. inflight \in Bound(Cardinality(Partitions))
    BY <1>1, <2>1, GridBounded DEF ConsumerInv, Tokens
  <2>3. ASSUME AllIdle PROVE inflight = 0
    <3>1. \A p \in Partitions : Shares[p] = 0
      BY <2>3 DEF AllIdle, Shares, Share, AsBatch, AsMessage
    <3> QED BY <1>1, <2>1, <3>1, GridBounded DEF ConsumerInv, Tokens
  <2> QED BY <2>2, <2>3 DEF InflightWithinWork, Bound
<1> QED BY <1>1, ConsumerInvariance, PTL

(* The gauge an idle consumer shows is at most what all partitions but one   *)
(* can have in flight, however the sums of the workers overtake each other.  *)
THEOREM StaleGaugeBoundedHolds == ConsumerSpec => []StaleGaugeBounded
<1>1. ConsumerInv => StaleGaugeBounded
  BY DEF ConsumerInv, GaugeInv, StaleGaugeBounded, AllIdle, Published, Outside, Bound
<1> QED BY <1>1, ConsumerInvariance, PTL
=============================================================================
