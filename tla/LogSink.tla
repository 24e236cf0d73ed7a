------------------------------ MODULE LogSink ------------------------------
(***************************************************************************)
(* The metrics sink of both processes: counters, gauges and windows of     *)
(* durations in memory, logged and cleared by Flush.  Every operation      *)
(* holds the sink's mutex, so each is one step of whoever calls it.        *)
(* ApiMetrics and ConsumerMetrics say who calls them and when.             *)
(***************************************************************************)
EXTENDS Naturals, SequencesExt

CONSTANTS Counters, Gauges, Timers,  \* the metric keys
          NoValue                    \* a gauge that is not in the map

VARIABLES counters,  \* counters[k], 0 when the key is not in the map
          gauges,    \* gauges[k]
          timers,    \* timers[k]: the durations of the window
          logged,    \* what the flushes so far have logged
          told       \* history: all the sink was ever told

sink == <<counters, gauges, timers, logged, told>>

Nothing == [counters |-> [k \in Counters |-> 0], durations |-> [k \in Timers |-> 0]]

SinkInit ==
  /\ counters = Nothing.counters
  /\ gauges = [k \in Gauges |-> NoValue]
  /\ timers = [k \in Timers |-> <<>>]
  /\ logged = [total |-> Nothing, stats |-> {}]
  /\ told = Nothing

IncCounter(k, n) ==
  /\ counters' = [counters EXCEPT ![k] = @ + n]
  /\ told' = [told EXCEPT !.counters[k] = @ + n]
  /\ UNCHANGED <<gauges, timers, logged>>

SetGauge(k, v) ==
  /\ gauges' = [gauges EXCEPT ![k] = v]
  /\ UNCHANGED <<counters, timers, logged, told>>

ObserveDuration(k, d) ==
  /\ timers' = [timers EXCEPT ![k] = Append(@, d)]
  /\ told' = [told EXCEPT !.durations[k] = @ + 1]
  /\ UNCHANGED <<counters, gauges, logged>>

(***************************************************************************)
(* A hundred times the q-th percentile of a sorted sequence: at rank       *)
(* q * (n - 1) / 100, between the two values around it.                    *)
(***************************************************************************)
Quantile(sorted, q) ==
  LET rank == q * (Len(sorted) - 1)
      left == rank \div 100
      weight == rank % 100
  IN
  IF weight = 0 THEN 100 * sorted[left + 1]
  ELSE sorted[left + 1] * (100 - weight) + sorted[left + 2] * weight

(* The values in ascending order: at place k the smallest one that k values  *)
(* do not exceed.                                                            *)
Sorted(values) ==
  [k \in DOMAIN values |->
    CHOOSE v \in Range(values) :
      /\ Cardinality({j \in DOMAIN values : values[j] < v}) < k
      /\ Cardinality({j \in DOMAIN values : values[j] <= v}) >= k]

(* Mistake: the values are taken in the order they were observed. *)
DurationStatsUnsorted(values) ==
  [count |-> Len(values), sum |-> FoldLeft(+, 0, values),
   p50 |-> Quantile(values, 50), p95 |-> Quantile(values, 95),
   max |-> values[Len(values)], of |-> values]

(* What is logged of a window; `of' is the window itself, for the properties. *)
DurationStats(values) ==
  LET sorted == Sorted(values) IN
  [count |-> Len(values), sum |-> FoldLeft(+, 0, values),
   p50 |-> Quantile(sorted, 50), p95 |-> Quantile(sorted, 95),
   max |-> sorted[Len(sorted)], of |-> values]

(* Mistake: the counters go on from where they were logged. *)
FlushKeepsCounters ==
  /\ logged' =
       [total |-> [counters |-> [k \in Counters |-> logged.total.counters[k] + counters[k]],
                   durations |-> [k \in Timers |-> logged.total.durations[k] + Len(timers[k])]],
        stats |-> {DurationStats(timers[k]) : k \in {j \in Timers : timers[j] # <<>>}}]
  /\ gauges' = [k \in Gauges |-> NoValue]
  /\ timers' = [k \in Timers |-> <<>>]
  /\ UNCHANGED <<counters, told>>

(* Everything is logged and the maps are cleared; an empty sink logs nothing, *)
(* which changes nothing either.                                              *)
Flush ==
  /\ logged' =
       [total |-> [counters |-> [k \in Counters |-> logged.total.counters[k] + counters[k]],
                   durations |-> [k \in Timers |-> logged.total.durations[k] + Len(timers[k])]],
        stats |-> {DurationStats(timers[k]) : k \in {j \in Timers : timers[j] # <<>>}}]
  /\ counters' = Nothing.counters
  /\ gauges' = [k \in Gauges |-> NoValue]
  /\ timers' = [k \in Timers |-> <<>>]
  /\ UNCHANGED told

----------------------------------------------------------------------------
(* No increment and no duration is lost or logged twice between the calls of *)
(* concurrent users and the flushes in between.                              *)
NothingLostOrDoubled ==
  /\ \A k \in Counters : logged.total.counters[k] + counters[k] = told.counters[k]
  /\ \A k \in Timers : logged.total.durations[k] + Len(timers[k]) = told.durations[k]

(* The statistics of a logged window belong together: half of its values are *)
(* not above p50, half not below it, p95 lies between p50 and the largest,   *)
(* and the mean between the extremes.                                        *)
StatsDescribeWindow ==
  \A s \in logged.stats :
    LET below == {k \in DOMAIN s.of : 100 * s.of[k] <= s.p50}
        above == {k \in DOMAIN s.of : 100 * s.of[k] >= s.p50}
    IN
    /\ 2 * Cardinality(below) >= s.count /\ 2 * Cardinality(above) >= s.count
    /\ s.p50 <= s.p95 /\ s.p95 <= 100 * s.max
    /\ \A k \in DOMAIN s.of : s.of[k] <= s.max
    /\ s.sum <= s.count * s.max /\ \E k \in DOMAIN s.of : s.count * s.of[k] <= s.sum
=============================================================================
