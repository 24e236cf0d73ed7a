----------------------------- MODULE MCMetrics -----------------------------
(***************************************************************************)
(* Small instances of ApiMetrics and ConsumerMetrics for TLC.  Each        *)
(* process has a sink of its own: `owner' says whose sink it is, and the   *)
(* other process stands still.                                             *)
(***************************************************************************)
EXTENDS ApiMetrics, ConsumerMetrics

CONSTANTS h1, h2,  \* handlers
          p1, p2   \* partitions

VARIABLE owner

vars == <<sink, api, consumer, owner>>

CounterKeys == {RequestCounter, QueryCounter, Messages, Commits, Errors}
GaugeKeys == {Inflight}
TimerKeys == {RequestTimer, QueryTimer, Duration}

(* Sorted is the sorting of the standard module. *)
ASSUME SortingAgrees ==
  \A values \in BoundedSeq(0..3, 5) : Sorted(values) = SortSeq(values, <)

Symmetry == Permutations({h1, h2}) \cup Permutations({p1, p2})

Init ==
  /\ ApiInit /\ ConsumerInit
  /\ owner \in {"api", "processor"}

Next ==
  /\ \/ owner = "api" /\ ApiNext /\ UNCHANGED consumer
     \/ owner = "processor" /\ ConsumerNext /\ UNCHANGED api
  /\ UNCHANGED owner

Spec == Init /\ [][Next]_vars
=============================================================================
