----------------------------- MODULE ApiMetrics -----------------------------
(***************************************************************************)
(* What the handlers of GET /transactions tell the metrics sink they share *)
(* with the repository, and when.  A handler counts its request where it   *)
(* answers it; its deferred calls run last in, first out: the sink is      *)
(* flushed before the duration of the request is observed.                 *)
(***************************************************************************)
EXTENDS LogSink

CONSTANTS Handlers,    \* handlers that may run at the same time
          Durations,   \* how long a query or a request may take
          MaxRequests  \* bound on the requests of a behaviour

RequestTimer == "api_request_duration_ms"
QueryTimer == "postgres_query_duration_ms"
RequestCounter == "api_requests_total"
QueryCounter == "postgres_queries_total"

(* There may be any finite number of handlers; durations come from a clock   *)
(* that does not run backwards.                                              *)
ASSUME ApiMetricsAssumption ==
  /\ MaxRequests \in Nat /\ Durations \subseteq Nat
  /\ IsFiniteSet(Handlers)
  /\ {RequestCounter, QueryCounter} \subseteq Counters
  /\ {RequestTimer, QueryTimer} \subseteq Timers

VARIABLES handler,  \* handler[h]: where handler h is
          requests  \* requests that have come in

api == <<handler, requests>>

ApiInit ==
  /\ SinkInit
  /\ handler = [h \in Handlers |-> "idle"]
  /\ requests = 0

Proceed(h, from, to) ==
  /\ handler[h] = from
  /\ handler' = [handler EXCEPT ![h] = to]
  /\ UNCHANGED requests

Request(h) ==
  /\ requests < MaxRequests
  /\ handler[h] = "idle"
  /\ handler' = [handler EXCEPT ![h] = "parse"]
  /\ requests' = requests + 1
  /\ UNCHANGED sink

(* A parameter is refused and the request counted. *)
Refuse(h) == Proceed(h, "parse", "deferred") /\ IncCounter(RequestCounter, 1)

(* Get counts its query, whatever comes of it, and its own deferred call     *)
(* observes the duration.                                                    *)
CountQuery(h) == Proceed(h, "parse", "queried") /\ IncCounter(QueryCounter, 1)

(* Rows that cannot be closed are counted once more. *)
CountCloseError(h) == Proceed(h, "queried", "closed") /\ IncCounter(QueryCounter, 1)

ObserveQuery(h) ==
  /\ Proceed(h, "queried", "answer") \/ Proceed(h, "closed", "answer")
  /\ \E d \in Durations : ObserveDuration(QueryTimer, d)

(* The answer, or its error, is written and counted. *)
CountRequest(h) == Proceed(h, "answer", "deferred") /\ IncCounter(RequestCounter, 1)

(* Mistake: a flush that finds another handler running leaves it to that one. *)
FlushMetricsAlone(h) ==
  /\ Proceed(h, "deferred", "observe")
  /\ IF \E g \in Handlers \ {h} : handler[g] # "idle" THEN UNCHANGED sink ELSE Flush

FlushMetrics(h) == Proceed(h, "deferred", "observe") /\ Flush

ObserveRequest(h) ==
  /\ Proceed(h, "observe", "idle")
  /\ \E d \in Durations : ObserveDuration(RequestTimer, d)

Step(h) ==
  \/ Refuse(h) \/ CountQuery(h) \/ CountCloseError(h) \/ ObserveQuery(h)
  \/ CountRequest(h) \/ FlushMetrics(h) \/ ObserveRequest(h)

ApiNext == \E h \in Handlers : Request(h) \/ Step(h)

ApiSpec == ApiInit /\ [][ApiNext]_<<sink, api>>

----------------------------------------------------------------------------
AtRest == \A h \in Handlers : handler[h] = "idle"

(* When no request is running, what was counted and every query's duration   *)
(* is in the log.  Only durations of requests that ran at the same time as   *)
(* the last flush are still in memory, so a handler leaves at most one.      *)
LittleIsLeftAtRest ==
  AtRest =>
    /\ counters[RequestCounter] = 0 /\ counters[QueryCounter] = 0
    /\ timers[QueryTimer] = <<>>
    /\ Len(timers[RequestTimer]) <= Cardinality(Handlers)
=============================================================================
