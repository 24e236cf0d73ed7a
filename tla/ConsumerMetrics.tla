-------------------------- MODULE ConsumerMetrics --------------------------
(***************************************************************************)
(* What the partition workers of one consumer tell the metrics sink, the   *)
(* inflight counter they share, and the flusher in the background.  The    *)
(* counter is atomic and so is the sink, but adding to the one and         *)
(* publishing the sum to the other are two steps.  Which message comes to  *)
(* what is the concern of Consumer: here every outcome is possible.  The   *)
(* gauges that hold a time are left out.                                   *)
(***************************************************************************)
EXTENDS LogSink, Integers

CONSTANTS Partitions,     \* one worker each
          BatchSize,
          WorkDurations,  \* how long a bulk insert or a message may take
          MaxMessages,    \* bound on the messages taken
          MaxNoise        \* bound on counted errors and ticks of the flusher together

Inflight == "consumer_inflight_messages"
Duration == "kafka_consumer_processing_duration_ms"
Messages == "kafka_consumer_messages_total"
Commits == "kafka_consumer_commit_total"
Errors == "kafka_consumer_retries_total"  \* and the other keys only an error counts

ASSUME ConsumerMetricsAssumption ==
  /\ BatchSize \in Nat \ {0} /\ WorkDurations \subseteq Nat
  /\ MaxMessages \in Nat /\ MaxNoise \in Nat
  /\ IsFiniteSet(Partitions)
  /\ {Messages, Commits, Errors} \subseteq Counters
  /\ Inflight \in Gauges /\ Duration \in Timers
  /\ NoValue \notin Int

VARIABLES pc,         \* pc[p]: where the worker of partition p is
          held,       \* held[p]: messages of its batch
          bad,        \* bad[p]: an undecodable message waits behind the batch
          left,       \* left[p]: messages of the fallback not handled yet
          value,      \* value[p]: the sum it is about to publish
          inflight,   \* the counter of the consumer
          taken,      \* messages taken so far
          cancelled,  \* the context is done
          flusher,    \* "running" or "done"
          ticks,      \* ticks of the flusher so far
          exited      \* the process has ended

worker == <<held, bad, left, taken>>
process == <<cancelled, flusher, ticks, exited>>
consumer == <<pc, worker, value, inflight, process>>

ConsumerInit ==
  /\ SinkInit
  /\ pc = [p \in Partitions |-> "select"]
  /\ held = [p \in Partitions |-> 0]
  /\ bad = [p \in Partitions |-> FALSE]
  /\ left = [p \in Partitions |-> 0]
  /\ value = [p \in Partitions |-> 0]
  /\ inflight = 0
  /\ taken = 0
  /\ cancelled = FALSE
  /\ flusher = "running"
  /\ ticks = 0
  /\ exited = FALSE

Quiet == told.counters[Errors] + ticks < MaxNoise

Move(p, from, to) == pc[p] = from /\ pc' = [pc EXCEPT ![p] = to]

Take(p) ==
  /\ ~cancelled /\ taken < MaxMessages
  /\ taken' = taken + 1
  /\ UNCHANGED <<sink, left, value, inflight, process>>

(* A message that decodes joins the batch, and a full batch is flushed. *)
TakeGood(p) ==
  /\ Move(p, "select", IF held[p] + 1 >= BatchSize THEN "enter" ELSE "select")
  /\ Take(p)
  /\ held' = [held EXCEPT ![p] = @ + 1]
  /\ UNCHANGED bad

(* One that does not has the batch in front of it flushed first. *)
TakeBad(p) ==
  /\ Move(p, "select", IF held[p] > 0 THEN "enter" ELSE "enterBad")
  /\ Take(p)
  /\ bad' = [bad EXCEPT ![p] = TRUE]
  /\ UNCHANGED held

(* The ticker flushes what is held, after a cancellation as well. *)
Tick(p) ==
  /\ held[p] > 0
  /\ Move(p, "select", "enter")
  /\ UNCHANGED <<sink, worker, value, inflight, process>>

(* AddInt64 on the counter: its result is what will be published. *)
Add(p, n) ==
  /\ inflight' = inflight + n
  /\ value' = [value EXCEPT ![p] = inflight + n]
  /\ UNCHANGED <<sink, process>>

Enter(p) == Move(p, "enter", "publish") /\ Add(p, held[p]) /\ UNCHANGED worker

EnterBad(p) ==
  /\ Move(p, "enterBad", "publishBad")
  /\ Add(p, 1)
  /\ left' = [left EXCEPT ![p] = 1]
  /\ UNCHANGED <<held, bad, taken>>

Publish(p, from, to) ==
  /\ Move(p, from, to)
  /\ SetGauge(Inflight, value[p])
  /\ UNCHANGED <<worker, value, inflight, process>>

PublishIn(p) == Publish(p, "publish", "bulk") \/ Publish(p, "publishBad", "message")

----------------------------------------------------------------------------
Silent(p, from, to) ==
  /\ Move(p, from, to)
  /\ UNCHANGED <<sink, worker, value, inflight, process>>

Observe(p, from, to) ==
  /\ Move(p, from, to)
  /\ \E d \in WorkDurations : ObserveDuration(Duration, d)
  /\ UNCHANGED <<worker, value, inflight, process>>

Count(p, from, to, k, n) ==
  /\ Move(p, from, to)
  /\ IncCounter(k, n)
  /\ UNCHANGED <<worker, value, inflight, process>>

(* A try that failed, of the bulk insert, the message, the DLQ or a commit. *)
Retry(p) ==
  /\ Quiet
  /\ \E at \in {"bulk", "message", "commit"} : Count(p, at, at, Errors, 1)

BulkStored(p) == Observe(p, "bulk", "bulkCommit")
BulkCommitted(p) == Count(p, "bulkCommit", "leave", Commits, held[p])
BulkAborted(p) == cancelled /\ \E at \in {"bulk", "bulkCommit"} : Silent(p, at, "leave")

(* The batch leaves the counter, for its messages count themselves. *)
FallBack(p) ==
  /\ Move(p, "bulk", "next")
  /\ inflight' = inflight - held[p]
  /\ left' = [left EXCEPT ![p] = held[p]]
  /\ UNCHANGED <<sink, held, bad, taken, value, process>>

NextMessage(p) ==
  /\ left[p] > 0
  /\ Move(p, "next", "message")
  /\ inflight' = inflight + 1
  /\ UNCHANGED <<sink, worker, value, process>>

(* The message is stored or dead-lettered, then committed, or given up. *)
MessageHandled(p) == Observe(p, "message", "count")
MessageCounted(p) == Count(p, "count", "commit", Messages, 1)
MessageCommitted(p) == Count(p, "commit", "handled", Commits, 1)
MessageAborted(p) == \E at \in {"message", "commit"} : Silent(p, at, "handled")

(* Outside a batch the message was the undecodable one. *)
InFallback(p) == held[p] > 0

MessageLeaves(p) ==
  /\ InFallback(p)
  /\ Move(p, "handled", "next")
  /\ inflight' = inflight - 1
  /\ left' = [left EXCEPT ![p] = @ - 1]
  /\ UNCHANGED <<sink, held, bad, taken, value, process>>

(* Mistake: the deferred decrement is not prepared for. *)
RestoreForgotten(p) ==
  /\ left[p] = 0
  /\ Move(p, "next", "leave")
  /\ UNCHANGED <<sink, worker, value, inflight, process>>

(* The batch comes back, for the deferred call takes it off again. *)
Restore(p) ==
  /\ left[p] = 0
  /\ Move(p, "next", "leave")
  /\ inflight' = inflight + held[p]
  /\ UNCHANGED <<sink, worker, value, process>>

(* flushBatch returns and the batch is emptied. *)
Leave(p) ==
  /\ Move(p, "leave", IF bad[p] THEN "publishThenBad" ELSE "publishOut")
  /\ Add(p, - held[p])
  /\ held' = [held EXCEPT ![p] = 0]
  /\ UNCHANGED <<bad, left, taken>>

LeaveBad(p) ==
  /\ ~InFallback(p)
  /\ Move(p, "handled", "publishOut")
  /\ Add(p, -1)
  /\ bad' = [bad EXCEPT ![p] = FALSE]
  /\ left' = [left EXCEPT ![p] = 0]
  /\ UNCHANGED <<held, taken>>

(* Mistake: the new sum is not published. *)
PublishOutForgotten(p) ==
  Silent(p, "publishOut", "select") \/ Silent(p, "publishThenBad", "enterBad")

PublishOut(p) ==
  Publish(p, "publishOut", "select") \/ Publish(p, "publishThenBad", "enterBad")

----------------------------------------------------------------------------
FetchFails ==
  /\ ~cancelled
  /\ Quiet
  /\ IncCounter(Errors, 1)
  /\ UNCHANGED <<pc, worker, value, inflight, process>>

Cancel ==
  /\ ~cancelled
  /\ cancelled' = TRUE
  /\ UNCHANGED <<sink, pc, worker, value, inflight, flusher, ticks, exited>>

(* select takes either case when both are ready. *)
FlushTick ==
  /\ flusher = "running" /\ Quiet
  /\ Flush
  /\ ticks' = ticks + 1
  /\ UNCHANGED <<pc, worker, value, inflight, cancelled, flusher, exited>>

(* The flusher's way out, if the process lets it get there. *)
LastFlush ==
  /\ cancelled /\ flusher = "running"
  /\ Flush
  /\ flusher' = "done"
  /\ UNCHANGED <<pc, worker, value, inflight, cancelled, ticks, exited>>

(* Start returns when its workers are done or the drain has taken too long,  *)
(* and the process ends; the flusher is not waited for.                      *)
Exit ==
  /\ cancelled
  /\ exited' = TRUE
  /\ UNCHANGED <<sink, pc, worker, value, inflight, cancelled, flusher, ticks>>

WorkerStep(p) ==
  \/ TakeGood(p) \/ TakeBad(p) \/ Tick(p) \/ Enter(p) \/ EnterBad(p) \/ PublishIn(p)
  \/ Retry(p) \/ BulkStored(p) \/ BulkCommitted(p) \/ BulkAborted(p)
  \/ FallBack(p) \/ NextMessage(p) \/ MessageLeaves(p) \/ Restore(p)
  \/ MessageHandled(p) \/ MessageCounted(p) \/ MessageCommitted(p) \/ MessageAborted(p)
  \/ Leave(p) \/ LeaveBad(p) \/ PublishOut(p)

ConsumerNext ==
  /\ ~exited
  /\ \/ FetchFails \/ Cancel \/ FlushTick \/ LastFlush \/ Exit
     \/ \E p \in Partitions : WorkerStep(p)

ConsumerSpec == ConsumerInit /\ [][ConsumerNext]_<<sink, consumer>>

----------------------------------------------------------------------------
AllIdle == \A p \in Partitions : pc[p] = "select"

(* Whatever the fallback takes off and puts back, the counter never leaves   *)
(* what the workers can have in flight, and comes back to nothing.           *)
InflightWithinWork ==
  /\ inflight \in 0 .. Cardinality(Partitions) * BatchSize
  /\ AllIdle => inflight = 0

(* A worker may publish its sum after another has published a later one, so  *)
(* the gauge may show work when there is none, but never more than what the  *)
(* other workers can have had in flight: with one partition it is right.     *)
StaleGaugeBounded ==
  AllIdle /\ gauges[Inflight] # NoValue =>
    gauges[Inflight] \in 0 .. (Cardinality(Partitions) - 1) * BatchSize
=============================================================================
