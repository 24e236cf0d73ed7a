------------------------------ MODULE Consumer ------------------------------
(***************************************************************************)
(* The Kafka consumer of the processor (internal/transport/kafka) running  *)
(* in the instances of one consumer group, with the table and the dead     *)
(* letter topic it writes and the group state it shares.                   *)
(*                                                                         *)
(* Each instance runs Start: a fetch loop that hands every message to the  *)
(* goroutine of its partition over a bounded channel.  A partition worker  *)
(* batches decodable messages, writes a batch with one INSERT, falls back  *)
(* to one message at a time when that fails, routes what cannot be stored  *)
(* to the dead letter queue and commits offsets after that.                *)
(*                                                                         *)
(* A call to PostgreSQL or Kafka is one step that takes effect and         *)
(* returns.  appCtx is read where the code reads it or where the call it   *)
(* is passed to does: database/sql returns ctx.Err() without executing     *)
(* once the context is cancelled.  The read of appCtx.Err() right after a  *)
(* failed call is folded into the call: a worker that passes it and is     *)
(* cancelled next is stopped by its next call, or by the next failed DLQ   *)
(* write, in the same state.  A statement that is under way when appCtx is *)
(* cancelled may have been applied: so may one that timed out just before, *)
(* and its worker is stopped in that state.  Instances with a signal or    *)
(* without DLQ writer therefore have DeadlineExceeded in ServiceErrors.    *)
(***************************************************************************)
EXTENDS Topic

CONSTANTS Instances,          \* processes of the consumer group
          NoOwner,            \* owner of a partition no instance is assigned
          BatchSize,          \* cfg.BatchSize after normalizeKafkaConfig
          QueueSize,          \* PartitionWorkerQueueSize
          MaxProcessRetries,  \* cfg.MaxProcessRetries
          ServiceErrors,      \* what a call of the TransactionService may fail with
          DLQWriter,          \* whether c.writer is not nil
          MaxFaults           \* how often each fault may strike

FaultKinds == {"crash", "signal", "rebalance"}

(***************************************************************************)
(* The errors boundary.Classify tells apart, by the value it classifies.   *)
(* PostgresRepo.Save and SaveBulk return the driver's error as it is, so a *)
(* processor wired by bootstrap only ever sees the last two.               *)
(***************************************************************************)
ErrorKinds == {"ErrRepoNotInitialized", "ErrDBUnavailable", "DeadlineExceeded", "ExecError"}

Retryable(e) == e \in {"ErrRepoNotInitialized", "ErrDBUnavailable"}

(* Errors a statement may return although the server has applied it. *)
Ambiguous(e) == e \in {"DeadlineExceeded", "ExecError"}

ASSUME ConsumerAssumption ==
  /\ NoOwner \notin Instances
  /\ BatchSize \in Nat \ {0}
  /\ QueueSize \in Nat \ {0}
  /\ MaxProcessRetries \in Nat
  /\ ServiceErrors \subseteq ErrorKinds
  /\ DLQWriter \in BOOLEAN
  /\ MaxFaults \in [FaultKinds -> Nat]

VARIABLES
  db,         \* keys of the rows of table transactions
  dlq,        \* <<partition, offset>> of the messages written to the DLQ topic
  committed,  \* committed[p]: the group's committed offset, the next to deliver
  owner,      \* owner[p]: the instance partition p is assigned to
  position,   \* position[p]: the offset the owner's reader delivers next
  phase,      \* phase[i]: how far instance i is in Start and main
  ctx,        \* ctx[i]: "live", or why appCtx of instance i is cancelled
  hand,       \* hand[i]: the message between FetchMessage and the channel send
  chan,       \* chan[i][p]: buffered channel of the worker, a sequence of offsets
  worker,     \* worker[i][p]: the partition worker goroutine
  faults      \* faults[k]: how many faults of kind k have struck

external == <<db, dlq, committed>>
group == <<owner, position>>
process == <<phase, ctx, hand>>
vars == <<db, dlq, committed, owner, position, phase, ctx, hand, chan, worker, faults>>

Phases == {"down", "running", "draining", "closed"}
WorkerSteps == {"absent", "select", "bulk", "bulkCommit", "handle", "dlq", "commit", "exited"}

(* A partition with no goroutine: nothing in the workers map. *)
NoWorker == [pc |-> "absent", batch |-> <<>>, pending |-> <<>>, attempt |-> 0, cause |-> "none"]

Init ==
  /\ db = {} /\ dlq = {}
  /\ committed = [p \in Partitions |-> 1]
  /\ owner = [p \in Partitions |-> NoOwner]
  /\ position = [p \in Partitions |-> 1]
  /\ phase = [i \in Instances |-> "down"]
  /\ ctx = [i \in Instances |-> "live"]
  /\ hand = [i \in Instances |-> {}]
  /\ chan = [i \in Instances |-> [p \in Partitions |-> <<>>]]
  /\ worker = [i \in Instances |-> [p \in Partitions |-> NoWorker]]
  /\ faults = [k \in FaultKinds |-> 0]

Spend(k) ==
  /\ faults[k] < MaxFaults[k]
  /\ faults' = [faults EXCEPT ![k] = @ + 1]

(* The Kafka reader and the DLQ writer accept calls until Start closes them. *)
Open(i) == phase[i] \in {"running", "draining"}

Cancelled(i) == ctx[i] # "live"

----------------------------------------------------------------------------
(* Process lifecycle: cmd/processor, ProcessorApp.Run, Start. *)

(* main: configuration, signal context, bootstrap, ProcessorApp.Run, Start. *)
Boot(i) ==
  /\ phase[i] = "down"
  /\ phase' = [phase EXCEPT ![i] = "running"]
  /\ UNCHANGED <<external, group, ctx, hand, chan, worker, faults>>

(* SIGINT or SIGTERM cancels the context passed to Start. *)
Signal(i) ==
  /\ Spend("signal")
  /\ phase[i] = "running" /\ ~Cancelled(i)
  /\ ctx' = [ctx EXCEPT ![i] = "signalled"]
  /\ UNCHANGED <<external, group, phase, hand, chan, worker>>

(* The memory of instance i is gone; what it left in Kafka and PostgreSQL stays. *)
Forget(i) ==
  /\ phase' = [phase EXCEPT ![i] = "down"]
  /\ ctx' = [ctx EXCEPT ![i] = "live"]
  /\ hand' = [hand EXCEPT ![i] = {}]
  /\ chan' = [chan EXCEPT ![i] = [p \in Partitions |-> <<>>]]
  /\ worker' = [worker EXCEPT ![i] = [p \in Partitions |-> NoWorker]]

(* The group coordinator takes the partitions of instance i away. *)
LeaveGroup(i) ==
  owner' = [p \in Partitions |-> IF owner[p] = i THEN NoOwner ELSE owner[p]]

(* The process dies without running its shutdown. *)
Crash(i) ==
  /\ Spend("crash")
  /\ phase[i] # "down"
  /\ Forget(i) /\ LeaveGroup(i)
  /\ UNCHANGED <<external, position>>

(* Start has returned, Run closes the pool and main exits, with whatever     *)
(* goroutines are left.                                                      *)
Exit(i) ==
  /\ phase[i] = "closed"
  /\ Forget(i)
  /\ UNCHANGED <<external, group, faults>>

(***************************************************************************)
(* External: the consumer group assigns partition p to instance i, whose   *)
(* reader starts at the committed offset.  Taking p from its owner is a    *)
(* rebalance; so is assigning p to the same instance in a new generation.  *)
(* What an old owner has fetched stays in its memory.                      *)
(***************************************************************************)
Assign(p, i) ==
  /\ phase[i] = "running"
  /\ IF owner[p] = NoOwner THEN UNCHANGED faults ELSE Spend("rebalance")
  /\ owner' = [owner EXCEPT ![p] = i]
  /\ position' = [position EXCEPT ![p] = committed[p]]
  /\ UNCHANGED <<external, process, chan, worker>>

----------------------------------------------------------------------------
(* The fetch loop of Start. *)

(* FetchMessage returns the next message of an assigned partition. *)
Fetch(i, p) ==
  /\ phase[i] = "running" /\ hand[i] = {}
  /\ owner[p] = i /\ position[p] \in Offsets(p)
  /\ hand' = [hand EXCEPT ![i] = {<<p, position[p]>>}]
  /\ position' = [position EXCEPT ![p] = @ + 1]
  /\ UNCHANGED <<external, owner, phase, ctx, chan, worker, faults>>

(* Mistake: the channel holds one message more than its capacity. *)
DispatchBeyondCapacity(i, p) ==
  /\ phase[i] = "running"
  /\ Len(chan[i][p]) <= QueueSize
  /\ \E m \in hand[i] :
       /\ m[1] = p
       /\ chan' = [chan EXCEPT ![i][p] = Append(@, m[2])]
  /\ hand' = [hand EXCEPT ![i] = {}]
  /\ worker' = [worker EXCEPT ![i][p].pc = IF @ = "absent" THEN "select" ELSE @]
  /\ UNCHANGED <<external, group, phase, ctx, faults>>

(* LoadOrStore and the goroutine of a new partition, then the blocking send. *)
Dispatch(i, p) ==
  /\ phase[i] = "running"
  /\ Len(chan[i][p]) < QueueSize
  /\ \E m \in hand[i] :
       /\ m[1] = p
       /\ chan' = [chan EXCEPT ![i][p] = Append(@, m[2])]
  /\ hand' = [hand EXCEPT ![i] = {}]
  /\ worker' = [worker EXCEPT ![i][p].pc = IF @ = "absent" THEN "select" ELSE @]
  /\ UNCHANGED <<external, group, phase, ctx, faults>>

(* Mistake: the send to the channel does not watch the context. *)
LoopReturnsFromFetch(i) ==
  /\ phase[i] = "running" /\ Cancelled(i) /\ hand[i] = {}
  /\ phase' = [phase EXCEPT ![i] = "draining"]
  /\ UNCHANGED <<external, group, ctx, hand, chan, worker, faults>>

(* Mistake: the loop gives up on the first error of FetchMessage. *)
LoopReturnsOnError(i) ==
  /\ phase[i] = "running" /\ (Cancelled(i) \/ hand[i] = {})
  /\ phase' = [phase EXCEPT ![i] = "draining"]
  /\ hand' = [hand EXCEPT ![i] = {}]
  /\ UNCHANGED <<external, group, ctx, chan, worker, faults>>

(* The loop sees the cancelled context, in FetchMessage or in the blocked    *)
(* send, and returns; the deferred shutdown closes every channel.            *)
LoopReturns(i) ==
  /\ phase[i] = "running" /\ Cancelled(i)
  /\ phase' = [phase EXCEPT ![i] = "draining"]
  /\ hand' = [hand EXCEPT ![i] = {}]
  /\ UNCHANGED <<external, group, ctx, chan, worker, faults>>

(* closeWriter and reader.Close; the reader leaves the group. *)
CloseReader(i) ==
  /\ phase[i] = "draining"
  /\ phase' = [phase EXCEPT ![i] = "closed"]
  /\ LeaveGroup(i)
  /\ UNCHANGED <<external, position, ctx, hand, chan, worker, faults>>

(* workersWG.Wait returned in time. *)
Drained(i) ==
  /\ \A p \in Partitions : worker[i][p].pc \in {"absent", "exited"}
  /\ CloseReader(i)

(* ShutdownDrainTimeoutSec has passed first. *)
DrainTimeout(i) ==
  /\ \E p \in Partitions : worker[i][p].pc \notin {"absent", "exited"}
  /\ CloseReader(i)

----------------------------------------------------------------------------
(* The partition worker. *)

Become(i, p, w) == worker' = [worker EXCEPT ![i][p] = w]

(* flush() is over: its batch is truncated whatever became of it, and an     *)
(* undecodable message the flush made way for is handled next.               *)
AfterFlush(w) ==
  [w EXCEPT !.pc = IF w.pending = <<>> THEN "select" ELSE "handle",
            !.batch = <<>>, !.attempt = 0]

(* handleMessage has returned: the loop over the batch, or over the channel, *)
(* goes on with the next message whatever became of this one.                *)
AfterMessage(w) ==
  [w EXCEPT !.pc = IF Tail(w.pending) = <<>> THEN "select" ELSE "handle",
            !.pending = Tail(w.pending), !.attempt = 0, !.cause = "none"]

(* Mistake: the batch a bulk insert failed for goes to the DLQ as it is. *)
FallBackToDLQ(w) ==
  [w EXCEPT !.pc = "dlq", !.attempt = 0,
            !.batch = <<>>, !.pending = w.batch \o w.pending]

(* The bulk insert is given up: every message of the batch goes through      *)
(* handleMessage, in order, before the undecodable one behind them.          *)
FallBack(w) ==
  [w EXCEPT !.pc = "handle", !.attempt = 0,
            !.batch = <<>>, !.pending = w.batch \o w.pending]

(* Mistake: the worker does not look at appCtx before it takes a message. *)
ReceiveWhileStopping(i, p) ==
  LET w == worker[i][p]
      o == Head(chan[i][p])
  IN
  /\ w.pc = "select" /\ chan[i][p] # <<>>
  /\ chan' = [chan EXCEPT ![i][p] = Tail(@)]
  /\ \/ /\ ~Decodable(p, o)
        /\ Become(i, p, [w EXCEPT !.pc = IF w.batch = <<>> THEN "handle" ELSE "bulk",
                                  !.pending = <<o>>])
     \/ /\ Decodable(p, o)
        /\ Become(i, p, [w EXCEPT !.pc = IF Len(w.batch) + 1 < BatchSize THEN "select" ELSE "bulk",
                                  !.batch = Append(w.batch, o)])
  /\ UNCHANGED <<external, group, process, faults>>

(* Mistake: an undecodable message is handled at once, past the batch. *)
ReceiveWithoutFlush(i, p) ==
  LET w == worker[i][p]
      o == Head(chan[i][p])
  IN
  /\ w.pc = "select" /\ chan[i][p] # <<>>
  /\ chan' = [chan EXCEPT ![i][p] = Tail(@)]
  /\ \/ /\ Cancelled(i)
        /\ Become(i, p, [w EXCEPT !.pc = "exited"])
     \/ /\ ~Cancelled(i) /\ ~Decodable(p, o)
        /\ Become(i, p, [w EXCEPT !.pc = "handle", !.pending = <<o>>])
     \/ /\ ~Cancelled(i) /\ Decodable(p, o)
        /\ Become(i, p, [w EXCEPT !.pc = IF Len(w.batch) + 1 < BatchSize THEN "select" ELSE "bulk",
                                  !.batch = Append(w.batch, o)])
  /\ UNCHANGED <<external, group, process, faults>>

(***************************************************************************)
(* A message leaves the channel.  A cancelled worker stops here and leaves *)
(* it, and its batch, uncommitted.  An undecodable message first flushes   *)
(* the batch; a decodable one joins it and flushes it when it is full.     *)
(***************************************************************************)
Receive(i, p) ==
  LET w == worker[i][p]
      o == Head(chan[i][p])
  IN
  /\ w.pc = "select" /\ chan[i][p] # <<>>
  /\ chan' = [chan EXCEPT ![i][p] = Tail(@)]
  /\ \/ /\ Cancelled(i)
        /\ Become(i, p, [w EXCEPT !.pc = "exited"])
     \/ /\ ~Cancelled(i) /\ ~Decodable(p, o)
        /\ Become(i, p, [w EXCEPT !.pc = IF w.batch = <<>> THEN "handle" ELSE "bulk",
                                  !.pending = <<o>>])
     \/ /\ ~Cancelled(i) /\ Decodable(p, o)
        /\ Become(i, p, [w EXCEPT !.pc = IF Len(w.batch) + 1 < BatchSize THEN "select" ELSE "bulk",
                                  !.batch = Append(w.batch, o)])
  /\ UNCHANGED <<external, group, process, faults>>

(* The shutdown has closed the channel and it is empty. *)
ReceiveClosed(i, p) ==
  /\ worker[i][p].pc = "select" /\ chan[i][p] = <<>>
  /\ phase[i] \in {"draining", "closed"}
  /\ Become(i, p, [worker[i][p] EXCEPT !.pc = "exited"])
  /\ UNCHANGED <<external, group, process, chan, faults>>

(* Mistake: only a full batch or an undecodable message flushes. *)
TickNever(i, p) == FALSE

(* BatchFlushIntervalSec has elapsed. *)
Tick(i, p) ==
  /\ worker[i][p].pc = "select" /\ worker[i][p].batch # <<>>
  /\ Become(i, p, [worker[i][p] EXCEPT !.pc = "bulk"])
  /\ UNCHANGED <<external, group, process, chan, faults>>

----------------------------------------------------------------------------
(* flushBatch. *)

(* RegisterTransactions under a cancelled appCtx: flushBatch just returns. *)
BulkAborted(i, p) ==
  /\ worker[i][p].pc = "bulk" /\ Cancelled(i)
  /\ Become(i, p, AfterFlush(worker[i][p]))
  /\ UNCHANGED <<external, group, process, chan, faults>>

AllStorable(p, s) == \A k \in DOMAIN s : Storable(p, s[k])

(* One INSERT ... ON CONFLICT DO NOTHING stores the whole batch or nothing. *)
BulkStored(i, p) ==
  LET w == worker[i][p] IN
  /\ w.pc = "bulk" /\ ~Cancelled(i)
  /\ AllStorable(p, w.batch)
  /\ db' = db \cup KeysOf(p, w.batch)
  /\ Become(i, p, [w EXCEPT !.pc = "bulkCommit"])
  /\ UNCHANGED <<dlq, committed, group, process, chan, faults>>

(* What a call with the messages s may fail with. *)
Errors(p, s) == ServiceErrors \cup IF AllStorable(p, s) THEN {} ELSE {"ExecError"}

(* The statement of a failed call had no effect, or was applied and its answer lost. *)
MaybeStored(p, s, e) ==
  db' = db \/ (Ambiguous(e) /\ AllStorable(p, s) /\ db' = db \cup KeysOf(p, s))

(* Mistake: the retry loop counts one attempt too many. *)
BulkFailedOneTooMany(i, p) ==
  LET w == worker[i][p] IN
  /\ w.pc = "bulk" /\ ~Cancelled(i)
  /\ \E e \in Errors(p, w.batch) :
       /\ MaybeStored(p, w.batch, e)
       /\ Become(i, p, IF Retryable(e) /\ w.attempt <= MaxProcessRetries
                       THEN [w EXCEPT !.attempt = @ + 1]
                       ELSE FallBack(w))
  /\ UNCHANGED <<dlq, committed, group, process, chan, faults>>

(* Mistake: a batch whose bulk insert failed for good is given up. *)
BulkFailedDrops(i, p) ==
  LET w == worker[i][p] IN
  /\ w.pc = "bulk" /\ ~Cancelled(i)
  /\ \E e \in Errors(p, w.batch) :
       /\ MaybeStored(p, w.batch, e)
       /\ Become(i, p, IF Retryable(e) /\ w.attempt < MaxProcessRetries
                       THEN [w EXCEPT !.attempt = @ + 1]
                       ELSE AfterFlush(w))
  /\ UNCHANGED <<dlq, committed, group, process, chan, faults>>

(* A retryable error is retried MaxProcessRetries times; then, and on any    *)
(* other error, the batch falls back to one message at a time.               *)
BulkFailed(i, p) ==
  LET w == worker[i][p] IN
  /\ w.pc = "bulk" /\ ~Cancelled(i)
  /\ \E e \in Errors(p, w.batch) :
       /\ MaybeStored(p, w.batch, e)
       /\ Become(i, p, IF Retryable(e) /\ w.attempt < MaxProcessRetries
                       THEN [w EXCEPT !.attempt = @ + 1]
                       ELSE FallBack(w))
  /\ UNCHANGED <<dlq, committed, group, process, chan, faults>>

(* External: CommitMessages stores the highest offset of the request, even   *)
(* when the partition has moved on or away.                                  *)
CommitOffset(p, s) ==
  \E last \in DOMAIN s :
    /\ \A k \in DOMAIN s : s[k] <= s[last]
    /\ committed' = [committed EXCEPT ![p] = s[last] + 1]

(* A commit fails before or after the broker has stored the offset. *)
MaybeCommitted(i, p, s) ==
  UNCHANGED committed \/ (Open(i) /\ CommitOffset(p, s))

BulkCommitted(i, p) ==
  LET w == worker[i][p] IN
  /\ w.pc = "bulkCommit" /\ Open(i)
  /\ CommitOffset(p, w.batch)
  /\ Become(i, p, AfterFlush(w))
  /\ UNCHANGED <<db, dlq, group, process, chan, faults>>

(* Mistake: a failed bulk commit falls back to one message at a time. *)
BulkCommitFailedFallsBack(i, p) ==
  LET w == worker[i][p] IN
  /\ w.pc = "bulkCommit"
  /\ MaybeCommitted(i, p, w.batch)
  /\ Become(i, p, IF Cancelled(i) THEN AfterFlush(w) ELSE FallBack(w))
  /\ UNCHANGED <<db, dlq, group, process, chan, faults>>

(* Retried without end, unless the instance is shutting down. *)
BulkCommitFailed(i, p) ==
  LET w == worker[i][p] IN
  /\ w.pc = "bulkCommit"
  /\ MaybeCommitted(i, p, w.batch)
  /\ Become(i, p, IF Cancelled(i) THEN AfterFlush(w) ELSE w)
  /\ UNCHANGED <<db, dlq, group, process, chan, faults>>

----------------------------------------------------------------------------
(* handleMessage, for the message at the head of pending. *)

(* processMessageWithRetries refuses an undecodable message before it looks  *)
(* at its context, so cancelling the instance does not stop this one.        *)
Refused(i, p) ==
  LET w == worker[i][p] IN
  /\ w.pc = "handle" /\ ~Decodable(p, Head(w.pending))
  /\ Become(i, p, [w EXCEPT !.pc = "dlq", !.cause = "Refused"])
  /\ UNCHANGED <<external, group, process, chan, faults>>

(* Aborted by the shutdown: neither routed to the DLQ nor committed. *)
MessageAborted(i, p) ==
  LET w == worker[i][p] IN
  /\ w.pc = "handle" /\ Decodable(p, Head(w.pending)) /\ Cancelled(i)
  /\ Become(i, p, AfterMessage(w))
  /\ UNCHANGED <<external, group, process, chan, faults>>

MessageStored(i, p) ==
  LET w == worker[i][p]
      o == Head(w.pending)
  IN
  /\ w.pc = "handle" /\ Decodable(p, o) /\ ~Cancelled(i)
  /\ Storable(p, o)
  /\ db' = db \cup {Key(p, o)}
  /\ Become(i, p, [w EXCEPT !.pc = "commit"])
  /\ UNCHANGED <<dlq, committed, group, process, chan, faults>>

(* Mistake: nonRetryableError unwraps, and the error of a timed out call is  *)
(* taken for the shutdown's.                                                 *)
MessageFailedUnwraps(i, p) ==
  LET w == worker[i][p]
      o == Head(w.pending)
  IN
  /\ w.pc = "handle" /\ Decodable(p, o) /\ ~Cancelled(i)
  /\ \E e \in Errors(p, <<o>>) :
       /\ MaybeStored(p, <<o>>, e)
       /\ Become(i, p, IF Retryable(e) /\ w.attempt < MaxProcessRetries
                       THEN [w EXCEPT !.attempt = @ + 1]
                       ELSE IF e = "DeadlineExceeded" THEN AfterMessage(w)
                       ELSE [w EXCEPT !.pc = "dlq", !.cause = e])
  /\ UNCHANGED <<dlq, committed, group, process, chan, faults>>

(* A retryable error is retried; any other, and the last retry, is terminal. *)
MessageFailed(i, p) ==
  LET w == worker[i][p]
      o == Head(w.pending)
  IN
  /\ w.pc = "handle" /\ Decodable(p, o) /\ ~Cancelled(i)
  /\ \E e \in Errors(p, <<o>>) :
       /\ MaybeStored(p, <<o>>, e)
       /\ Become(i, p, IF Retryable(e) /\ w.attempt < MaxProcessRetries
                       THEN [w EXCEPT !.attempt = @ + 1]
                       ELSE [w EXCEPT !.pc = "dlq", !.cause = e])
  /\ UNCHANGED <<dlq, committed, group, process, chan, faults>>

(* routeToDLQ succeeds; its context survives the cancellation of appCtx. *)
RoutedToDLQ(i, p) ==
  LET w == worker[i][p] IN
  /\ w.pc = "dlq" /\ DLQWriter /\ Open(i)
  /\ dlq' = dlq \cup {<<p, Head(w.pending)>>}
  /\ Become(i, p, [w EXCEPT !.pc = "commit"])
  /\ UNCHANGED <<db, committed, group, process, chan, faults>>

(* Mistake: a failed DLQ write is not retried. *)
DLQFailedGivesUp(i, p) ==
  LET w == worker[i][p] IN
  /\ w.pc = "dlq" /\ DLQWriter
  /\ dlq' = dlq \/ (Open(i) /\ dlq' = dlq \cup {<<p, Head(w.pending)>>})
  /\ Become(i, p, AfterMessage(w))
  /\ UNCHANGED <<db, committed, group, process, chan, faults>>

(* A failed write, applied or not, is retried until the instance shuts down. *)
DLQFailed(i, p) ==
  LET w == worker[i][p] IN
  /\ w.pc = "dlq" /\ DLQWriter
  /\ dlq' = dlq \/ (Open(i) /\ dlq' = dlq \cup {<<p, Head(w.pending)>>})
  /\ Become(i, p, IF Cancelled(i) THEN AfterMessage(w) ELSE w)
  /\ UNCHANGED <<db, committed, group, process, chan, faults>>

(* Mistake: a fatal DLQ error skips the message and does not stop the process. *)
DLQFatalGoesOn(i, p) ==
  LET w == worker[i][p] IN
  /\ w.pc = "dlq" /\ ~DLQWriter
  /\ Become(i, p, AfterMessage(w))
  /\ UNCHANGED <<external, group, process, chan, faults>>

(* Without a writer the error is not retryable: triggerFatal cancels appCtx  *)
(* and the message stays uncommitted.                                        *)
DLQFatal(i, p) ==
  LET w == worker[i][p] IN
  /\ w.pc = "dlq" /\ ~DLQWriter
  /\ ctx' = [ctx EXCEPT ![i] = IF @ = "live" THEN "fatal" ELSE @]
  /\ Become(i, p, AfterMessage(w))
  /\ UNCHANGED <<external, group, phase, hand, chan, faults>>

MessageCommitted(i, p) ==
  LET w == worker[i][p] IN
  /\ w.pc = "commit" /\ Open(i)
  /\ CommitOffset(p, <<Head(w.pending)>>)
  /\ Become(i, p, AfterMessage(w))
  /\ UNCHANGED <<db, dlq, group, process, chan, faults>>

MessageCommitFailed(i, p) ==
  LET w == worker[i][p] IN
  /\ w.pc = "commit"
  /\ MaybeCommitted(i, p, <<Head(w.pending)>>)
  /\ Become(i, p, IF Cancelled(i) THEN AfterMessage(w) ELSE w)
  /\ UNCHANGED <<db, dlq, group, process, chan, faults>>

----------------------------------------------------------------------------
FlushStep(i, p) ==
  \/ BulkAborted(i, p) \/ BulkStored(i, p) \/ BulkFailed(i, p)
  \/ BulkCommitted(i, p) \/ BulkCommitFailed(i, p)

MessageStep(i, p) ==
  \/ Refused(i, p) \/ MessageAborted(i, p) \/ MessageStored(i, p) \/ MessageFailed(i, p)
  \/ RoutedToDLQ(i, p) \/ DLQFailed(i, p) \/ DLQFatal(i, p)
  \/ MessageCommitted(i, p) \/ MessageCommitFailed(i, p)

WorkerStep(i, p) ==
  \/ Receive(i, p) \/ ReceiveClosed(i, p) \/ Tick(i, p)
  \/ FlushStep(i, p) \/ MessageStep(i, p)

LoopStep(i) ==
  \/ LoopReturns(i) \/ Drained(i) \/ DrainTimeout(i) \/ Exit(i)
  \/ \E p \in Partitions : Fetch(i, p) \/ Dispatch(i, p)

Next ==
  \E i \in Instances :
    \/ Boot(i) \/ Signal(i) \/ Crash(i)
    \/ LoopStep(i)
    \/ \E p \in Partitions : Assign(p, i) \/ WorkerStep(i, p)

Spec == Init /\ [][Next]_vars

----------------------------------------------------------------------------
(***************************************************************************)
(* Fairness.  The goroutines of a running process are scheduled, group     *)
(* coordinator and supervisor do their work, and a call returns in the     *)
(* end.  WorkerFairness adds that a DLQ write and a commit that are        *)
(* retried without end succeed at some point; LoopFairness alone leaves a  *)
(* worker hanging in such a call for ever.                                 *)
(***************************************************************************)
LoopFairness ==
  \A i \in Instances :
    /\ WF_vars(LoopReturns(i)) /\ WF_vars(Drained(i)) /\ WF_vars(DrainTimeout(i))
    /\ WF_vars(Exit(i))

SupplyFairness ==
  /\ \A i \in Instances : WF_vars(Boot(i))
  /\ \A p \in Partitions :
       /\ WF_vars(owner[p] = NoOwner /\ \E i \in Instances : Assign(p, i))
       /\ \A i \in Instances : WF_vars(Fetch(i, p)) /\ WF_vars(Dispatch(i, p))

WorkerFairness ==
  \A i \in Instances, p \in Partitions :
    /\ WF_vars(Receive(i, p)) /\ WF_vars(ReceiveClosed(i, p)) /\ WF_vars(Tick(i, p))
    /\ WF_vars(BulkAborted(i, p)) /\ WF_vars(BulkStored(i, p) \/ BulkFailed(i, p))
    /\ WF_vars(BulkCommitted(i, p))
    /\ WF_vars(Refused(i, p)) /\ WF_vars(MessageAborted(i, p))
    /\ WF_vars(MessageStored(i, p) \/ MessageFailed(i, p))
    /\ WF_vars(RoutedToDLQ(i, p)) /\ WF_vars(DLQFatal(i, p))
    /\ WF_vars(MessageCommitted(i, p))

LoopFairSpec == Spec /\ LoopFairness

FairSpec == Spec /\ LoopFairness /\ SupplyFairness /\ WorkerFairness

----------------------------------------------------------------------------
(* What the consumer keeps true. *)

Causes == ErrorKinds \cup {"none", "Refused"}

WorkerStates(S) ==
  [pc : WorkerSteps, batch : Seq(S), pending : Seq(S),
   attempt : 0..MaxProcessRetries, cause : Causes]

Located == UNION {{p} \X Offsets(p) : p \in Partitions}

(* Every variable of the consumer has its type; a worker and its channel     *)
(* only ever hold offsets of their own partition.                            *)
TypeOK ==
  /\ db \subseteq Keys
  /\ dlq \subseteq Located
  /\ committed \in [Partitions -> Nat \ {0}]
  /\ owner \in [Partitions -> Instances \cup {NoOwner}]
  /\ position \in [Partitions -> Nat \ {0}]
  /\ phase \in [Instances -> Phases]
  /\ ctx \in [Instances -> {"live", "signalled", "fatal"}]
  /\ hand \in [Instances -> SUBSET Located]
  /\ chan \in [Instances -> [Partitions -> Seq(Nat)]]
  /\ worker \in [Instances -> [Partitions -> WorkerStates(Nat)]]
  /\ \A i \in Instances, p \in Partitions :
       chan[i][p] \in Seq(Offsets(p)) /\ worker[i][p] \in WorkerStates(Offsets(p))
  /\ faults \in [FaultKinds -> Nat]

(* A message has reached its end: its row is in the table, or it is in the DLQ. *)
Handled(p, o) == (Storable(p, o) /\ Key(p, o) \in db) \/ <<p, o>> \in dlq

(***************************************************************************)
(* At-least-once delivery as docs/kafka-consumer.md promises it: an offset *)
(* the group has committed past is stored or dead-lettered, so no message  *)
(* is skipped when delivery resumes behind the committed offset.           *)
(***************************************************************************)
NoLoss == \A p \in Partitions : \A o \in Offsets(p) : o < committed[p] => Handled(p, o)

(***************************************************************************)
(* The one way the code gives that up.  The worker reads appCtx.Err() when *)
(* it takes an undecodable message; if the process is told to stop after   *)
(* that, the flush in front of the message drops its batch, and the        *)
(* message is dead-lettered and committed all the same.                    *)
(***************************************************************************)
DroppedBehindFlush(p, o) ==
  /\ faults["signal"] > 0
  /\ \E q \in Offsets(p) : q > o /\ ~Decodable(p, q) /\ <<p, q>> \in dlq

(* Whatever crashes, rebalances, lost answers and shutdowns do: an offset    *)
(* committed past is handled, or a shutdown signal has struck and an         *)
(* undecodable message behind it was dead-lettered.                          *)
LossOnlyBehindFlush ==
  \A p \in Partitions : \A o \in Offsets(p) :
    o < committed[p] => Handled(p, o) \/ DroppedBehindFlush(p, o)

(* The loss is at most the batch in front of one undecodable message: an     *)
(* unhandled offset committed past lies less than BatchSize before it.  For  *)
(* one instance without rebalances, where batches are runs of offsets.       *)
LossWithinOneBatch ==
  \A p \in Partitions : \A o \in Offsets(p) :
    o < committed[p] /\ ~Handled(p, o) =>
      \E q \in Offsets(p) : q > o /\ q - o < BatchSize /\ ~Decodable(p, q) /\ <<p, q>> \in dlq

(* Partition order is kept by persistence itself, not only by commits: when  *)
(* a message is handled every earlier one of its partition is, or was        *)
(* dropped by a shutdown.  For topics whose messages have distinct keys.     *)
HandledInOrder ==
  \A p \in Partitions : \A o \in Offsets(p) :
    Handled(p, o) => \A n \in Offsets(p) : n < o => Handled(p, n) \/ DroppedBehindFlush(p, n)

(* Backpressure bounds what a crash delivers again: while its instance is    *)
(* not stopping, a partition is read at most a full channel, a full batch    *)
(* and the message in the fetch loop's hand ahead of its committed offset.   *)
(* For one instance without rebalances.                                      *)
FetchedBounded ==
  \A p \in Partitions, i \in Instances :
    owner[p] = i /\ ~Cancelled(i) =>
      position[p] <= committed[p] + QueueSize + BatchSize + 1

(* While no instance is replaced by another one a commit never moves the     *)
(* group's offset back.                                                      *)
CommitsNeverRewind == [][\A p \in Partitions : committed'[p] >= committed[p]]_vars

(* One row PostgreSQL refuses does not take its batch to the DLQ: where the  *)
(* service itself does not fail, only bad messages are dead-lettered.        *)
OnlyBadMessagesDeadLettered == \A m \in dlq : ~Storable(m[1], m[2])

(* A message the database timed out on is retried before it is given up, as  *)
(* the comment in processMessageWithRetries says.                            *)
TimeoutsAreRetried ==
  \A i \in Instances, p \in Partitions :
    worker[i][p].pc = "dlq" /\ worker[i][p].cause = "DeadlineExceeded"
      => worker[i][p].attempt = MaxProcessRetries

(* Every message of the topic ends up in the table or the DLQ. *)
EveryMessageHandled == \A p \in Partitions : \A o \in Offsets(p) : <>Handled(p, o)

(* A signalled instance goes down, also when a worker hangs in a call. *)
ShutdownCompletes == \A i \in Instances : ctx[i] = "signalled" ~> phase[i] = "down"

(* The promise as a specification: see Ledger. *)
Promise == INSTANCE Ledger

KeepsPromise == Promise!Spec

(* One instance as its supervisor sees it: see Process. *)
Seen(i) == INSTANCE Process WITH phase <- phase[i], ctx <- ctx[i]

(* Every instance works until it is told to stop, and then goes down through *)
(* its shutdown or is killed: whatever the group does, it never winds down   *)
(* on its own, and never goes back to work from its shutdown.                *)
InstancesAreProcesses ==
  /\ \A i \in Instances : Seen(i)!Init
  /\ [][\A i \in Instances : [Seen(i)!Next]_(Seen(i)!vars)]_vars
=============================================================================
