# Casino Transaction System: TLA+ models and proofs

The repository is a Go system of two processes around one PostgreSQL table:

- the **processor** (`cmd/processor`) consumes bet/win transactions from a Kafka topic, in any
  number of instances of one consumer group, and stores them; what it cannot store goes to a
  dead letter topic (DLQ);
- the **API** (`cmd/api`) answers `GET /transactions` from the table.

This directory holds TLA+ models of them, TLC configurations that check the models on small
instances, and TLAPS proofs of the most important results for every instance.

## 1. Inventory

### Components

| Component | Code | State it keeps | Operations | What makes it correct | Here |
|---|---|---|---|---|---|
| Kafka consumer | `internal/transport/kafka/consumer.go` | appCtx, the message in the fetch loop's hand, a channel and a goroutine per partition, each with a batch; in Kafka: committed offsets, the DLQ | `Start`, `partitionWorker`, `flushBatch`, `handleMessage`, `processMessageWithRetries`, `routeToDLQ`, `commit`, the deferred shutdown | at-least-once: nothing committed that is not stored or dead-lettered; order per partition; bounded read-ahead; progress; shutdown ends | `Consumer`, `Ledger`, proofs |
| Result of `Start`, exit code | `consumer.go`, `app/processor.go`, `cmd/processor` | `fatalErr`, an unsynchronised variable; the contexts | `triggerFatal`, `Run`, `main` | a fatal error reaches the exit code; the process ends when told to | `Lifecycle`, proofs |
| Backoff | `consumer.go:569-587` | none | `sleepBackoff`, `pauseWithJitter` | grows with the attempt, never above `MaxRetryDelay` | `Backoff` |
| Payload and validation | `kafka/dto.go`, `internal/domain`, `pkg/timeutil` | none | `UnmarshalJSON`, `ToDomain`, `Validate`, `ParseUnix`, `Parse` | accepts what the contract allows; keeps the identity of a transaction as far as its spelling does | `Payload`; abstracted in `Topic` |
| Money parsing | `pkg/money` | none | `ParseToMinorUnits` | the decimal value, without overflow | `MoneyParse` |
| Table | `migrations` | rows, unique key | insert, `ON CONFLICT DO NOTHING` | redelivery stores nothing twice; different transactions are not merged | `Payload` (rows), `Consumer` (keys) |
| Repository | `internal/repository` | connection pool | `Save`, `SaveBulk`, `Get`, `Close` | one statement per batch: all rows or none; `Get` returns what is asked for | `Consumer`, `History`, `ApiServer` |
| Service, error classification | `internal/service`, `internal/boundary` | none | pass-through, `Classify` | transient errors are retried, others not | in the actions that call them |
| API run and shutdown | `app/api.go`, `cmd/api` | listener, `serverErrCh`, signal context, closer | `Run`, `closeResources` | requests in flight are served before the pool is closed; the process stops | `ApiServer`, proofs |
| HTTP handlers | `internal/transport/http` | none | `GetTransactions`, `NewTransactionResponse` | every row asked for, none else, newest first | `History`, life cycle in `ApiServer` (`CreateTransactionRequest`, which no route uses, is left out) |
| Configuration | `internal/config`, `normalizeKafkaConfig`, pool defaults | a singleton under a mutex | `NewConfig`, `loadConfig` | every setting in its range; the environment wins; one configuration for all | `Settings` |
| Metrics sink | `internal/observability/metrics` | counters, gauges, timer windows under a mutex | `IncCounter`, `SetGauge`, `ObserveDuration`, `Flush` | nothing lost or logged twice; sound statistics | `LogSink`, `ApiMetrics` |
| Inflight gauge, metrics flusher | `consumer.go` | an atomic counter | the gauge around `handleMessage` and `flushBatch`, the flusher goroutine | the gauge is what is in flight; nothing is lost in memory | `ConsumerMetrics` (partly) |
| Logger, swagger, test containers | `pkg/logger`, `docs`, `internal/testutil` | – | – | – | not modelled |

### How they interact

`main` builds everything through `bootstrap` and calls `Run`. In the processor `Run` calls `Start`
and closes the pool when it returns. `Start` has one goroutine that fetches; it hands each message
over a buffered channel to the goroutine of its partition. Workers call the service, which calls
the repository, and write to Kafka (DLQ, offsets). All of them share `appCtx`, which a signal or a
fatal error of any worker cancels; DLQ writes and commits use a context that is not cancelled with
it. Instances share nothing but the consumer group, the table and the DLQ. In the API the goroutine
of `ListenAndServe` reports to `Run` over `serverErrCh`, and the handlers share the pool `Run` closes
and a metrics sink each of them flushes. Both processes meet in the table only.

### What is hard about it

`PROJECT.json` lists every hazard at its line. The ones that shape the models:

- *Order of batch and single path.* One worker mixes batches and single messages, and every commit
  moves the offset past everything before it. Whatever is dropped, aborted or skipped on one path
  must not be passed by a commit of the other (`consumer.go:249`, `335`).
- *Cancellation at any point.* `appCtx` is read at some places and passed to some calls; the others
  go on under `commitCtx` (`consumer.go:241`, `297`, `361`, `388`).
- *Crash, rebalance, redelivery.* A message is delivered again after everything that was done with
  it but the commit; an old owner goes on with what it has fetched (`consumer.go:316`, `407`).
- *Ambiguous answers.* A timed out INSERT, a failed commit or DLQ write may have been applied.
- *Waiting for ever.* DLQ writes and commits are retried without end; the fetch loop blocks on a
  full channel; the drain is bounded by a timeout (`consumer.go:164`, `204`, `372`, `406`).
- *An unsynchronised error.* `fatalErr` is written by a worker and read by the fetch loop, which a
  signal may have stopped at the same moment (`consumer.go:115`).
- *Closing what others use.* The API closes the pool after five seconds of Shutdown, or at once
  after a listen error (`api.go:52`, `59-66`).
- *Numbers at their limits.* `time.Duration` overflows in the backoff, int64 in the amounts, and
  seconds and milliseconds are told apart by size (`consumer.go:572`, `amount.go:69`, `parser.go:42`).
- *Times that say less than they look.* A timestamp may be a day, whole seconds or missing, and the
  unique key compares what is left (`parser.go:26`, `000001_init.up.sql:11`).
- *Shared counters.* Adding to the inflight counter and publishing the sum are two steps; flushes of
  one handler take the metrics of all (`consumer.go:252`, `handler.go:52`, `log_sink.go:62`).

## 2. Modules

| Module | Role |
|---|---|
| `Topic` | the topic as the consumer sees it: an immutable log per partition; a message has a kind and a key |
| `Consumer` | the instances of the group, their fetch loops and workers, the table, the DLQ, the group state; the environment's faults; the properties |
| `Ledger` | what the processor promises, without instances, workers or faults; `Consumer` implements it where a shutdown cannot drop a batch |
| `Process` | what a supervisor may rely on about one processor; every instance of `Consumer`, and `Lifecycle`, implement it |
| `ConsumerInvariant` | the inductive invariants `Inv`, of any group, and `OneInstanceInv`, of one instance without rebalances |
| `ConsumerProofs` | TLAPS: `Inv`, types, no loss; persistence in partition order, only bad messages are dead-lettered, `Consumer` implements `Ledger` |
| `OneInstanceProofs` | TLAPS: `OneInstanceInv`, read-ahead, the reach of a loss, commits never rewind; every instance is a `Process` |
| `Lifecycle` | one run of the processor from `main` to its exit code |
| `LifecycleProofs` | TLAPS: types, the exit code tells why, every step is one of `Process` |
| `ApiServer` | the API process: listener, handlers, pool, `Run` |
| `ApiServerProofs` | TLAPS: types and the pool's limit, a graceful stop is harmless |
| `Payload` | from a producer's JSON to a row: DTO, amounts, times and their precision, `Validate`, the unique key |
| `History` | `GET /transactions` over the table `Payload` writes: parameters, SQL, order, response |
| `Int64` | wrapping arithmetic, scaled down |
| `MoneyParse` | `ParseToMinorUnits` over the characters of an amount |
| `Backoff` | the delays of `sleepBackoff` for workers that fail side by side |
| `Settings` | environment, file and the four tables of defaults; the singleton |
| `LogSink` | the metrics sink and its flush |
| `ApiMetrics`, `ConsumerMetrics` | who tells the sink what, and when, in each process |
| `HistoryProofs` | TLAPS: `Payload`, what survives and what merges; `History`, which answers are complete and sorted |
| `FunctionsProofs` | TLAPS: `Settings`, `Backoff` and `MoneyParse` |
| `MetricsProofs` | TLAPS: the sink, its statistics and both of its users |
| `FoldLemmas` | TLAPS: induction over numbers, and that a fold is a function with the recursion one expects |
| `MCConsumer`, `MCLifecycle`, `MCApiServer`, `MCHistory`, `MCFunctions`, `MCMetrics` | instances for TLC |

Definitions whose comment starts with *Mistake* are not part of the specification: each is a
plausible bug, and `PROJECT.json` says in which run TLC finds the property it breaks.

### `Topic`

Producers are outside the repository. A message that has not been produced yet cannot be told from
one that has not been fetched yet, so the log is a constant. All the consumer's control flow depends
on is the **kind**: *undecodable* (`json.Unmarshal`, `ToDomain` or `Validate` refuse it),
*unstorable* (PostgreSQL refuses the row on every attempt) or *storable*; and the **key**, the values
of the table's unique constraint. `Payload` says how a message gets its kind and its key.

### `Consumer`

| Code | Model |
|---|---|
| `main`, `bootstrap`, `Run`, `Start` begin | `Boot` |
| SIGINT/SIGTERM | `Signal`: `ctx[i]` becomes `"signalled"` |
| `FetchMessage` | `Fetch`: from `position[p]` into `hand[i]` |
| `LoadOrStore`, `go partitionWorker`, `ch <- msg` | `Dispatch`, blocked while the channel is full |
| `FetchMessage` or the send sees ctx; deferred `close(ch)` | `LoopReturns` |
| `workersWG.Wait` / `time.After` , `closeWriter`, `reader.Close` | `Drained` / `DrainTimeout` |
| `Start` and `main` return | `Exit` |
| the `select` of `partitionWorker` | `Receive`, `ReceiveClosed`, `Tick` |
| `flushBatch`: its INSERT, retries, fallback, commit | `BulkAborted`, `BulkStored`, `BulkFailed`, `BulkCommitted`, `BulkCommitFailed` |
| `handleMessage`: refuse, store, retry, DLQ, commit | `Refused`, `MessageAborted`, `MessageStored`, `MessageFailed`, `RoutedToDLQ`, `DLQFailed`, `DLQFatal`, `MessageCommitted`, `MessageCommitFailed` |
| local variables of `partitionWorker` and its callees | `worker[i][p]`: program counter, `batch`, `pending` (what is left for `handleMessage`), `attempt`, `cause` |

External, modelled from how the code uses it: `Assign` (the group coordinator gives a partition to a
running instance, whose reader starts at the committed offset; doing so over a live owner is a
rebalance), `CommitOffset` (kafka-go commits the highest offset of a request, whatever it was
before), `Crash`, and the doubt about failed calls (`MaybeStored`, `MaybeCommitted`, the DLQ write).

Abstractions: a database or Kafka call takes effect and returns in one step; the code between two
such calls belongs to the step before it. The read of `appCtx.Err()` after a failed call is part of
that call. A statement that is under way when `appCtx` is cancelled may have been applied; this is
the state of a call that timed out just before, whose worker is then stopped in the fallback or at the
DLQ write, so runs with a signal or without a DLQ writer have `DeadlineExceeded` in `ServiceErrors`.
Pauses and backoff take no time. Fetch errors, which only make the loop try again, are
stutters here and steps of `Lifecycle`. A start that fails leaves the instance down.

### `Lifecycle`

| Code | Model |
|---|---|
| `main`: configuration, `NotifyContext`, bootstrap | `ConfigFails`, `ConfigLoaded`, `BootstrapFails`, `Killed` (a signal before it is caught) |
| `Start`: its context, fetch, pause after an error, send | `StartBegins`, `Fetched`, `FetchFails`, `PauseEnds`, `Sent`, `FetchCancelled`, `SendCancelled` |
| `return fatalErr` | `Return`: what it reads is `ReadFatalErr` |
| `partitionWorker` | `Take`, `TakeClosed`, `Handled` |
| `triggerFatal`: the assignment, then `cancel()` | `ReportsFatal`, `CancelsFatal` |
| the deferred drain, `Run`, the end of `main` | `Drained`, `DrainTimeout`, `RunReturns`, `Exit` |

The read of `fatalErr` is ordered after the assignment only if the worker's own `cancel()` stopped the
loop. If the signal did, the two race, and the model lets the read miss an assignment already made.

### `ApiServer`

| Code | Model |
|---|---|
| the goroutine of `ListenAndServe` | `Listen`, `ListenFails` (the error waits in `serverErr`) |
| a request and its handler | `Accept`, `Reject`, `Query`, `Connect`, `Answer`, `Fail` on `handler[r]` |
| `select` of `Run` | `ServerFailed`, `Shutdown`; both may be enabled, as in the code |
| `server.Shutdown` | `Shutdown`, then `Drained` or `ShutdownTimeout` |
| `closeResources` | `CloseResources`: the pool is closed and those waiting for a connection are turned away |
| `main` returns | `Exit`: handlers still at work are cut off |

### `Payload` and `History`

`Produce` writes an event as JSON in one of the forms its producer may use; `Deliver` is everything the
processor makes of one message, once or again: `ToDomain` (with `Parse` of the timestamp), `Validates`,
and the insert of `Row`, whose missing timestamp is a value like any other (`NULLS NOT DISTINCT`).
Instants count ticks; a tick is Go's nanosecond. A producer's form cuts the instant to its `Unit`:
layouts and numbers in seconds drop what is below a second, the two layouts of a day all but the day.
`Parse` reads back the start of that unit, with the guess of `ParseUnix` about numbers, and the column
rounds to microseconds (`Stored`). A form in which the time package finds nothing, or none at all, is
the zero time. In `History` a request is `Ask`, then `Refuse`, or `Read` (the statement `Get` puts
together, on one snapshot) or `ReadFails`, then `Send`. Inserts go on between these steps. The result
of `Get` is any order of the selected rows that `ORDER BY timestamp DESC NULLS LAST` allows.

### `MoneyParse`, `Backoff`, `Settings`

`MoneyParse` types an amount one character after the other; `ParseToMinorUnits` follows the code step
by step in wrapping arithmetic (`Int64`), and `Meaning` is the reference: what the digits of a decimal
spell with the point left out, times ten for each decimal that is missing.
`Backoff` computes in ticks of `time.Duration`; a delay that does not fit the conversion from float64
is any of the two values machines yield, and a jitter whose product wraps to nothing or less makes `Int63n`
`Panic`, which ends the process. `Settings` keeps the four places where defaults are written
down apart: cleanenv's tags (`TagDefault`), `loadConfig`, `normalizeKafkaConfig` and the pool of the
repository. `NewConfig` is one step, for it holds its mutex.

### `LogSink`, `ApiMetrics`, `ConsumerMetrics`

Every method of the sink holds its mutex and is one step. `ApiMetrics` has one step per call a handler
makes, the deferred ones last in, first out; `ConsumerMetrics` has two for the inflight gauge: the
atomic add and the publication of its result. Its flusher leaves with the cancellation and is in no
WaitGroup: the process may `Exit`, after a drain or its timeout, with the `LastFlush` or without.
`told` and the window in `stats` are history variables for the properties. Key names are constants.
Durations are whole numbers, and a percentile is kept a hundredfold, so that no rounding of float64
comes in. `Sorted` says what `sort.Float64s` yields, by the rank of each value, which the proofs can
use; `MCMetrics` has TLC compare it with the sorting of its standard modules (`SortingAgrees`).

## 3. What is checked

All runs use `CHECK_DEADLOCK FALSE`: budgets, logs and inputs are finite and an idle system that has
done everything may stop; that it does not stop before is what the liveness properties say.

| Run | Instance | Shows |
|---|---|---|
| `single` | 1 instance, 5 messages with undecodable ones, batches of 2, one retry, crash and signal | types and the invariant of one instance; the only loss is the one behind a flush, and less than a batch; persistence in order; at most channel + batch + 1 messages are read ahead of the commit; commits never rewind |
| `group` | 2 instances, decodable messages with a duplicate, every fault | the inductive invariant; `Consumer` implements `Ledger`, so nothing committed past is unsettled (`NoLoss`) |
| `no_dlq_writer` | 1 instance, 2 partitions, no DLQ writer, crash and signal, `LoopFairSpec` | the fatal path commits nothing behind the failed message; every instance is a `Process`; a signalled instance goes down although its workers may hang |
| `progress` | 2 instances, crash and rebalance, `FairSpec` | every message is handled in the end, and only bad ones are dead-lettered |
| `lifecycle` | 2 partitions, `FairSpec` | types; the exit code tells why; a signal or a fatal error ends the process whatever reader and workers do; `Lifecycle` implements `Process`, its fairness included |
| `api_stop` | 3 requests, 2 connections, `FairSpec` | types and the pool's limit; a drained stop harms nobody; the process ends |
| `functions` | amounts of up to 6 characters; 10 retries of 2 workers up to the overflow, a jitter that fits and two that do not; each setting in 6 values in the environment, one edit of the file; 7 wagers that differ from the first in one thing each, the first two in every form | supported amounts are parsed to their value and little else is; delays grow up to their limit; settings in range, the four tables of defaults in step, the environment wins, one configuration for all; an instant survives to the precision it was written in, and only what the texts leave open is merged |
| `history` | 4 events with equal, different and missing times, 1 client | answers are complete and exact, newest first |
| `metrics` | 2 handlers, 3 requests; 2 partitions, 3 messages, one error or tick | nothing is lost or logged twice; statistics describe their window; at most one duration a handler stays unlogged; the inflight counter and its gauge |

**Bounds and why they are enough.** The interesting cases of a worker are an empty, a partial and a
full batch, and a message behind each: `BatchSize = 2` and `QueueSize = 1` have them all, and five
messages fill channel, batch and hand at once. One retry separates retrying from giving up. Two
instances make every race of an old and a new owner; a third would only repeat it. Each fault strikes
at most once per run and may strike at any step. `MaxFaults` is the only bound in the guards of
`Consumer`, and the proofs do without it. `group` checks safety only, so `SYMMETRY` of the instances is
sound there, as is that of handlers and partitions in `metrics`. In `ApiServer` the third request makes
one wait for a connection. In `functions` `MaxInt` is 1012: int64's limits divided by 100 leave a rest,
as 1012 does, and six characters reach both overflow checks, as ten doublings reach that of the delay;
three digits show places and carries. A negative number, zero, unset and malformed are all `loadConfig`
tells apart of a setting, and two positive numbers are needed to see which of two places won; the
jitters are one that fits, one that wraps to a negative number and one that wraps to a positive one.
For `Payload` a microsecond is 2 ticks, a millisecond 4, a second 8 and a day 40, so that every
rounding loses something; the instants stand on both sides of the threshold between seconds and
milliseconds (10 of either), two within one day and one outside, and beside the first stand events that
differ in user, type, amount or sign only. `history` needs fewer forms: times that agree, differ or are
missing. In `metrics` `MaxRequests`, `MaxMessages` and `MaxNoise` bound the length of a behaviour, and
work takes one of two durations; three requests of two handlers overlap in every way, three messages
fill one batch and start another, and one error or tick of the flusher may fall between any two steps.

`MCFunctions` and `MCMetrics` check components that share no state in one run; each runs while the
others stand at their beginning, so nothing is lost by it. `Payload` shares its table with `History`, but
nothing that happens to a request comes back to it.

`LossWithinOneBatch`, `FetchedBounded` and `CommitsNeverRewind` are statements about one instance: a
rebalance rewinds offsets by design, and leaves fetched messages in the memory of the old owner.
`HandledInOrder` needs messages with distinct keys, since a duplicate counts as handled with its twin.
`DelaysGrow` asks for growth only where the doubled delay fits a `time.Duration`.

**Fairness.** `LoopFairSpec` gives weak fairness to the goroutine of `Start`: it is scheduled, and its
timer fires. It says nothing of workers, so any call may hang. `FairSpec` adds that the supervisor
restarts a process (`restart: always` in `docker-compose.prod.yaml`), that the coordinator assigns free
partitions, that goroutines are scheduled and calls return, and that a DLQ write or commit retried
without end succeeds at some point. Failures may still come any number of times before that. Weak
fairness is enough because the retry loops stay at their step while the call fails. In `Lifecycle` one
action has strong fairness, `FetchCancelled`: a loop whose fetches fail goes back and forth between
fetch and pause, and the select inside `FetchMessage` takes the cancelled context or what else is ready
at random. Nothing is assumed of the reader or of a busy worker. `ApiServer!FairSpec` is fair to `Run`
only; handlers may hang.

### Refinements

- `Consumer` implements `Ledger`, by the identity on `db`, `dlq` and `committed`: `KeepsPromise`,
  checked in `group` and proved in `ConsumerProofs`.
- Every instance in `Consumer` implements `Process` (`InstancesAreProcesses`, also proved), and so does
  `Lifecycle`, which maps its program counter to the phases (`ImplementsProcess`). `Process` is
  therefore the interface at which the two models of one processor agree: neither winds down unless
  told to, nor goes back to work from its shutdown.

### Disagreements between code and documentation

Three are runs in which TLC violates what the documentation says.

- `shutdown_drops_batch` (`NoLoss`, code bug). A worker takes an undecodable message while the
  process is running, the signal comes, and the flush in front of the message gives up its batch;
  `handleMessage` refuses the message without looking at the context, dead-letters it and commits its
  offset, and so that of the batch it has dropped. `docs/kafka-consumer.md:44-45` promises that
  uncommitted messages are delivered again. `LossOnlyBehindFlush` shows that this is the only way.
- `timeout_not_retried` (`TimeoutsAreRetried`). The comment at `consumer.go:474` names database
  timeouts as what is retried; `Classify` makes them `internal_error`, which is not.
- `api_listen_error` (`ShutdownBeforeClose`). The comment on `ApiApp.Run` has both ways out perform a
  graceful Shutdown; after a listen error the pool is closed without.

Others are in the model and are what a property has to allow for:

- a reader that fails for good keeps the loop retrying (`consumer.go:180`), although the comment at
  `consumer.go:97` has `Start` return; `Process` has no step that winds down without being told;
- the delay of the backoff overflows for large attempts, the cap swallows the jitter
  (`consumer.go:572-573` against `570`), and a jitter beyond int64, which `normalizeKafkaConfig` lets
  pass, panics; `DelaysGrow` promises growth, and no panic, only below;
- an amount with a stray sign, such as `1.-5`, is accepted (`amount.go:69` against the formats of
  `amount.go:22-25`); `OnlyStraySignsSlipThrough` says that nothing else is;
- transactions without a timestamp share one key and are merged (`000001_init.up.sql:11` against the
  comment at `:6`), and so do those of one day or second if they are written so (`parser.go:22-28`);
  `OnlyRepetitionsMerge` says that nothing else is;
- the duration of the last request is not logged (`handler.go:51-52` against `log_sink.go:15`), nor is
  what a consumer counts after its last flush, which need not come at all (`consumer.go:129`):
  `LittleIsLeftAtRest` bounds the one, the other stays in memory (`NothingLostOrDoubled`) and has no bound.

## 4. What is proved

By TLAPS, for every value of the constants. `LogAssumption` and `ConsumerAssumption` are what the shape
of a topic and `normalizeKafkaConfig` guarantee, `PoolAssumption` and `LifecycleAssumption` that pool
and channel have a size. `ApiMetricsAssumption` and `ConsumerMetricsAssumption` say that the keys used
are keys, that handlers and partitions are finitely many, that work takes a natural number of ticks and
that a missing gauge is no number; `SettingsAssumption` tells values from the marks for "unset" and
"malformed"; `PayloadAssumption` says that units are whole microseconds (a tick aside), wagers placed
after 1970 and the zero time lies before it; `BackoffAssumption` takes any positive delay and jitter;
`MoneyAssumption` says that there is a zero to pad with and that int64's limits divided by 100 round to
one magnitude. TLC evaluates all of them. What a theorem assumes beyond these is part of its statement:
`OneInstance` (one instance, no rebalances), and in `ConsumerProofs` what the table says.

| Module | Theorem | Statement |
|---|---|---|
| `ConsumerProofs` | `Invariance`, `TypeCorrectness` | `Spec => []Inv`, `Spec => []TypeOK` |
| | `LossOnlyBehindFlushHolds` | a committed offset is stored or dead-lettered, or a signal has struck and an undecodable message behind it was dead-lettered |
| | `NoLossWhenDecodable`, `NoLossWithoutShutdown`, `NoLossWithoutWriter` | `Spec => []NoLoss` on topics whose messages all decode, without signals, without a DLQ writer |
| | `ConsumerKeepsPromise` | in each of these three cases `Spec => KeepsPromise`: the group implements `Ledger` |
| | `HandledInOrderHolds` | with distinct keys, `Spec => []HandledInOrder` |
| | `OnlyBadMessagesDeadLetteredHolds` | with `ServiceErrors = {}`, `Spec => []OnlyBadMessagesDeadLettered` |
| `OneInstanceProofs` | `OneInstanceInvariance` | with `OneInstance`, `Spec => []OneInstanceInv` |
| | `FetchedBoundedHolds`, `LossWithinOneBatchHolds`, `CommitsNeverRewindHolds` | with `OneInstance`, `Spec` implies these properties of `single` |
| | `InstancesAreProcessesHolds` | `Spec => InstancesAreProcesses`, for any group and any faults |
| `LifecycleProofs` | `TypeCorrectness`, `ExitCode` | `Spec => []TypeOK`, `Spec => []ExitCodeTellsWhy` |
| `LifecycleProofs` | `KeepsToProcess` | `Spec => Seen!Init /\ [][Seen!Next]_(Seen!vars)`: the steps of the processor are steps of `Process` |
| `ApiServerProofs` | `TypeCorrectness`, `GracefulStop` | `Spec => []TypeOK`, `Spec => []GracefulStopIsHarmless` |
| `HistoryProofs` | `InstantsSurviveHolds`, `OnlyRepetitionsMergeHolds` | `PayloadSpec` implies that these always hold, for any lengths of the units and any threshold |
| | `HistoryKeepsPayload` | `Spec => PayloadSpec`: clients do not disturb what reaches the table |
| | `AnswersAreCompleteHolds`, `NewestFirstHolds` | `Spec` implies that these always hold |
| `FunctionsProofs` | `SettingsInRangeHolds`, `DefaultsAgreeHolds`, `EnvironmentOverridesHolds`, `OneConfigForAllHolds` | `SettingsSpec` implies that these always hold, from any environment and any file |
| | `DelaysGrowHolds` | `BackoffSpec => []DelaysGrow` |
| | `SupportedAmountsParsedHolds`, `OnlyStraySignsSlipThroughHolds` | `MoneySpec` implies that these always hold: for amounts of any length and integers of any width |
| `MetricsProofs` | `ApiLosesNothing`, `ConsumerLosesNothing` | `ApiSpec` and `ConsumerSpec` imply `[]NothingLostOrDoubled` |
| | `ApiStatsDescribe`, `ConsumerStatsDescribe` | `ApiSpec` and `ConsumerSpec` imply `[]StatsDescribeWindow` |
| | `LittleIsLeft` | `ApiSpec => []LittleIsLeftAtRest` |
| | `InflightWithinWorkHolds`, `StaleGaugeBoundedHolds` | `ConsumerSpec` implies that these always hold |

*The argument for the consumer.* `LossOnlyBehindFlush` is not inductive: a commit is safe because of
what the worker has done and holds. Call an offset *covered* when it is handled or excused by the loss
described above. The invariant says that while an instance is not stopping, what it has of a partition
forms a **line** – batch, pending messages, channel, the fetch loop's hand, what its reader delivers
next – in which nothing is missing: every smaller offset is covered or stands further ahead (`InLine`).
Steps only move messages along the line, and a message leaves at its head once it is covered. A stopping
instance may drop messages, so for it the line is given up; but a worker that has reached a commit,
or the DLQ write of a decodable message, already knows that nothing below is missing, and that stays
true since covered offsets stay covered (`Certain`). A commit therefore only passes covered offsets,
with one exception: an undecodable message that reaches the DLQ in a stopping instance, which is the
excuse in the definition of *covered*. Crashes and rebalances forget lines and start new ones at the
committed offset, below which everything is covered. `ConsumerProofs` goes from types, through lemmas on
queues without gaps (`Queued...`) and lines (`Line...`), to one lemma per action or group of actions
(`...KeepsInv`), and to the theorems.

*What follows from it.* The line says more than the commits need. A batch queues up behind covered
offsets, so its INSERT is a `Store` of `Ledger`; the head of pending has nothing missing below it, so a
dead letter is a `PutAside`; `Certain` makes a commit an `Acknowledge` – provided nothing is excused,
which is what the three conditions of `NothingDropped` rule out. Read without them, the
same facts say that what a step handles has nothing missing below it, which is the step of
`HandledInOrder`. That only bad messages are dead-lettered needs one more fact: a message on its way to
the DLQ cannot be stored.

*One instance.* With several instances or rebalances an offset may be fetched again and committed by an
old owner after a new one, so read-ahead and order of commits can only be promised without. Then the line
is a **run**: batch, pending, channel and hand hold consecutive offsets (`Run`), each
beginning where the one before ends, up to the position of the reader (`Unbroken`), and the worker commits
the first or all of what it holds (`Committing`). The length of the run is the read-ahead, bounded by
batch, channel and hand (`FetchedBounded`); a commit is above the last, as it stands in the run
(`CommitsNeverRewind`); and what a stopping worker drops in a flush is a batch that ends right below the
message behind it (`BatchBefore`), so that whatever is lost lies within one batch below a dead-lettered
message (`LossWithinOneBatch`). A crash empties all of it. `InstancesAreProcesses` needs none of this:
only that a process that is down has a fresh context and no workers (`Asleep`).

*The others.* `ExitCodeTellsWhy` is inductive with `CausesKnown` (every cancellation has its cause,
also between the two halves of `triggerFatal`) and `ResultKnown` (`Start` returns nil only if the
signal was what stopped it). `KeepsToProcess` maps each step to one of `Process`; it needs
`PhaseKnown`: before `Start` nothing runs, and past the fetch loop the context is cancelled for good.
`GracefulStopIsHarmless` needs `StopKnown`: from `Shutdown` on there is no listener, so once the
handlers are gone none can start. The limit of the pool needs that the connections in use are a finite
set, for the requests may be infinitely many.

*Rows and answers.* `PayloadInv` says how every payload was written; from it `AcceptedRow` computes the
row of any kept event. `Truncates` bounds what a form drops, `Rounds` what the column changes, and
`WholeUnits` says that rounding leaves whole microseconds alone; `TimesRead` puts them together for the
time that is read, and `NearRow` for the row: it is the start of the unit the instant lies in, or the
instant to within half a microsecond. Two rows that agree then bring their instants together. `Answer`
is what a client's rows are from the moment they are read: between the rows asked for when the request
came in and those there now, once each, in order. Inserts only widen this. The statement with its
numbered arguments selects what is asked for (`SelectsAsked`, one case per choice of filters), and an
enumeration of a finite set has every element once (`Enumerates`, by cardinality). `NewestFirst` adds
that every time in the table is after the zero time that rows without one show.

*Settings and delays.* The model starts from any environment and any file; TLC is given those with one
variable set. `SettingsInv` says that a loaded configuration is `Sound`; `LoadIsSound` follows the
precedence for each setting, the pool size through the legacy one. That the defaults agree is shown
from both ends: what is sound is left alone (`SoundStays`), and what is not is replaced by the same
number everywhere (`ReadAlike`), also where a tag supplies it (`TagsAgree`). `FittingDelay` shows that
nothing wraps as long as the doubled delay and a jitter fit, and `CapsDelay` that the limit holds even
if it does. That `2^n` is positive, which the provers do not know, follows from the subsets it counts
(`PowersPositive`).

*Folds and inductions.* What a sum or a numeral comes to depends on data of any length. The library's
induction theorems are about an operator, which the provers cannot instantiate, but its theorem that a
well-founded relation has minimal elements is about a set; `FoldLemmas` gets from it that a set with zero
and all successors has every number (`Induction`). `MapThenFoldSet` of the community modules is defined by
the CHOICE of a function that satisfies a recursion; `FoldDefined` constructs one, so that the choice is
known to satisfy it, and `SumUnfolds` and `SpelledUnfolds` are its recursions for a sum and for a numeral.

*Statistics.* The largest number of a window exists by induction, and so there is a least number that *k*
values do not exceed; it is one of the values, the one `Sorted` has at place *k* (`SortedRank`). From the
ranks alone follow the order (`SortedMonotonic`), the largest at the end, and how many values lie on
either side of a percentile: between the two places around its rank (`QuantileBetween`), that of 50 at or
below that of 95.

*Amounts.* `DecimalsCount` is place value: whole part and padded decimals add up to what the digits
without the point spell, scaled. `JoinChecks` shows that with a whole part and decimals in range the
comparisons come before anything wraps: the product fits whenever the first does not refuse it, and the
second compares with a difference that does not wrap either. So `ParseDecimal` computes the amount or
refuses it (`DecimalRead`), and what is well-formed reaches it in its two parts (`PointedRead`). The other
way round, `TakenHasShape` finds the places of point and signs in whatever was accepted (`Shape`), and
taking the stray ones away leaves a well-formed amount (`ShapeWellFormed`). The decimals of an accepted
amount may be negative, so that `MaxInt - frac` wraps: the value of such an amount is not promised.

*Metrics.* Every step of a user is one operation of the sink or none (`SinkStep`), and each keeps
`SinkInv`. The inflight counter is a sum over the workers; it is best counted as the number of elements
of a set: `Tokens` has a pair *(p, k)* for every unit *k* of the share of worker *p*, and when one
share changes its column of the grid does, and the number with it (`GridShift`). `Effect` says of each
step of a worker that the counter changes by what its share changes, through the fallback as well. For
the gauge, `GaugeInv` says that a worker about to publish outside its work holds a sum without itself,
and that the gauge shows such a sum unless some worker is still between two publications.

*Only model-checked:* liveness (`EveryMessageHandled`, `ShutdownCompletes`, `EndsWhenTold`,
`StopsInTheEnd`) and the fairness in `ImplementsProcess`, beyond the prover; the rest of
`ImplementsProcess` is `KeepsToProcess`. Every other property of a passing run is a theorem. The runs
that expect a violation are counterexamples and need no proof.

## 5. Plan

Done: the core (`Topic`, `Consumer`, `Ledger`, `ApiServer`), the life cycle of the processor, payload and
table, history, money, backoff, settings, metrics; the proofs above.

Left:

1. The gauges of the consumer that hold a time.
2. `LossWithinOneBatch` for several instances, with the bound in terms of what each has fetched.

## 6. Not modelled

- The logger, the generated swagger documents and the test containers: output, generated data or test
  support, without state the system depends on.
- `ResetConfig`, which only tests call; names, ports, URLs and HTTP timeouts of the configuration, which
  are passed on as they are; the layouts `time.Parse` knows.
- `/health` and `/swagger`, which keep no state; the formatting of JSON and of metric keys.
- The gauges of lag and last success, which hold a time and are read by nobody in the repository.
- `CreateTransactionRequest` (`http/dto.go:12-73`), which no route uses.
- Offsets from UTC in a timestamp: the model writes and reads all texts in UTC. Instants PostgreSQL's
  `timestamptz` cannot hold are messages it refuses, *unstorable* in `Topic`.
- What reaches the log of a process that ends: nothing waits for the flusher, and nothing promises it.
- The indexes of the migration, connection life times, TLS and authentication.
- Head-of-line blocking between partitions (`consumer.go:201-203`) is in the model – `Dispatch` blocks
  the loop – but costs throughput, of which no property speaks; neither does one of the limit on the
  parameters of a statement (`postgresql.go:142`), beyond which every full batch falls back.
