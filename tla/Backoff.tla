------------------------------ MODULE Backoff ------------------------------
(***************************************************************************)
(* sleepBackoff of the Kafka consumer: how long attempt number `attempt'   *)
(* of a retried call waits, in the integer arithmetic of time.Duration,    *)
(* which is an int64.  Delays are in ticks, Millisecond ticks to a         *)
(* millisecond.                                                            *)
(***************************************************************************)
EXTENDS Int64

CONSTANTS Millisecond,        \* ticks of a millisecond
          MaxRetryDelay,      \* constants.go, in ticks
          RetryBaseDelayMs,   \* cfg, after normalizeKafkaConfig
          JitterSettings,     \* what RetryJitterMs may be after normalizeKafkaConfig
          MaxProcessRetries,  \* cfg: the largest attempt that sleeps
          Sleepers            \* partition workers that fail at the same moment

ASSUME BackoffAssumption ==
  /\ Millisecond \in Nat \ {0}
  /\ RetryBaseDelayMs \in Nat \ {0} /\ JitterSettings \subseteq Nat \ {0}
  /\ MaxProcessRetries \in Nat
  /\ MaxRetryDelay \in 1..MaxInt

VARIABLES RetryJitterMs,  \* cfg
          attempt,        \* attempt[w]: the attempt worker w sleeps before repeating
          delay,          \* delay[w]: how long its last sleep was
          panicked        \* a worker has panicked, which ends the process

backoff == <<RetryJitterMs, attempt, delay, panicked>>

BackoffInit ==
  /\ RetryJitterMs \in JitterSettings
  /\ attempt = [w \in Sleepers |-> 0]
  /\ delay = [w \in Sleepers |-> 0]
  /\ panicked = FALSE

(* A float64 beyond int64: what the conversion yields depends on the machine. *)
ToDuration(x) == IF x <= MaxInt THEN {x} ELSE {MinInt, MaxInt}

(* Int63n draws below its argument, a product that may have wrapped around.  *)
JitterBound == Wrap(RetryJitterMs * Millisecond)

Jitter == 0..(JitterBound - 1)

CapDelay(d) == IF d > MaxRetryDelay THEN MaxRetryDelay ELSE d

(* Mistake: the delay doubles without an upper bound. *)
Uncapped(n) ==
  { Wrap(Wrap(b * Millisecond) + j) : b \in ToDuration(RetryBaseDelayMs * 2^n), j \in Jitter }

(* Every delay sleepBackoff may choose for attempt n; pauseWithJitter is n = 0. *)
Delays(n) ==
  { CapDelay(Wrap(Wrap(b * Millisecond) + j)) : b \in ToDuration(RetryBaseDelayMs * 2^n), j \in Jitter }

(* A failed attempt sleeps and is repeated. *)
Retry(w) ==
  /\ ~panicked /\ attempt[w] <= MaxProcessRetries
  /\ JitterBound > 0
  /\ \E d \in Delays(attempt[w]) : delay' = [delay EXCEPT ![w] = d]
  /\ attempt' = [attempt EXCEPT ![w] = @ + 1]
  /\ UNCHANGED <<RetryJitterMs, panicked>>

(* Int63n panics if its argument is not positive; nobody recovers. *)
Panic(w) ==
  /\ ~panicked /\ attempt[w] <= MaxProcessRetries
  /\ JitterBound <= 0
  /\ panicked' = TRUE
  /\ UNCHANGED <<RetryJitterMs, attempt, delay>>

(* The call succeeds, or its retries are used up: the next one starts anew. *)
Over(w) ==
  /\ ~panicked /\ attempt[w] > 0
  /\ attempt' = [attempt EXCEPT ![w] = 0]
  /\ delay' = [delay EXCEPT ![w] = 0]
  /\ UNCHANGED <<RetryJitterMs, panicked>>

BackoffNext == \E w \in Sleepers : Retry(w) \/ Panic(w) \/ Over(w)

BackoffSpec == BackoffInit /\ [][BackoffNext]_backoff

----------------------------------------------------------------------------
Doubled(n) == RetryBaseDelayMs * 2^n * Millisecond

Fits(n) == Doubled(n) + RetryJitterMs * Millisecond <= MaxInt

(* Workers that fail side by side pause as the comment in sleepBackoff says: *)
(* before attempt n is repeated, as long as doubling the base delay n times  *)
(* makes it, at most one jitter more, and never more than MaxRetryDelay.     *)
(* That holds as long as delay and jitter fit an int64; beyond that only the *)
(* upper limit is left, and a delay may be negative, which is no pause.      *)
(* Drawing the jitter panics only where the setting itself does not fit.     *)
DelaysGrow ==
  /\ panicked => RetryJitterMs * Millisecond > MaxInt
  /\ \A w \in Sleepers : attempt[w] > 0 =>
       LET n == attempt[w] - 1 IN
       /\ delay[w] <= MaxRetryDelay
       /\ Fits(n) =>
            /\ delay[w] >= CapDelay(Doubled(n))
            /\ delay[w] < Doubled(n) + RetryJitterMs * Millisecond
=============================================================================
