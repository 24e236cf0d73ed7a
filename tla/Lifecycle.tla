----------------------------- MODULE Lifecycle -----------------------------
(***************************************************************************)
(* One run of cmd/processor from main to its exit code: the signal         *)
(* context, Start with its fetch loop and deferred shutdown, the fatal     *)
(* error a partition worker reports, ProcessorApp.Run and what main makes  *)
(* of its result.  Consumer says what happens to the messages meanwhile;   *)
(* here a worker only takes them, and may hang with one for ever.          *)
(*                                                                         *)
(* triggerFatal is two steps, as fatalErr is assigned before cancel() and  *)
(* the fetch loop may run between them.                                    *)
(***************************************************************************)
EXTENDS Naturals

CONSTANTS Partitions,  \* partitions the reader delivers, one worker each
          QueueSize    \* PartitionWorkerQueueSize

ASSUME LifecycleAssumption == QueueSize \in Nat \ {0}

VARIABLES
  pc,         \* the main goroutine, in main, Run or Start
  signalled,  \* the parent context is cancelled
  ctx,        \* the context of Start: "live", or what cancelled it first
  fatalErr,   \* whether fatalErr is assigned
  once,       \* fatalOnce: "free", "running" or "done"
  reader,     \* whether FetchMessage works: "up", "failing" or, for good, "dead"
  hand,       \* the partition of the message between fetch and send, if any
  worker,     \* worker[p]: the goroutine of partition p
  queue,      \* queue[p]: messages in its channel
  result,     \* what Start returned: "none", "nil" or "error"
  exit        \* how the process ended: "none", "0", "1" or "killed"

loop == <<pc, hand, result, exit>>
fatal == <<ctx, fatalErr, once>>
vars == <<pc, signalled, ctx, fatalErr, once, reader, hand, worker, queue, result, exit>>

Steps == {"config", "bootstrap", "fetch", "pause", "send", "drain", "run", "main", "exited"}
InStart == {"fetch", "pause", "send", "drain"}
WorkerSteps == {"absent", "select", "busy", "cancel", "exited"}

Init ==
  /\ pc = "config" /\ hand = {} /\ result = "none" /\ exit = "none"
  /\ signalled = FALSE
  /\ ctx = "live" /\ fatalErr = FALSE /\ once = "free"
  /\ reader = "up"
  /\ worker = [p \in Partitions |-> "absent"]
  /\ queue = [p \in Partitions |-> 0]

Cancelled == ctx # "live"

ExitWith(code) ==
  /\ pc' = "exited" /\ exit' = code
  /\ UNCHANGED <<signalled, fatal, reader, hand, worker, queue, result>>

----------------------------------------------------------------------------
(* main, up to Start. *)

ConfigFails == pc = "config" /\ ExitWith("1")

(* The configuration is read and NotifyContext catches signals from now on. *)
ConfigLoaded ==
  /\ pc = "config"
  /\ pc' = "bootstrap"
  /\ UNCHANGED <<signalled, fatal, reader, hand, worker, queue, result, exit>>

BootstrapFails == pc = "bootstrap" /\ ExitWith("1")

(* Start derives its context, which is born cancelled if the parent is. *)
StartBegins ==
  /\ pc = "bootstrap"
  /\ pc' = "fetch"
  /\ ctx' = IF signalled THEN "signalled" ELSE "live"
  /\ UNCHANGED <<signalled, fatalErr, once, reader, hand, worker, queue, result, exit>>

(* SIGINT or SIGTERM before main catches them. *)
Killed == pc = "config" /\ ExitWith("killed")

(* SIGINT or SIGTERM: the parent context and, with it, the one of Start. *)
Signal ==
  /\ pc \notin {"config", "exited"} /\ ~signalled
  /\ signalled' = TRUE
  /\ ctx' = IF pc \in InStart /\ ~Cancelled THEN "signalled" ELSE ctx
  /\ UNCHANGED <<loop, fatalErr, once, reader, worker, queue>>

----------------------------------------------------------------------------
(* The fetch loop. *)

(* External: the brokers come and go, or the reader fails and stays so. *)
ReaderChanges ==
  /\ reader # "dead"
  /\ \/ reader = "up" /\ reader' \in {"failing", "dead"}
     \/ reader = "failing" /\ reader' \in {"up", "dead"}
  /\ UNCHANGED <<loop, signalled, fatal, worker, queue>>

Fetched(p) ==
  /\ pc = "fetch" /\ reader = "up"
  /\ pc' = "send" /\ hand' = {p}
  /\ worker' = [worker EXCEPT ![p] = IF @ = "absent" THEN "select" ELSE @]
  /\ UNCHANGED <<signalled, fatal, reader, queue, result, exit>>

(* Any error but context.Canceled is logged and retried after a pause. *)
FetchFails ==
  /\ pc = "fetch" /\ reader # "up"
  /\ pc' = "pause"
  /\ UNCHANGED <<signalled, fatal, reader, hand, worker, queue, result, exit>>

PauseEnds ==
  /\ pc = "pause"
  /\ pc' = "fetch"
  /\ UNCHANGED <<signalled, fatal, reader, hand, worker, queue, result, exit>>

(* Mistake: the channel holds one message more than its capacity. *)
SentBeyondCapacity(p) ==
  /\ pc = "send" /\ p \in hand /\ queue[p] <= QueueSize
  /\ pc' = "fetch" /\ hand' = {}
  /\ queue' = [queue EXCEPT ![p] = @ + 1]
  /\ UNCHANGED <<signalled, fatal, reader, worker, result, exit>>

Sent(p) ==
  /\ pc = "send" /\ p \in hand /\ queue[p] < QueueSize
  /\ pc' = "fetch" /\ hand' = {}
  /\ queue' = [queue EXCEPT ![p] = @ + 1]
  /\ UNCHANGED <<signalled, fatal, reader, worker, result, exit>>

(***************************************************************************)
(* What `return fatalErr' reads.  A worker may be assigning it at this     *)
(* moment if the signal came first: then nothing orders the two and the    *)
(* loop may miss an assignment already made.  If the worker's own cancel() *)
(* is what stopped the loop, the assignment happened before.               *)
(***************************************************************************)
ReadFatalErr == IF ctx = "signalled" THEN {FALSE, fatalErr} ELSE {fatalErr}

(* The loop returns; the deferred function closes every channel. *)
Return ==
  /\ \E e \in ReadFatalErr : result' = IF e THEN "error" ELSE "nil"
  /\ pc' = "drain" /\ hand' = {}
  /\ UNCHANGED <<signalled, fatal, reader, worker, queue, exit>>

FetchCancelled == pc = "fetch" /\ Cancelled /\ Return

(* Mistake: the send only watches the channel. *)
SendCancelledNever == FALSE

SendCancelled == pc = "send" /\ Cancelled /\ Return

----------------------------------------------------------------------------
(* The partition workers. *)

(* A message leaves the channel; a worker that sees the shutdown ends here. *)
Take(p) ==
  /\ worker[p] = "select" /\ queue[p] > 0
  /\ queue' = [queue EXCEPT ![p] = @ - 1]
  /\ worker' = [worker EXCEPT ![p] = IF Cancelled THEN "exited" ELSE "busy"]
  /\ UNCHANGED <<loop, signalled, fatal, reader>>

(* The channel is closed and empty. *)
TakeClosed(p) ==
  /\ worker[p] = "select" /\ queue[p] = 0
  /\ pc \in {"drain", "run", "main"}
  /\ worker' = [worker EXCEPT ![p] = "exited"]
  /\ UNCHANGED <<loop, signalled, fatal, reader, queue>>

(* The message is done with, or its fatal error is not the first one.  A     *)
(* second reporter waits in Do until the first is through.                   *)
Handled(p) ==
  /\ worker[p] = "busy"
  /\ worker' = [worker EXCEPT ![p] = "select"]
  /\ UNCHANGED <<loop, signalled, fatal, reader, queue>>

(* Mistake: cancel() runs first, and the assignment comes too late to be seen. *)
ReportsFatalLate(p) ==
  /\ worker[p] = "busy" /\ once = "free"
  /\ once' = "running"
  /\ ctx' = IF Cancelled THEN ctx ELSE "fatal"
  /\ worker' = [worker EXCEPT ![p] = "cancel"]
  /\ UNCHANGED <<loop, signalled, fatalErr, reader, queue>>

(* triggerFatal, first half: fatalOnce is entered and fatalErr assigned. *)
ReportsFatal(p) ==
  /\ worker[p] = "busy" /\ once = "free"
  /\ once' = "running" /\ fatalErr' = TRUE
  /\ worker' = [worker EXCEPT ![p] = "cancel"]
  /\ UNCHANGED <<loop, signalled, ctx, reader, queue>>

(* Second half: cancel(). *)
CancelsFatal(p) ==
  /\ worker[p] = "cancel"
  /\ once' = "done"
  /\ ctx' = IF Cancelled THEN ctx ELSE "fatal"
  /\ worker' = [worker EXCEPT ![p] = "select"]
  /\ UNCHANGED <<loop, signalled, fatalErr, reader, queue>>

----------------------------------------------------------------------------
(* The deferred shutdown, Run and the end of main. *)

AllDone == \A p \in Partitions : worker[p] \in {"absent", "exited"}

StartReturns ==
  /\ pc = "drain"
  /\ pc' = "run"
  /\ UNCHANGED <<signalled, fatal, reader, hand, worker, queue, result, exit>>

Drained == AllDone /\ StartReturns

(* Mistake: the deferred shutdown waits for its workers without a limit. *)
DrainTimeoutNever == FALSE

(* ShutdownDrainTimeoutSec has passed: Start leaves its workers behind. *)
DrainTimeout == ~AllDone /\ StartReturns

(* Run closes the pool and hands the result on. *)
RunReturns ==
  /\ pc = "run"
  /\ pc' = "main"
  /\ UNCHANGED <<signalled, fatal, reader, hand, worker, queue, result, exit>>

Exit == pc = "main" /\ ExitWith(IF result = "error" THEN "1" ELSE "0")

----------------------------------------------------------------------------
MainStep ==
  \/ ConfigFails \/ ConfigLoaded \/ BootstrapFails \/ StartBegins
  \/ RunReturns \/ Exit

LoopStep ==
  \/ FetchFails \/ PauseEnds \/ FetchCancelled \/ SendCancelled
  \/ Drained \/ DrainTimeout
  \/ \E p \in Partitions : Fetched(p) \/ Sent(p)

(* Whatever is left of the workers ends with the process. *)
WorkerStep(p) ==
  /\ pc # "exited"
  /\ \/ Take(p) \/ TakeClosed(p) \/ Handled(p)
     \/ ReportsFatal(p) \/ CancelsFatal(p)

Next ==
  \/ MainStep \/ LoopStep
  \/ Killed \/ Signal \/ ReaderChanges
  \/ \E p \in Partitions : WorkerStep(p)

Spec == Init /\ [][Next]_vars

(***************************************************************************)
(* Goroutines are scheduled and timers fire.  FetchMessage chooses between *)
(* a cancelled context and whatever else is ready at random, so a loop     *)
(* that keeps finding errors sees the cancellation in the end: strong      *)
(* fairness.  Nothing is assumed of the reader, and nothing of a worker    *)
(* that is busy with a message.                                            *)
(***************************************************************************)
Fairness ==
  /\ WF_vars(MainStep)
  /\ WF_vars(PauseEnds) /\ SF_vars(FetchCancelled)
  /\ WF_vars(SendCancelled) /\ \A p \in Partitions : WF_vars(Sent(p))
  /\ WF_vars(Drained) /\ WF_vars(DrainTimeout)
  /\ \A p \in Partitions : WF_vars(CancelsFatal(p) /\ pc # "exited")

FairSpec == Spec /\ Fairness

----------------------------------------------------------------------------
(* What the process keeps true. *)

(* Every variable has its type; the loop holds one message while it sends    *)
(* and none at any other time, also when a shutdown breaks into the send,    *)
(* and a channel never holds more than its capacity.                         *)
TypeOK ==
  /\ pc \in Steps
  /\ signalled \in BOOLEAN
  /\ ctx \in {"live", "signalled", "fatal"}
  /\ fatalErr \in BOOLEAN
  /\ once \in {"free", "running", "done"}
  /\ reader \in {"up", "failing", "dead"}
  /\ IF pc = "send" THEN \E p \in Partitions : hand = {p} ELSE hand = {}
  /\ worker \in [Partitions -> WorkerSteps]
  /\ queue \in [Partitions -> 0..QueueSize]
  /\ result \in {"none", "nil", "error"}
  /\ exit \in {"none", "0", "1", "killed"}

(***************************************************************************)
(* The exit code tells a supervisor why the processor stopped: it is 0     *)
(* only if a signal, and not a fatal error, stopped the fetch loop; and a  *)
(* process that got as far as Start reports 1 only for a fatal error.      *)
(***************************************************************************)
ExitCodeTellsWhy ==
  /\ exit = "0" => signalled /\ ctx = "signalled"
  /\ exit = "1" /\ result # "none" => fatalErr

(* A signal, or a fatal error of any worker, ends the process, whatever the  *)
(* reader, the other workers and their full channels do.                     *)
EndsWhenTold == signalled \/ fatalErr ~> pc = "exited"

(* The process as its supervisor sees it. *)
Seen == INSTANCE Process
  WITH phase <- CASE pc \in {"config", "bootstrap", "exited"} -> "down"
                  [] pc \in {"fetch", "pause", "send"} -> "running"
                  [] pc = "drain" -> "draining"
                  [] pc \in {"run", "main"} -> "closed",
       ctx <- IF pc = "exited" THEN "live" ELSE ctx

ImplementsProcess == Seen!Spec
=============================================================================
