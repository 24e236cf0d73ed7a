-------------------------- MODULE LifecycleProofs --------------------------
(***************************************************************************)
(* Proofs about Lifecycle: its types, and that the exit code tells why the *)
(* process stopped, for any number of partitions and any queue size.       *)
(***************************************************************************)
EXTENDS Lifecycle, TLAPS

(* Every cancellation has its cause: a context is cancelled by a signal that *)
(* has come or by a fatal error that is assigned, also while the worker that *)
(* assigned it has yet to call cancel().                                     *)
CausesKnown ==
  /\ ctx = "signalled" => signalled
  /\ ctx = "fatal" => fatalErr
  /\ \A p \in Partitions : worker[p] = "cancel" => fatalErr

(* What Start has returned: nothing before it has, and nil only where the    *)
(* signal was what stopped it.                                               *)
ResultKnown ==
  /\ pc \in {"config", "bootstrap"} => result = "none"
  /\ pc \in {"drain", "run", "main"} => result # "none"
  /\ result = "nil" => ctx = "signalled"
  /\ result = "error" => fatalErr
  /\ pc # "exited" => exit = "none"

Inv == TypeOK /\ CausesKnown /\ ResultKnown /\ ExitCodeTellsWhy

(* Every step keeps the types. *)
LEMMA TypeStep ==
  ASSUME TypeOK, [Next]_vars
  PROVE  TypeOK'
<1> USE LifecycleAssumption DEF TypeOK, Steps, WorkerSteps, vars, loop, fatal
<1>1. CASE MainStep
  BY <1>1 DEF MainStep, ConfigFails, ConfigLoaded, BootstrapFails, StartBegins,
     RunReturns, Exit, ExitWith
<1>2. CASE \E p \in Partitions : Fetched(p) \/ Sent(p)
  <2>1. PICK p \in Partitions : Fetched(p) \/ Sent(p)
    BY <1>2
  <2>2. CASE Fetched(p)
    BY <2>2 DEF Fetched
  <2>3. CASE Sent(p)
    BY <2>3 DEF Sent
  <2> QED
    BY <2>1, <2>2, <2>3
<1>3. CASE FetchFails \/ PauseEnds \/ FetchCancelled \/ SendCancelled \/ Drained \/ DrainTimeout
  BY <1>3 DEF FetchFails, PauseEnds, FetchCancelled, SendCancelled, Return, Drained,
     DrainTimeout, StartReturns
<1>4. CASE Killed \/ Signal \/ ReaderChanges
  <2>1. CASE Killed
    BY <2>1 DEF Killed, ExitWith
  <2>2. CASE Signal
    <3>1. ctx' \in {"live", "signalled", "fatal"}
      BY <2>2 DEF Signal
    <3> QED
      BY <2>2, <3>1 DEF Signal
  <2>3. CASE ReaderChanges
    BY <2>3 DEF ReaderChanges
  <2> QED
    BY <1>4, <2>1, <2>2, <2>3
<1>5. CASE \E p \in Partitions : WorkerStep(p)
  <2>1. PICK p \in Partitions : WorkerStep(p)
    BY <1>5
  <2>2. CASE Take(p)
    <3>1. queue[p] \in Nat /\ queue[p] > 0 /\ queue[p] - 1 \in 0..QueueSize
      BY <2>2 DEF Take
    <3>2. queue' \in [Partitions -> 0..QueueSize]
      BY <2>2, <3>1 DEF Take
    <3>3. worker' \in [Partitions -> WorkerSteps]
      BY <2>2 DEF Take
    <3> QED
      BY <2>2, <3>2, <3>3 DEF Take
  <2>3. CASE TakeClosed(p) \/ Handled(p)
    BY <2>3 DEF TakeClosed, Handled
  <2>4. CASE ReportsFatal(p)
    BY <2>4 DEF ReportsFatal
  <2>5. CASE CancelsFatal(p)
    <3>1. ctx' \in {"live", "signalled", "fatal"}
      BY <2>5 DEF CancelsFatal
    <3> QED
      BY <2>5, <3>1 DEF CancelsFatal
  <2> QED
    BY <2>1, <2>2, <2>3, <2>4, <2>5 DEF WorkerStep
<1>6. CASE UNCHANGED vars
  BY <1>6
<1> QED
  BY <1>1, <1>2, <1>3, <1>4, <1>5, <1>6 DEF Next, LoopStep

(* Nothing uncancels a context or unassigns the fatal error, and whatever    *)
(* cancels has its cause.                                                    *)
LEMMA CausesStep ==
  ASSUME TypeOK, CausesKnown, [Next]_vars
  PROVE  CausesKnown'
<1> USE DEF TypeOK, CausesKnown, vars, loop, fatal, Cancelled
<1>1. CASE MainStep
  BY <1>1 DEF MainStep, ConfigFails, ConfigLoaded, BootstrapFails, StartBegins,
     RunReturns, Exit, ExitWith
<1>2. CASE \E p \in Partitions : Fetched(p) \/ Sent(p)
  BY <1>2 DEF Fetched, Sent, WorkerSteps
<1>3. CASE FetchFails \/ PauseEnds \/ FetchCancelled \/ SendCancelled \/ Drained \/ DrainTimeout
  BY <1>3 DEF FetchFails, PauseEnds, FetchCancelled, SendCancelled, Return, Drained,
     DrainTimeout, StartReturns
<1>4. CASE Killed \/ Signal \/ ReaderChanges
  BY <1>4 DEF Killed, ExitWith, Signal, ReaderChanges
<1>5. CASE \E p \in Partitions : WorkerStep(p)
  BY <1>5 DEF WorkerStep, Take, TakeClosed, Handled, ReportsFatal, CancelsFatal, WorkerSteps
<1>6. CASE UNCHANGED vars
  BY <1>6
<1> QED
  BY <1>1, <1>2, <1>3, <1>4, <1>5, <1>6 DEF Next, LoopStep

(* The loop returns nil only on a signal: had the worker's cancel() stopped  *)
(* it, it would see the assignment.                                          *)
LEMMA ReturnTells ==
  ASSUME TypeOK, CausesKnown, Cancelled, Return
  PROVE  /\ result' \in {"nil", "error"}
         /\ result' = "nil" => ctx = "signalled"
         /\ result' = "error" => fatalErr
<1>1. PICK e \in ReadFatalErr : result' = IF e THEN "error" ELSE "nil"
  BY DEF Return
<1>2. CASE ctx = "signalled"
  <2>1. e = FALSE \/ e = fatalErr
    BY <1>1, <1>2 DEF ReadFatalErr
  <2> QED
    BY <1>1, <1>2, <2>1
<1>3. CASE ctx = "fatal"
  BY <1>1, <1>3 DEF ReadFatalErr, CausesKnown
<1> QED
  BY <1>2, <1>3 DEF TypeOK, Cancelled

LEMMA ResultStep ==
  ASSUME TypeOK, CausesKnown, ResultKnown, [Next]_vars
  PROVE  ResultKnown'
<1> USE DEF TypeOK, ResultKnown, vars, loop, fatal, Steps
<1>1. CASE MainStep
  BY <1>1 DEF MainStep, ConfigFails, ConfigLoaded, BootstrapFails, StartBegins,
     RunReturns, Exit, ExitWith
<1>2. CASE \E p \in Partitions : Fetched(p) \/ Sent(p)
  BY <1>2 DEF Fetched, Sent
<1>3. CASE FetchCancelled \/ SendCancelled
  BY <1>3, ReturnTells DEF FetchCancelled, SendCancelled, Return
<1>4. CASE FetchFails \/ PauseEnds \/ Drained \/ DrainTimeout
  BY <1>4 DEF FetchFails, PauseEnds, Drained, DrainTimeout, StartReturns
<1>5. CASE Killed \/ Signal \/ ReaderChanges
  BY <1>5 DEF Killed, ExitWith, Signal, ReaderChanges, Cancelled, InStart
<1>6. CASE \E p \in Partitions : WorkerStep(p)
  BY <1>6 DEF WorkerStep, Take, TakeClosed, Handled, ReportsFatal, CancelsFatal, Cancelled
<1>7. CASE UNCHANGED vars
  BY <1>7
<1> QED
  BY <1>1, <1>2, <1>3, <1>4, <1>5, <1>6, <1>7 DEF Next, LoopStep

(* The exit code is made of the result, and stays what it is: after the end  *)
(* the context and the fatal error do not change.                            *)
LEMMA ExitStep ==
  ASSUME Inv, [Next]_vars
  PROVE  ExitCodeTellsWhy'
<1> USE DEF Inv, TypeOK, CausesKnown, ResultKnown, ExitCodeTellsWhy, vars, loop, fatal
<1>1. CASE MainStep
  BY <1>1 DEF MainStep, ConfigFails, ConfigLoaded, BootstrapFails, StartBegins,
     RunReturns, Exit, ExitWith
<1>2. CASE \E p \in Partitions : Fetched(p) \/ Sent(p)
  BY <1>2 DEF Fetched, Sent
<1>3. CASE FetchFails \/ PauseEnds \/ FetchCancelled \/ SendCancelled \/ Drained \/ DrainTimeout
  BY <1>3 DEF FetchFails, PauseEnds, FetchCancelled, SendCancelled, Return, Drained,
     DrainTimeout, StartReturns
<1>4. CASE Killed \/ Signal \/ ReaderChanges
  BY <1>4 DEF Killed, ExitWith, Signal, ReaderChanges
<1>5. CASE \E p \in Partitions : WorkerStep(p)
  BY <1>5 DEF WorkerStep, Take, TakeClosed, Handled, ReportsFatal, CancelsFatal, Cancelled
<1>6. CASE UNCHANGED vars
  BY <1>6
<1> QED
  BY <1>1, <1>2, <1>3, <1>4, <1>5, <1>6 DEF Next, LoopStep

----------------------------------------------------------------------------
(* Every reachable state has its types, and knows the cause of every         *)
(* cancellation and what Start has returned.                                 *)
THEOREM Invariance == Spec => []Inv
<1>1. Init => Inv
  <2> SUFFICES ASSUME Init PROVE Inv
    OBVIOUS
  <2>1. 0 \in 0..QueueSize
    BY LifecycleAssumption
  <2>2. TypeOK
    BY <2>1 DEF Init, TypeOK, Steps, WorkerSteps
  <2>3. CausesKnown /\ ResultKnown /\ ExitCodeTellsWhy
    BY DEF Init, CausesKnown, ResultKnown, ExitCodeTellsWhy
  <2> QED
    BY <2>2, <2>3 DEF Inv
<1>2. Inv /\ [Next]_vars => Inv'
  BY TypeStep, CausesStep, ResultStep, ExitStep DEF Inv
<1> QED
  BY <1>1, <1>2, PTL DEF Spec

(* Every variable keeps its type, and no channel holds more than its size. *)
THEOREM TypeCorrectness == Spec => []TypeOK
<1>1. Inv => TypeOK
  BY DEF Inv
<1> QED
  BY <1>1, Invariance, PTL

(* Exit code 0 means a signal stopped the processor, exit code 1 after Start *)
(* that a fatal error did, although the fetch loop reads the error without   *)
(* synchronisation.                                                          *)
THEOREM ExitCode == Spec => []ExitCodeTellsWhy
<1>1. Inv => ExitCodeTellsWhy
  BY DEF Inv
<1> QED
  BY <1>1, Invariance, PTL
----------------------------------------------------------------------------
(* What the process does, as its supervisor sees it. *)

(* Before Start nothing is cancelled and no worker runs; past the fetch loop *)
(* the context is cancelled for good.                                        *)
PhaseKnown ==
  /\ pc \in {"config", "bootstrap"} =>
       ctx = "live" /\ \A p \in Partitions : worker[p] = "absent"
  /\ pc \in {"drain", "run", "main"} => Cancelled

LEMMA PhaseStep ==
  ASSUME TypeOK, PhaseKnown, [Next]_vars
  PROVE  PhaseKnown'
<1> USE DEF TypeOK, PhaseKnown, Cancelled, vars, loop, fatal, Steps
<1>1. CASE MainStep
  BY <1>1 DEF MainStep, ConfigFails, ConfigLoaded, BootstrapFails, StartBegins,
     RunReturns, Exit, ExitWith
<1>2. CASE \E p \in Partitions : Fetched(p) \/ Sent(p)
  BY <1>2 DEF Fetched, Sent
<1>3. CASE FetchFails \/ PauseEnds \/ FetchCancelled \/ SendCancelled \/ Drained \/ DrainTimeout
  BY <1>3 DEF FetchFails, PauseEnds, FetchCancelled, SendCancelled, Return, Drained,
     DrainTimeout, StartReturns
<1>4. CASE Killed \/ Signal \/ ReaderChanges
  BY <1>4 DEF Killed, ExitWith, Signal, ReaderChanges, InStart
<1>5. CASE \E p \in Partitions : WorkerStep(p)
  BY <1>5 DEF WorkerStep, Take, TakeClosed, Handled, ReportsFatal, CancelsFatal
<1>6. CASE UNCHANGED vars
  BY <1>6
<1> QED
  BY <1>1, <1>2, <1>3, <1>4, <1>5, <1>6 DEF Next, LoopStep

(* Each step of the process is one of Process, or the supervisor sees nothing. *)
LEMMA StepSeen ==
  ASSUME TypeOK, PhaseKnown, [Next]_vars
  PROVE  [Seen!Next]_(Seen!vars)
<1> USE DEF Seen!vars, Seen!Next, Seen!Stops, loop, fatal
<1>1. CASE MainStep
  <2>1. CASE ConfigFails
    BY <2>1 DEF ConfigFails, ExitWith, PhaseKnown
  <2>2. CASE ConfigLoaded
    BY <2>2 DEF ConfigLoaded
  <2>3. CASE BootstrapFails
    BY <2>3 DEF BootstrapFails, ExitWith, PhaseKnown
  <2>4. CASE StartBegins
    BY <2>4 DEF StartBegins, Seen!Start
  <2>5. CASE RunReturns
    BY <2>5 DEF RunReturns
  <2>6. CASE Exit
    BY <2>6 DEF Exit, ExitWith, Seen!End
  <2> QED
    BY <1>1, <2>1, <2>2, <2>3, <2>4, <2>5, <2>6 DEF MainStep
<1>2. CASE \E p \in Partitions : Fetched(p) \/ Sent(p)
  BY <1>2 DEF Fetched, Sent
<1>3. CASE FetchFails \/ PauseEnds
  BY <1>3 DEF FetchFails, PauseEnds
<1>4. CASE FetchCancelled \/ SendCancelled
  BY <1>4 DEF FetchCancelled, SendCancelled, Return, Cancelled, TypeOK, Seen!StopFetching
<1>5. CASE Drained \/ DrainTimeout
  BY <1>5 DEF Drained, DrainTimeout, StartReturns, Seen!Close
<1>6. CASE Killed
  BY <1>6 DEF Killed, ExitWith, PhaseKnown
<1>7. CASE Signal
  BY <1>7 DEF Signal, InStart, Cancelled, PhaseKnown, TypeOK, Steps, Seen!Cancel
<1>8. CASE ReaderChanges
  BY <1>8 DEF ReaderChanges
<1>9. ASSUME NEW p \in Partitions, WorkerStep(p)
      PROVE  [Seen!Next]_(Seen!vars)
  <2>1. CASE Take(p) \/ TakeClosed(p) \/ Handled(p) \/ ReportsFatal(p)
    BY <2>1 DEF Take, TakeClosed, Handled, ReportsFatal
  <2>2. CASE CancelsFatal(p)
    BY <1>9, <2>2 DEF CancelsFatal, WorkerStep, Cancelled, PhaseKnown, TypeOK, Steps, Seen!Cancel
  <2> QED
    BY <1>9, <2>1, <2>2 DEF WorkerStep
<1>10. CASE UNCHANGED vars
  BY <1>10 DEF vars
<1> QED
  BY <1>1, <1>2, <1>3, <1>4, <1>5, <1>6, <1>7, <1>8, <1>9, <1>10 DEF Next, LoopStep

(* The processor goes through the phases of Process and no others: it winds  *)
(* down only when told to, and never goes back to work from its shutdown.    *)
THEOREM KeepsToProcess == Spec => Seen!Init /\ [][Seen!Next]_(Seen!vars)
<1>1. Init => Seen!Init
  BY DEF Init, Seen!Init
<1>2. Init => PhaseKnown
  BY DEF Init, PhaseKnown
<1>3. Inv /\ PhaseKnown /\ [Next]_vars => PhaseKnown' /\ [Seen!Next]_(Seen!vars)
  BY PhaseStep, StepSeen DEF Inv
<1> QED
  BY <1>1, <1>2, <1>3, Invariance, PTL DEF Spec
=============================================================================
