--------------------------- MODULE ConsumerProofs ---------------------------
(***************************************************************************)
(* Proofs about Consumer, for every topic, group, batch size and budget:   *)
(* the invariant of the group, what it says of the commits, and what       *)
(* follows from it about the messages the group delivers: the order in     *)
(* which they are persisted, which of them reach the dead letter queue,    *)
(* and that the group keeps the promise of Ledger.                         *)
(***************************************************************************)
EXTENDS ConsumerInvariant, SequenceTheorems, TLAPS

----------------------------------------------------------------------------
(* Types. *)

(* The offsets of a partition are positive numbers. *)
LEMMA OffsetsAreNumbers ==
  ASSUME NEW p \in Partitions
  PROVE  Offsets(p) \subseteq Nat \ {0}
<1>1. Log[p] \in Seq(Message)
  BY LogAssumption
<1>2. Len(Log[p]) \in Nat
  BY <1>1, LenProperties
<1> QED
  BY <1>2 DEF Offsets

(* A sequence of offsets is a sequence of numbers. *)
LEMMA QueueOfNumbers ==
  ASSUME NEW p \in Partitions, NEW s \in Seq(Offsets(p))
  PROVE  s \in Seq(Nat)
<1>1. Offsets(p) \subseteq Nat
  BY OffsetsAreNumbers
<1> QED
  BY <1>1, SeqMonotonic

(* A worker that holds offsets of its partition holds numbers. *)
LEMMA WorkerOfNumbers ==
  ASSUME NEW p \in Partitions, NEW w \in WorkerStates(Offsets(p))
  PROVE  w \in WorkerStates(Nat)
<1>1. w.batch \in Seq(Nat) /\ w.pending \in Seq(Nat)
  BY QueueOfNumbers DEF WorkerStates
<1> QED
  BY <1>1 DEF WorkerStates

(* What a step of one worker does to the goroutines of all instances. *)
LEMMA OneWorkerChanges ==
  ASSUME TypeOK, NEW i \in Instances, NEW p \in Partitions,
         NEW w \in WorkerStates(Offsets(p)), Become(i, p, w)
  PROVE  /\ worker' \in [Instances -> [Partitions -> WorkerStates(Nat)]]
         /\ \A j \in Instances, q \in Partitions :
              /\ worker'[j][q] = IF j = i /\ q = p THEN w ELSE worker[j][q]
              /\ worker'[j][q] \in WorkerStates(Offsets(q))
<1>1. w \in WorkerStates(Nat)
  BY WorkerOfNumbers
<1>2. worker \in [Instances -> [Partitions -> WorkerStates(Nat)]]
  BY DEF TypeOK
<1>3. worker' = [worker EXCEPT ![i] = [worker[i] EXCEPT ![p] = w]]
  BY <1>2 DEF Become
<1>4. worker' \in [Instances -> [Partitions -> WorkerStates(Nat)]]
  BY <1>1, <1>2, <1>3
<1>5. \A j \in Instances, q \in Partitions :
        worker'[j][q] = IF j = i /\ q = p THEN w ELSE worker[j][q]
  BY <1>2, <1>3
<1>6. \A j \in Instances, q \in Partitions : worker[j][q] \in WorkerStates(Offsets(q))
  BY DEF TypeOK
<1> QED
  BY <1>4, <1>5, <1>6

(* The end of flush() leaves a worker of the right type. *)
LEMMA AfterFlushType ==
  ASSUME NEW p \in Partitions, NEW w \in WorkerStates(Offsets(p))
  PROVE  AfterFlush(w) \in WorkerStates(Offsets(p))
<1>1. w.batch \in Seq(Offsets(p)) /\ w.pending \in Seq(Offsets(p)) /\ w.cause \in Causes
  BY DEF WorkerStates
<1>2. 0 \in 0..MaxProcessRetries
  BY ConsumerAssumption
<1>3. <<>> \in Seq(Offsets(p))
  BY EmptySeq
<1> QED
  BY <1>1, <1>2, <1>3 DEF AfterFlush, WorkerStates, WorkerSteps

(* The end of handleMessage leaves a worker of the right type. *)
LEMMA AfterMessageType ==
  ASSUME NEW p \in Partitions, NEW w \in WorkerStates(Offsets(p)), w.pending # <<>>
  PROVE  AfterMessage(w) \in WorkerStates(Offsets(p))
<1>1. Tail(w.pending) \in Seq(Offsets(p))
  BY HeadTailProperties DEF WorkerStates
<1>2. 0 \in 0..MaxProcessRetries
  BY ConsumerAssumption
<1> QED
  BY <1>1, <1>2 DEF AfterMessage, WorkerStates, WorkerSteps, Causes

(* Falling back to single messages leaves a worker of the right type. *)
LEMMA FallBackType ==
  ASSUME NEW p \in Partitions, NEW w \in WorkerStates(Offsets(p))
  PROVE  FallBack(w) \in WorkerStates(Offsets(p))
<1>1. w.batch \o w.pending \in Seq(Offsets(p))
  BY ConcatProperties DEF WorkerStates
<1>2. 0 \in 0..MaxProcessRetries
  BY ConsumerAssumption
<1>3. <<>> \in Seq(Offsets(p))
  BY EmptySeq
<1> QED
  BY <1>1, <1>2, <1>3 DEF FallBack, WorkerStates, WorkerSteps

(* An absent goroutine has the type of a worker. *)
LEMMA NoWorkerType ==
  ASSUME NEW p \in Partitions
  PROVE  NoWorker \in WorkerStates(Offsets(p))
<1>1. 0 \in 0..MaxProcessRetries
  BY ConsumerAssumption
<1>2. <<>> \in Seq(Offsets(p))
  BY EmptySeq
<1> QED
  BY <1>1, <1>2 DEF NoWorker, WorkerStates, WorkerSteps, Causes

(* A message has one of the keys. *)
LEMMA KeyType ==
  ASSUME NEW p \in Partitions, NEW o \in Offsets(p)
  PROVE  Key(p, o) \in Keys
<1>1. Log[p] \in Seq(Message) /\ o \in 1..Len(Log[p])
  BY LogAssumption DEF Offsets
<1>2. Log[p][o] \in Message
  BY <1>1, ElementOfSeq
<1> QED
  BY <1>2 DEF Key, Message

(* The messages of a batch have keys. *)
LEMMA KeysOfType ==
  ASSUME NEW p \in Partitions, NEW s \in Seq(Offsets(p))
  PROVE  KeysOf(p, s) \subseteq Keys
<1>1. \A k \in DOMAIN s : s[k] \in Offsets(p)
  BY LenProperties, ElementOfSeq
<1> QED
  BY <1>1, KeyType DEF KeysOf

(* A commit keeps the type of the group's offsets. *)
LEMMA CommitType ==
  ASSUME TypeOK, NEW p \in Partitions, NEW s \in Seq(Offsets(p)), CommitOffset(p, s)
  PROVE  committed' \in [Partitions -> Nat \ {0}]
<1>1. PICK last \in DOMAIN s : committed' = [committed EXCEPT ![p] = s[last] + 1]
  BY DEF CommitOffset
<1>2. s[last] \in Offsets(p)
  BY LenProperties, ElementOfSeq
<1>3. s[last] + 1 \in Nat \ {0}
  BY <1>2, OffsetsAreNumbers
<1> QED
  BY <1>1, <1>3 DEF TypeOK

(* A message of the topic may be put into the DLQ. *)
LEMMA DeadLetterType ==
  ASSUME TypeOK, NEW p \in Partitions, NEW o \in Offsets(p)
  PROVE  dlq \cup {<<p, o>>} \subseteq Located
BY DEF TypeOK, Located

----------------------------------------------------------------------------
(* The steps of a partition worker. *)

(* What every step of a worker keeps: types, shape, and what is stored. *)
WorkerEffect(i, p, w) ==
  /\ w \in WorkerStates(Offsets(p)) /\ Shape(w)
  /\ Become(i, p, w)
  /\ db \subseteq db' /\ db' \subseteq Keys
  /\ dlq \subseteq dlq' /\ dlq' \subseteq Located
  /\ committed' \in [Partitions -> Nat \ {0}]
  /\ ctx' \in [Instances -> {"live", "signalled", "fatal"}]
  /\ chan' \in [Instances -> [Partitions -> Seq(Nat)]]
  /\ \A j \in Instances, q \in Partitions : chan'[j][q] \in Seq(Offsets(q))
  /\ UNCHANGED <<group, phase, hand, faults>>

(* The end of flush() leaves a worker with no batch. *)
LEMMA AfterFlushShape ==
  ASSUME NEW p \in Partitions, NEW w \in WorkerStates(Offsets(p))
  PROVE  Shape(AfterFlush(w))
BY DEF AfterFlush, Shape, WorkerStates

(* The end of handleMessage leaves a worker that is idle or has more to handle. *)
LEMMA AfterMessageShape ==
  ASSUME NEW p \in Partitions, NEW w \in WorkerStates(Offsets(p)),
         w.pending # <<>>, w.batch = <<>>
  PROVE  Shape(AfterMessage(w))
BY DEF AfterMessage, Shape, WorkerStates

(* A batch that falls back is not empty, and becomes pending. *)
LEMMA FallBackShape ==
  ASSUME NEW p \in Partitions, NEW w \in WorkerStates(Offsets(p)), w.batch # <<>>
  PROVE  Shape(FallBack(w))
<1>1. w.batch \o w.pending # <<>>
  BY ConcatEqualIffEmpty DEF WorkerStates
<1> QED
  BY <1>1 DEF FallBack, Shape, WorkerStates

(* Every step of a worker keeps types and shape, and loses no row and no dead letter. *)
LEMMA StepsOfAWorker ==
  ASSUME TypeOK, NEW i \in Instances, NEW p \in Partitions,
         Shape(worker[i][p]), WorkerStep(i, p)
  PROVE  \E w \in WorkerStates(Offsets(p)) : WorkerEffect(i, p, w)
<1> DEFINE v == worker[i][p]
<1>1. v \in WorkerStates(Offsets(p)) /\ chan[i][p] \in Seq(Offsets(p))
  BY DEF TypeOK
<1>2. v.batch \in Seq(Offsets(p)) /\ v.pending \in Seq(Offsets(p))
  BY <1>1 DEF WorkerStates
<1>3. ASSUME v.pending # <<>>
      PROVE  Head(v.pending) \in Offsets(p)
  BY <1>2, <1>3, HeadTailProperties
<1>4. UNCHANGED chan =>
        /\ chan' \in [Instances -> [Partitions -> Seq(Nat)]]
        /\ \A j \in Instances, q \in Partitions : chan'[j][q] \in Seq(Offsets(q))
  BY DEF TypeOK
<1>5. UNCHANGED ctx => ctx' \in [Instances -> {"live", "signalled", "fatal"}]
  BY DEF TypeOK
<1>6. UNCHANGED db => db \subseteq db' /\ db' \subseteq Keys
  BY DEF TypeOK
<1>7. UNCHANGED dlq => dlq \subseteq dlq' /\ dlq' \subseteq Located
  BY DEF TypeOK
<1>8. UNCHANGED committed => committed' \in [Partitions -> Nat \ {0}]
  BY DEF TypeOK
<1>11. CASE Receive(i, p)
  <2> DEFINE o == Head(chan[i][p])
  <2>1. o \in Offsets(p) /\ Tail(chan[i][p]) \in Seq(Offsets(p))
    BY <1>1, <1>11, HeadTailProperties DEF Receive
  <2>2. Tail(chan[i][p]) \in Seq(Nat)
    BY <2>1, QueueOfNumbers
  <2>3. /\ chan' \in [Instances -> [Partitions -> Seq(Nat)]]
        /\ \A j \in Instances, q \in Partitions : chan'[j][q] \in Seq(Offsets(q))
    BY <1>11, <2>1, <2>2 DEF Receive, TypeOK
  <2>4. Append(v.batch, o) \in Seq(Offsets(p)) /\ Append(v.batch, o) # <<>>
    <3> HIDE DEF o, v
    <3> QED
      BY <1>2, <2>1, AppendProperties
  <2>5. <<o>> \in Seq(Offsets(p)) /\ <<o>> # <<>>
    BY <2>1
  <2>6. v.pc = "select" /\ v.pending = <<>>
    BY <1>11 DEF Receive, Shape
  <2>7. PICK w : /\ Become(i, p, w)
                 /\ \/ w = [v EXCEPT !.pc = "exited"]
                    \/ w = [v EXCEPT !.pc = IF v.batch = <<>> THEN "handle" ELSE "bulk",
                                     !.pending = <<o>>]
                    \/ w = [v EXCEPT !.pc = IF Len(v.batch) + 1 < BatchSize THEN "select" ELSE "bulk",
                                     !.batch = Append(v.batch, o)]
    BY <1>11 DEF Receive
  <2>8. w \in WorkerStates(Offsets(p)) /\ Shape(w)
    BY <1>1, <2>4, <2>5, <2>6, <2>7 DEF WorkerStates, WorkerSteps, Shape
  <2> QED
    BY <1>5, <1>6, <1>7, <1>8, <1>11, <2>3, <2>7, <2>8
       DEF Receive, WorkerEffect, external, group, process
<1>12. CASE ReceiveClosed(i, p)
  <2> DEFINE w == [v EXCEPT !.pc = "exited"]
  <2>1. w \in WorkerStates(Offsets(p)) /\ Shape(w)
    BY <1>1 DEF WorkerStates, WorkerSteps, Shape
  <2> QED
    BY <1>12, <2>1, <1>4, <1>5, <1>6, <1>7, <1>8
       DEF ReceiveClosed, WorkerEffect, external, group, process
<1>13. CASE Tick(i, p)
  <2> DEFINE w == [v EXCEPT !.pc = "bulk"]
  <2>1. v.batch # <<>> /\ v.pending = <<>>
    BY <1>13 DEF Tick, Shape
  <2>2. w \in WorkerStates(Offsets(p)) /\ Shape(w)
    BY <1>1, <2>1 DEF WorkerStates, WorkerSteps, Shape
  <2> QED
    BY <1>13, <2>2, <1>4, <1>5, <1>6, <1>7, <1>8
       DEF Tick, WorkerEffect, external, group, process
<1>14. CASE BulkAborted(i, p)
  <2> DEFINE w == AfterFlush(v)
  <2>1. w \in WorkerStates(Offsets(p)) /\ Shape(w)
    BY <1>1, AfterFlushType, AfterFlushShape
  <2> QED
    BY <1>14, <2>1, <1>4, <1>5, <1>6, <1>7, <1>8
       DEF BulkAborted, WorkerEffect, external, group, process
<1>15. CASE BulkStored(i, p)
  <2> DEFINE w == [v EXCEPT !.pc = "bulkCommit"]
  <2>1. v.batch # <<>>
    BY <1>15 DEF BulkStored, Shape
  <2>2. KeysOf(p, v.batch) \subseteq Keys
    BY <1>2, KeysOfType
  <2>3. db \subseteq db' /\ db' \subseteq Keys
    BY <1>15, <2>2 DEF BulkStored, TypeOK
  <2>4. w \in WorkerStates(Offsets(p)) /\ Shape(w)
    BY <1>1, <2>1 DEF WorkerStates, WorkerSteps, Shape
  <2> QED
    BY <1>15, <2>4, <1>4, <1>5, <1>7, <1>8, <2>3
       DEF BulkStored, WorkerEffect, external, group, process
<1>16. CASE BulkFailed(i, p)
  <2>1. PICK e \in Errors(p, v.batch) :
          /\ MaybeStored(p, v.batch, e)
          /\ Become(i, p, IF Retryable(e) /\ v.attempt < MaxProcessRetries
                          THEN [v EXCEPT !.attempt = @ + 1]
                          ELSE FallBack(v))
    BY <1>16 DEF BulkFailed
  <2> DEFINE w == IF Retryable(e) /\ v.attempt < MaxProcessRetries
                  THEN [v EXCEPT !.attempt = @ + 1]
                  ELSE FallBack(v)
  <2>2. v.pc = "bulk" /\ v.batch # <<>>
    BY <1>16 DEF BulkFailed, Shape
  <2>3. KeysOf(p, v.batch) \subseteq Keys
    BY <1>2, KeysOfType
  <2>4. db \subseteq db' /\ db' \subseteq Keys
    BY <2>1, <2>3 DEF MaybeStored, TypeOK
  <2>5. FallBack(v) \in WorkerStates(Offsets(p)) /\ Shape(FallBack(v))
    BY <1>1, <2>2, FallBackType, FallBackShape
  <2>6. ASSUME v.attempt < MaxProcessRetries
        PROVE  /\ [v EXCEPT !.attempt = @ + 1] \in WorkerStates(Offsets(p))
               /\ Shape([v EXCEPT !.attempt = @ + 1])
    <3>1. v.attempt \in 0..MaxProcessRetries
      BY <1>1 DEF WorkerStates
    <3>2. v.attempt + 1 \in 0..MaxProcessRetries
      BY <2>6, <3>1, ConsumerAssumption
    <3> QED
      BY <1>1, <2>2, <3>2 DEF WorkerStates, Shape
  <2>7. w \in WorkerStates(Offsets(p)) /\ Shape(w)
    BY <2>5, <2>6
  <2>8. Become(i, p, w)
    BY <2>1
  <2> HIDE DEF w
  <2> QED
    BY <1>16, <2>4, <2>7, <2>8, <1>4, <1>5, <1>7, <1>8
       DEF BulkFailed, WorkerEffect, external, group, process
<1>17. CASE BulkCommitted(i, p)
  <2> DEFINE w == AfterFlush(v)
  <2>1. committed' \in [Partitions -> Nat \ {0}]
    BY <1>2, <1>17, CommitType DEF BulkCommitted
  <2>2. w \in WorkerStates(Offsets(p)) /\ Shape(w)
    BY <1>1, AfterFlushType, AfterFlushShape
  <2> QED
    BY <1>17, <2>2, <1>4, <1>5, <1>6, <1>7, <2>1
       DEF BulkCommitted, WorkerEffect, external, group, process
<1>18. CASE BulkCommitFailed(i, p)
  <2> DEFINE w == IF Cancelled(i) THEN AfterFlush(v) ELSE v
  <2>1. committed' \in [Partitions -> Nat \ {0}]
    BY <1>2, <1>8, <1>18, CommitType DEF BulkCommitFailed, MaybeCommitted
  <2>2. w \in WorkerStates(Offsets(p)) /\ Shape(w)
    BY <1>1, AfterFlushType, AfterFlushShape
  <2> QED
    BY <1>18, <2>2, <1>4, <1>5, <1>6, <1>7, <2>1
       DEF BulkCommitFailed, WorkerEffect, external, group, process
<1>19. CASE Refused(i, p)
  <2> DEFINE w == [v EXCEPT !.pc = "dlq", !.cause = "Refused"]
  <2>1. v.batch = <<>> /\ v.pending # <<>>
    BY <1>19 DEF Refused, Shape
  <2>2. w \in WorkerStates(Offsets(p)) /\ Shape(w)
    BY <1>1, <2>1 DEF WorkerStates, WorkerSteps, Shape, Causes
  <2> QED
    BY <1>19, <2>2, <1>4, <1>5, <1>6, <1>7, <1>8
       DEF Refused, WorkerEffect, external, group, process
<1>20. CASE MessageAborted(i, p)
  <2> DEFINE w == AfterMessage(v)
  <2>1. v.batch = <<>> /\ v.pending # <<>>
    BY <1>20 DEF MessageAborted, Shape
  <2>2. w \in WorkerStates(Offsets(p)) /\ Shape(w)
    BY <1>1, <2>1, AfterMessageType, AfterMessageShape
  <2> QED
    BY <1>20, <2>2, <1>4, <1>5, <1>6, <1>7, <1>8
       DEF MessageAborted, WorkerEffect, external, group, process
<1>21. CASE MessageStored(i, p)
  <2> DEFINE w == [v EXCEPT !.pc = "commit"]
  <2>1. v.batch = <<>> /\ v.pending # <<>>
    BY <1>21 DEF MessageStored, Shape
  <2>2. Key(p, Head(v.pending)) \in Keys
    BY <1>3, <2>1, KeyType
  <2>3. db \subseteq db' /\ db' \subseteq Keys
    BY <1>21, <2>2 DEF MessageStored, TypeOK
  <2>4. w \in WorkerStates(Offsets(p)) /\ Shape(w)
    BY <1>1, <2>1 DEF WorkerStates, WorkerSteps, Shape
  <2> QED
    BY <1>21, <2>4, <1>4, <1>5, <1>7, <1>8, <2>3
       DEF MessageStored, WorkerEffect, external, group, process
<1>22. CASE MessageFailed(i, p)
  <2> DEFINE o == Head(v.pending)
  <2>1. PICK e \in Errors(p, <<o>>) :
          /\ MaybeStored(p, <<o>>, e)
          /\ Become(i, p, IF Retryable(e) /\ v.attempt < MaxProcessRetries
                          THEN [v EXCEPT !.attempt = @ + 1]
                          ELSE [v EXCEPT !.pc = "dlq", !.cause = e])
    BY <1>22 DEF MessageFailed
  <2> DEFINE w == IF Retryable(e) /\ v.attempt < MaxProcessRetries
                  THEN [v EXCEPT !.attempt = @ + 1]
                  ELSE [v EXCEPT !.pc = "dlq", !.cause = e]
  <2>2. v.pc = "handle" /\ v.batch = <<>> /\ v.pending # <<>>
    BY <1>22 DEF MessageFailed, Shape
  <2>3. <<o>> \in Seq(Offsets(p))
    BY <1>3, <2>2
  <2>4. db \subseteq db' /\ db' \subseteq Keys
    BY <2>1, <2>3, KeysOfType DEF MaybeStored, TypeOK
  <2>5. e \in Causes
    BY ConsumerAssumption DEF Errors, Causes, ErrorKinds
  <2>6. ASSUME v.attempt < MaxProcessRetries
        PROVE  /\ [v EXCEPT !.attempt = @ + 1] \in WorkerStates(Offsets(p))
               /\ Shape([v EXCEPT !.attempt = @ + 1])
    <3>1. v.attempt \in 0..MaxProcessRetries
      BY <1>1 DEF WorkerStates
    <3>2. v.attempt + 1 \in 0..MaxProcessRetries
      BY <2>6, <3>1, ConsumerAssumption
    <3> QED
      BY <1>1, <2>2, <3>2 DEF WorkerStates, Shape
  <2>7. w \in WorkerStates(Offsets(p)) /\ Shape(w)
    BY <1>1, <2>2, <2>5, <2>6 DEF WorkerStates, WorkerSteps, Shape
  <2>8. Become(i, p, w)
    BY <2>1
  <2> HIDE DEF w
  <2> QED
    BY <1>22, <2>4, <2>7, <2>8, <1>4, <1>5, <1>7, <1>8
       DEF MessageFailed, WorkerEffect, external, group, process
<1>23. CASE RoutedToDLQ(i, p)
  <2> DEFINE w == [v EXCEPT !.pc = "commit"]
  <2>1. v.batch = <<>> /\ v.pending # <<>>
    BY <1>23 DEF RoutedToDLQ, Shape
  <2>2. dlq \subseteq dlq' /\ dlq' \subseteq Located
    BY <1>3, <1>7, <1>23, <2>1, DeadLetterType DEF RoutedToDLQ
  <2>3. w \in WorkerStates(Offsets(p)) /\ Shape(w)
    BY <1>1, <2>1 DEF WorkerStates, WorkerSteps, Shape
  <2> QED
    BY <1>23, <2>3, <1>4, <1>5, <1>6, <1>8, <2>2
       DEF RoutedToDLQ, WorkerEffect, external, group, process
<1>24. CASE DLQFailed(i, p)
  <2> DEFINE w == IF Cancelled(i) THEN AfterMessage(v) ELSE v
  <2>1. v.batch = <<>> /\ v.pending # <<>>
    BY <1>24 DEF DLQFailed, Shape
  <2>2. dlq \subseteq dlq' /\ dlq' \subseteq Located
    BY <1>3, <1>7, <1>24, <2>1, DeadLetterType DEF DLQFailed
  <2>3. w \in WorkerStates(Offsets(p)) /\ Shape(w)
    BY <1>1, <2>1, AfterMessageType, AfterMessageShape
  <2> QED
    BY <1>24, <2>3, <1>4, <1>5, <1>6, <1>8, <2>2
       DEF DLQFailed, WorkerEffect, external, group, process
<1>25. CASE DLQFatal(i, p)
  <2> DEFINE w == AfterMessage(v)
  <2>1. v.batch = <<>> /\ v.pending # <<>>
    BY <1>25 DEF DLQFatal, Shape
  <2>2. ctx' \in [Instances -> {"live", "signalled", "fatal"}]
    BY <1>25 DEF DLQFatal, TypeOK
  <2>3. w \in WorkerStates(Offsets(p)) /\ Shape(w)
    BY <1>1, <2>1, AfterMessageType, AfterMessageShape
  <2> QED
    BY <1>25, <2>3, <1>4, <1>6, <1>7, <1>8, <2>2
       DEF DLQFatal, WorkerEffect, external, group, process
<1>26. CASE MessageCommitted(i, p)
  <2> DEFINE w == AfterMessage(v)
  <2>1. v.batch = <<>> /\ v.pending # <<>>
    BY <1>26 DEF MessageCommitted, Shape
  <2>2. <<Head(v.pending)>> \in Seq(Offsets(p))
    BY <1>3, <2>1
  <2>3. committed' \in [Partitions -> Nat \ {0}]
    BY <1>26, <2>2, CommitType DEF MessageCommitted
  <2>4. w \in WorkerStates(Offsets(p)) /\ Shape(w)
    BY <1>1, <2>1, AfterMessageType, AfterMessageShape
  <2> QED
    BY <1>26, <2>4, <1>4, <1>5, <1>6, <1>7, <2>3
       DEF MessageCommitted, WorkerEffect, external, group, process
<1>27. CASE MessageCommitFailed(i, p)
  <2> DEFINE w == IF Cancelled(i) THEN AfterMessage(v) ELSE v
  <2>1. v.batch = <<>> /\ v.pending # <<>>
    BY <1>27 DEF MessageCommitFailed, Shape
  <2>2. <<Head(v.pending)>> \in Seq(Offsets(p))
    BY <1>3, <2>1
  <2>3. committed' \in [Partitions -> Nat \ {0}]
    BY <1>8, <1>27, <2>2, CommitType DEF MessageCommitFailed, MaybeCommitted
  <2>4. w \in WorkerStates(Offsets(p)) /\ Shape(w)
    BY <1>1, <2>1, AfterMessageType, AfterMessageShape
  <2> QED
    BY <1>27, <2>4, <1>4, <1>5, <1>6, <1>7, <2>3
       DEF MessageCommitFailed, WorkerEffect, external, group, process
<1> QED
  BY <1>11, <1>12, <1>13, <1>14, <1>15, <1>16, <1>17, <1>18, <1>19, <1>20, <1>21, <1>22, <1>23, <1>24, <1>25, <1>26, <1>27
     DEF WorkerStep, FlushStep, MessageStep

----------------------------------------------------------------------------
(* Queues in which no offset is missing. *)

(* What a queue holds after a send. *)
LEMMA RangeOfAppend ==
  ASSUME NEW S, NEW s \in Seq(S), NEW x \in S
  PROVE  Range(Append(s, x)) = Range(s) \cup {x}
<1>1. DOMAIN s = 1..Len(s) /\ Len(s) \in Nat
  BY LenProperties
<1>2. DOMAIN Append(s, x) = 1..(Len(s) + 1)
  BY AppendProperties, LenProperties
<1> QED
  BY <1>1, <1>2, AppendProperties DEF Range

(* What a queue holds is its head and what is left after it. *)
LEMMA RangeOfTail ==
  ASSUME NEW S, NEW s \in Seq(S), s # <<>>
  PROVE  Range(s) = {Head(s)} \cup Range(Tail(s))
<1>1. DOMAIN s = 1..Len(s) /\ Len(s) \in Nat \ {0}
  BY LenProperties, EmptySeq
<1>2. DOMAIN Tail(s) = 1..(Len(s) - 1) /\ \A k \in 1..(Len(s) - 1) : Tail(s)[k] = s[k + 1]
  BY HeadTailProperties, LenProperties
<1>3. Head(s) = s[1]
  OBVIOUS
<1>4. ASSUME NEW k \in 1..Len(s)
      PROVE  s[k] \in {Head(s)} \cup Range(Tail(s))
  <2>1. CASE k = 1
    BY <1>3, <2>1
  <2>2. CASE k # 1
    <3>1. k - 1 \in 1..(Len(s) - 1) /\ Tail(s)[k - 1] = s[k]
      BY <1>1, <1>2, <2>2
    <3> QED
      BY <1>2, <3>1 DEF Range
  <2> QED
    BY <2>1, <2>2
<1>5. ASSUME NEW k \in 1..(Len(s) - 1)
      PROVE  Tail(s)[k] \in Range(s)
  BY <1>1, <1>2 DEF Range
<1> QED
  BY <1>1, <1>2, <1>3, <1>4, <1>5 DEF Range

(* A queue without gaps has none when more is covered. *)
LEMMA QueuedMonotonic ==
  ASSUME NEW p, NEW s, NEW S, NEW T, S \subseteq T, Queued(p, s, S)
  PROVE  Queued(p, s, T)
BY DEF Queued, Below

(* An empty queue has no gaps. *)
LEMMA QueuedEmpty ==
  ASSUME NEW p, NEW S
  PROVE  Queued(p, <<>>, S) /\ Range(<<>>) = {}
BY DEF Queued, Range

(* A queue without gaps may take a message that nothing is missing below. *)
LEMMA QueuedAppend ==
  ASSUME NEW p \in Partitions, NEW s \in Seq(Offsets(p)), NEW x \in Offsets(p), NEW S,
         Queued(p, s, S), Below(p, x, S \cup Range(s))
  PROVE  Queued(p, Append(s, x), S)
<1> DEFINE t == Append(s, x)
<1>1. DOMAIN s = 1..Len(s) /\ Len(s) \in Nat
  BY LenProperties
<1>2. /\ DOMAIN t = 1..(Len(s) + 1)
      /\ \A k \in 1..Len(s) : t[k] = s[k]
      /\ t[Len(s) + 1] = x
  BY AppendProperties, LenProperties
<1> HIDE DEF t
<1> SUFFICES ASSUME NEW k \in DOMAIN t, NEW n \in Offsets(p), n < t[k]
             PROVE  n \in S \cup {t[j] : j \in 1..(k - 1)}
  BY DEF Queued, Below, t
<1>3. \A j \in 1..(k - 1) : j \in 1..Len(s) /\ t[j] = s[j]
  BY <1>1, <1>2
<1>4. CASE k \in 1..Len(s)
  <2>1. n \in S \cup {s[j] : j \in 1..(k - 1)}
    BY <1>1, <1>2, <1>4 DEF Queued, Below
  <2> QED
    BY <1>3, <2>1
<1>5. CASE k = Len(s) + 1
  <2>1. n \in S \cup Range(s)
    BY <1>2, <1>5 DEF Below
  <2>2. Range(s) = {s[j] : j \in 1..(k - 1)}
    BY <1>1, <1>5 DEF Range
  <2> QED
    BY <1>3, <2>1, <2>2
<1> QED
  BY <1>1, <1>2, <1>4, <1>5

(* Nothing is missing below the head of a queue without gaps. *)
LEMMA QueuedHead ==
  ASSUME NEW p \in Partitions, NEW s \in Seq(Offsets(p)), s # <<>>, NEW S, Queued(p, s, S)
  PROVE  Below(p, Head(s), S)
<1>1. 1 \in DOMAIN s /\ Head(s) = s[1]
  BY LenProperties, EmptySeq
<1> QED
  BY <1>1 DEF Queued, Below

(* The rest of a queue without gaps has none, once its head counts as covered. *)
LEMMA QueuedTail ==
  ASSUME NEW p \in Partitions, NEW s \in Seq(Offsets(p)), s # <<>>, NEW S, Queued(p, s, S)
  PROVE  Queued(p, Tail(s), S \cup {Head(s)})
<1> DEFINE t == Tail(s)
<1>1. DOMAIN s = 1..Len(s) /\ Len(s) \in Nat \ {0}
  BY LenProperties, EmptySeq
<1>2. DOMAIN t = 1..(Len(s) - 1) /\ \A k \in 1..(Len(s) - 1) : t[k] = s[k + 1]
  BY HeadTailProperties, LenProperties
<1>3. Head(s) = s[1]
  OBVIOUS
<1> HIDE DEF t
<1> SUFFICES ASSUME NEW k \in DOMAIN t, NEW n \in Offsets(p), n < t[k]
             PROVE  n \in (S \cup {Head(s)}) \cup {t[j] : j \in 1..(k - 1)}
  BY DEF Queued, Below, t
<1>4. k + 1 \in DOMAIN s /\ t[k] = s[k + 1]
  BY <1>1, <1>2
<1>5. n \in S \cup {s[j] : j \in 1..k}
  <2>1. n \in S \cup {s[j] : j \in 1..((k + 1) - 1)}
    BY <1>4 DEF Queued, Below
  <2>2. (k + 1) - 1 = k
    BY <1>1, <1>2
  <2> QED
    BY <2>1, <2>2
<1>6. \A j \in 1..k : j = 1 \/ (j - 1 \in 1..(k - 1) /\ t[j - 1] = s[j])
  BY <1>1, <1>2
<1> QED
  BY <1>3, <1>5, <1>6

(* Two queues without gaps, one behind the other, are one. *)
LEMMA QueuedConcat ==
  ASSUME NEW p \in Partitions, NEW s \in Seq(Offsets(p)), NEW r \in Seq(Offsets(p)), NEW S,
         Queued(p, s, S), Queued(p, r, S \cup Range(s))
  PROVE  Queued(p, s \o r, S)
<1> DEFINE t == s \o r
<1>1. /\ DOMAIN s = 1..Len(s) /\ Len(s) \in Nat
      /\ DOMAIN r = 1..Len(r) /\ Len(r) \in Nat
  BY LenProperties
<1>2. /\ DOMAIN t = 1..(Len(s) + Len(r))
      /\ \A k \in 1..(Len(s) + Len(r)) : t[k] = IF k <= Len(s) THEN s[k] ELSE r[k - Len(s)]
  BY ConcatProperties, LenProperties
<1> HIDE DEF t
<1> SUFFICES ASSUME NEW k \in DOMAIN t, NEW n \in Offsets(p), n < t[k]
             PROVE  n \in S \cup {t[j] : j \in 1..(k - 1)}
  BY DEF Queued, Below, t
<1>3. CASE k <= Len(s)
  <2>1. n \in S \cup {s[j] : j \in 1..(k - 1)}
    BY <1>1, <1>2, <1>3 DEF Queued, Below
  <2>2. \A j \in 1..(k - 1) : t[j] = s[j]
    BY <1>1, <1>2, <1>3
  <2> QED
    BY <2>1, <2>2
<1>4. CASE k > Len(s)
  <2> DEFINE l == k - Len(s)
  <2>1. l \in DOMAIN r /\ t[k] = r[l]
    BY <1>1, <1>2, <1>4
  <2>2. n \in (S \cup Range(s)) \cup {r[j] : j \in 1..(l - 1)}
    BY <2>1 DEF Queued, Below
  <2>3. \A j \in 1..Len(s) : j \in 1..(k - 1) /\ t[j] = s[j]
    BY <1>1, <1>2, <1>4
  <2>4. \A j \in 1..(l - 1) : Len(s) + j \in 1..(k - 1) /\ t[Len(s) + j] = r[j]
    <3> SUFFICES ASSUME NEW j \in 1..(l - 1)
                 PROVE  Len(s) + j \in 1..(k - 1) /\ t[Len(s) + j] = r[j]
      OBVIOUS
    <3>1. /\ Len(s) + j \in 1..(k - 1) /\ Len(s) + j \in 1..(Len(s) + Len(r))
          /\ ~(Len(s) + j <= Len(s)) /\ (Len(s) + j) - Len(s) = j
      BY <1>1, <1>2, <1>4
    <3> QED
      BY <1>2, <3>1
  <2> QED
    BY <1>1, <2>2, <2>3, <2>4 DEF Range
<1> QED
  BY <1>1, <1>2, <1>3, <1>4

(* What the moves of the consumer do to a line. *)

(* A line without gaps has none when more is covered. *)
LEMMA LineMonotonic ==
  ASSUME NEW p, NEW batch, NEW pending, NEW queue, NEW held, NEW next, NEW C, NEW D,
         C \subseteq D, Line(p, C, batch, pending, queue, held, next)
  PROVE  Line(p, D, batch, pending, queue, held, next)
BY QueuedMonotonic DEF Line, Queued, Below

(* An instance that holds nothing of a partition has no gaps in it. *)
LEMMA LineOfNothing ==
  ASSUME NEW p, NEW C
  PROVE  Line(p, C, <<>>, <<>>, <<>>, {}, {})
BY QueuedEmpty DEF Line

(* The reader starts again at an offset below which everything is covered. *)
LEMMA LineRestarts ==
  ASSUME NEW p, NEW batch, NEW pending, NEW queue, NEW held, NEW next, NEW C, NEW n,
         Line(p, C, batch, pending, queue, held, next), Below(p, n, C)
  PROVE  Line(p, C, batch, pending, queue, held, {n})
BY DEF Line, Below

(* The line of an instance the partition is taken from just ends. *)
LEMMA LineStops ==
  ASSUME NEW p, NEW batch, NEW pending, NEW queue, NEW held, NEW next, NEW C,
         Line(p, C, batch, pending, queue, held, next)
  PROVE  Line(p, C, batch, pending, queue, held, {})
BY DEF Line

(* FetchMessage moves the next message into the hand. *)
LEMMA LineFetches ==
  ASSUME NEW p \in Partitions, NEW batch, NEW pending, NEW queue, NEW C,
         NEW n \in Offsets(p), Line(p, C, batch, pending, queue, {}, {n})
  PROVE  Line(p, C, batch, pending, queue, {n}, {n + 1})
<1>1. \A m \in Offsets(p) : m < n + 1 => m < n \/ m = n
  BY OffsetsAreNumbers
<1> QED
  BY <1>1 DEF Line, Below

(* The send moves the message from the hand to the end of the channel. *)
LEMMA LineDispatches ==
  ASSUME NEW p \in Partitions, NEW batch, NEW pending, NEW queue \in Seq(Offsets(p)),
         NEW C, NEW next, NEW o \in Offsets(p),
         Line(p, C, batch, pending, queue, {o}, next)
  PROVE  Line(p, C, batch, pending, Append(queue, o), {}, next)
<1> DEFINE W == (C \cup Range(batch)) \cup Range(pending)
<1>1. Queued(p, queue, W) /\ Below(p, o, W \cup Range(queue))
  BY DEF Line
<1>2. Queued(p, Append(queue, o), W)
  BY <1>1, QueuedAppend
<1>3. Range(Append(queue, o)) = Range(queue) \cup {o}
  BY RangeOfAppend
<1> QED
  BY <1>2, <1>3 DEF Line, Below

(* A decodable message moves from the channel to the end of the batch. *)
LEMMA LineFillsBatch ==
  ASSUME NEW p \in Partitions, NEW batch \in Seq(Offsets(p)), NEW queue \in Seq(Offsets(p)),
         NEW held, NEW next, NEW C, queue # <<>>,
         Line(p, C, batch, <<>>, queue, held, next)
  PROVE  Line(p, C, Append(batch, Head(queue)), <<>>, Tail(queue), held, next)
<1> DEFINE o == Head(queue)
<1>1. o \in Offsets(p) /\ Tail(queue) \in Seq(Offsets(p))
  BY HeadTailProperties
<1>2. Range(<<>>) = {}
  BY QueuedEmpty
<1>3. Queued(p, batch, C) /\ Queued(p, queue, C \cup Range(batch))
  BY <1>2 DEF Line
<1>4. Queued(p, Append(batch, o), C)
  BY <1>1, <1>3, QueuedHead, QueuedAppend
<1>5. Range(Append(batch, o)) = Range(batch) \cup {o}
  BY <1>1, RangeOfAppend
<1>6. Range(queue) = {o} \cup Range(Tail(queue))
  BY RangeOfTail
<1>7. Queued(p, Tail(queue), (C \cup Range(batch)) \cup {o})
  BY <1>3, QueuedTail
<1> DEFINE b == Append(batch, o)
           t == Tail(queue)
<1>8. /\ (C \cup Range(b)) \cup Range(<<>>) = (C \cup Range(batch)) \cup {o}
      /\ ((C \cup Range(b)) \cup Range(<<>>)) \cup Range(t)
           = ((C \cup Range(batch)) \cup Range(<<>>)) \cup Range(queue)
  BY <1>2, <1>5, <1>6
<1> HIDE DEF b, t, o
<1> QED
  BY <1>4, <1>7, <1>8, QueuedEmpty DEF Line, b, t, o

(* An undecodable message moves from the channel behind the batch. *)
LEMMA LineMeetsUndecodable ==
  ASSUME NEW p \in Partitions, NEW batch \in Seq(Offsets(p)), NEW queue \in Seq(Offsets(p)),
         NEW held, NEW next, NEW C, queue # <<>>,
         Line(p, C, batch, <<>>, queue, held, next)
  PROVE  Line(p, C, batch, <<Head(queue)>>, Tail(queue), held, next)
<1> DEFINE o == Head(queue)
           B == C \cup Range(batch)
           t == Tail(queue)
<1>1. o \in Offsets(p)
  BY HeadTailProperties
<1>2. Range(<<>>) = {} /\ Range(<<o>>) = {o}
  BY QueuedEmpty DEF Range
<1>3. Queued(p, batch, C) /\ Queued(p, queue, B)
  BY <1>2 DEF Line
<1>4. Queued(p, <<o>>, B)
  BY <1>3, QueuedHead DEF Queued, Below
<1>5. Queued(p, t, B \cup {o})
  BY <1>3, QueuedTail
<1>6. (B \cup {o}) \cup Range(t) = (B \cup Range(<<>>)) \cup Range(queue)
  BY <1>2, RangeOfTail
<1> HIDE DEF t, o
<1> QED
  BY <1>2, <1>3, <1>4, <1>5, <1>6 DEF Line, t, o

(* The whole batch is covered: it may leave. *)
LEMMA LineFlushes ==
  ASSUME NEW p \in Partitions, NEW batch, NEW pending, NEW queue, NEW held, NEW next, NEW C,
         Range(batch) \subseteq C, Line(p, C, batch, pending, queue, held, next)
  PROVE  Line(p, C, <<>>, pending, queue, held, next)
<1>1. C \cup Range(batch) = C \cup Range(<<>>)
  BY QueuedEmpty
<1> QED
  BY <1>1, QueuedEmpty DEF Line

(* A batch that falls back moves in front of what is pending. *)
LEMMA LineFallsBack ==
  ASSUME NEW p \in Partitions, NEW batch \in Seq(Offsets(p)), NEW pending \in Seq(Offsets(p)),
         NEW queue, NEW held, NEW next, NEW C,
         Line(p, C, batch, pending, queue, held, next)
  PROVE  Line(p, C, <<>>, batch \o pending, queue, held, next)
<1>1. Queued(p, batch \o pending, C)
  BY QueuedConcat DEF Line
<1>2. Range(batch \o pending) = Range(batch) \cup Range(pending)
  BY RangeConcatenation
<1>3. /\ C \cup Range(<<>>) = C
      /\ C \cup Range(batch \o pending) = (C \cup Range(batch)) \cup Range(pending)
  BY <1>2, QueuedEmpty
<1> QED
  BY <1>1, <1>3, QueuedEmpty DEF Line

(* The head of pending is covered: it may leave. *)
LEMMA LineAdvances ==
  ASSUME NEW p \in Partitions, NEW pending \in Seq(Offsets(p)), NEW queue, NEW held, NEW next,
         NEW C, pending # <<>>, Head(pending) \in C,
         Line(p, C, <<>>, pending, queue, held, next)
  PROVE  Line(p, C, <<>>, Tail(pending), queue, held, next)
<1> DEFINE B == C \cup Range(<<>>)
<1>1. B = C /\ B \cup {Head(pending)} = B
  BY QueuedEmpty
<1>2. Queued(p, Tail(pending), B)
  BY <1>1, QueuedTail DEF Line
<1>3. B \cup Range(Tail(pending)) = B \cup Range(pending)
  BY <1>1, RangeOfTail
<1> QED
  BY <1>2, <1>3, QueuedEmpty DEF Line

----------------------------------------------------------------------------
(* What has happened stays so. *)

Grows == db \subseteq db' /\ dlq \subseteq dlq' /\ faults["signal"] <= faults'["signal"]

(* Rows, dead letters and signals do not go away, so what is covered stays covered. *)
LEMMA CoveredGrows ==
  ASSUME NEW p \in Partitions, Grows,
         faults["signal"] \in Nat, faults'["signal"] \in Nat
  PROVE  /\ \A o : Handled(p, o) => Handled(p, o)'
         /\ Covered(p) \subseteq Covered(p)'
<1>1. \A o : Handled(p, o) => Handled(p, o)'
  BY DEF Grows, Handled
<1>2. \A o : DroppedBehindFlush(p, o) => DroppedBehindFlush(p, o)'
  BY DEF Grows, DroppedBehindFlush
<1> QED
  BY <1>1, <1>2 DEF Covered

(* What a worker is certain of stays true while others work. *)
LEMMA CertainKept ==
  ASSUME NEW i \in Instances, NEW p \in Partitions, Grows,
         faults["signal"] \in Nat, faults'["signal"] \in Nat,
         worker'[i][p] = worker[i][p], Certain(i, p)
  PROVE  Certain(i, p)'
BY CoveredGrows DEF Certain, Below

(* What holds of a worker and its line stays true while others work. *)
LEMMA LocalKept ==
  ASSUME NEW i \in Instances, NEW p \in Partitions, Grows,
         faults["signal"] \in Nat, faults'["signal"] \in Nat,
         worker'[i][p] = worker[i][p], chan'[i][p] = chan[i][p], hand'[i] = hand[i],
         owner'[p] = owner[p], position'[p] = position[p],
         Cancelled(i) => Cancelled(i)',
         Local(i, p)
  PROVE  Local(i, p)'
<1>1. Certain(i, p)'
  BY CertainKept DEF Local
<1>2. ASSUME ~Cancelled(i)'
      PROVE  InLine(i, p)'
  <2>1. Line(p, Covered(p), worker[i][p].batch, worker[i][p].pending, chan[i][p],
             Held(i, p), Upcoming(i, p))
    BY <1>2 DEF Local, InLine
  <2>2. Covered(p) \subseteq Covered(p)'
    BY CoveredGrows
  <2>3. Line(p, Covered(p)', worker[i][p].batch, worker[i][p].pending, chan[i][p],
             Held(i, p), Upcoming(i, p))
    BY <2>1, <2>2, LineMonotonic
  <2>4. Held(i, p)' = Held(i, p) /\ Upcoming(i, p)' = Upcoming(i, p)
    BY DEF Held, Upcoming
  <2> QED
    BY <2>3, <2>4 DEF InLine
<1> QED
  BY <1>1, <1>2 DEF Local

(* What is committed stays covered while others work. *)
LEMMA BelowKept ==
  ASSUME NEW p \in Partitions, Grows,
         faults["signal"] \in Nat, faults'["signal"] \in Nat,
         committed'[p] = committed[p], Below(p, committed[p], Covered(p))
  PROVE  Below(p, committed'[p], Covered(p)')
BY CoveredGrows DEF Below

(* A commit of offsets that are covered, with nothing missing below them. *)
LEMMA BelowAfterCommit ==
  ASSUME TypeOK, NEW p \in Partitions, NEW s \in Seq(Offsets(p)), CommitOffset(p, s),
         \A o \in Range(s) : o \in Covered(p) /\ Below(p, o, Covered(p)),
         \A q \in Partitions : Below(q, committed[q], Covered(q))
  PROVE  \A q \in Partitions : Below(q, committed'[q], Covered(q))
<1>1. PICK last \in DOMAIN s : committed' = [committed EXCEPT ![p] = s[last] + 1]
  BY DEF CommitOffset
<1>2. s[last] \in Range(s) /\ s[last] \in Offsets(p)
  BY LenProperties, ElementOfSeq DEF Range
<1>3. \A n \in Offsets(p) : n < s[last] + 1 => n < s[last] \/ n = s[last]
  BY <1>2, OffsetsAreNumbers
<1>4. Below(p, s[last] + 1, Covered(p))
  BY <1>2, <1>3 DEF Below
<1>5. \A q \in Partitions : committed'[q] = IF q = p THEN s[last] + 1 ELSE committed[q]
  BY <1>1 DEF TypeOK
<1> QED
  BY <1>4, <1>5

----------------------------------------------------------------------------
(* The invariant, step by step: the lifecycle of an instance. *)

(* The invariant holds before any instance has started. *)
LEMMA InitInv == Init => Inv
<1> SUFFICES ASSUME Init PROVE Inv
  OBVIOUS
<1>1. TypeOK
  <2>1. <<>> \in Seq(Nat)
    BY EmptySeq
  <2>2. \A p \in Partitions : <<>> \in Seq(Offsets(p))
    BY EmptySeq
  <2>3. \A p \in Partitions :
          NoWorker \in WorkerStates(Offsets(p)) /\ NoWorker \in WorkerStates(Nat)
    BY NoWorkerType, WorkerOfNumbers
  <2> QED
    BY <2>1, <2>2, <2>3 DEF Init, TypeOK, Phases
<1>2. faults["signal"] = 0 /\ MaxFaults["signal"] \in Nat
  BY ConsumerAssumption DEF Init, FaultKinds
<1>3. \A p \in Partitions : Below(p, committed[p], Covered(p))
  BY OffsetsAreNumbers DEF Init, Below
<1>4. \A i \in Instances : Stopping(i)
  BY ConsumerAssumption DEF Init, Stopping, Cancelled
<1>5. ASSUME NEW i \in Instances, NEW p \in Partitions
      PROVE  Local(i, p)
  <2>1. /\ worker[i][p] = NoWorker /\ chan[i][p] = <<>>
        /\ Held(i, p) = {} /\ Upcoming(i, p) = {}
    BY ConsumerAssumption DEF Init, Held, Upcoming
  <2> QED
    BY <2>1, LineOfNothing DEF Local, Shape, Certain, InLine, NoWorker
<1> QED
  BY <1>1, <1>2, <1>3, <1>4, <1>5 DEF Inv, Init

(* A new instance holds nothing. *)
LEMMA BootKeepsInv ==
  ASSUME Inv, NEW i \in Instances, Boot(i)
  PROVE  Inv'
<1> USE DEF Boot, external, group
<1>1. TypeOK'
  BY DEF Inv, TypeOK, Phases
<1>2. faults["signal"] \in Nat /\ faults'["signal"] \in Nat /\ Grows
  BY DEF Inv, TypeOK, FaultKinds, Grows
<1>3. \A p \in Partitions : Below(p, committed'[p], Covered(p)')
  BY <1>2, BelowKept DEF Inv
<1>4. \A j \in Instances : Stopping(j)'
  BY DEF Inv, TypeOK, Stopping, Cancelled
<1>5. \A j \in Instances, p \in Partitions : Local(j, p)'
  BY <1>2, LocalKept DEF Inv, Cancelled
<1> QED
  BY <1>1, <1>3, <1>4, <1>5 DEF Inv

(* A signal opens the line of its instance to gaps, and is remembered. *)
LEMMA SignalKeepsInv ==
  ASSUME Inv, NEW i \in Instances, Signal(i)
  PROVE  Inv'
<1> USE DEF Signal, external, group
<1>1. faults' = [faults EXCEPT !["signal"] = @ + 1] /\ faults["signal"] < MaxFaults["signal"]
  BY DEF Spend
<1>2. faults \in [FaultKinds -> Nat] /\ MaxFaults["signal"] \in Nat
  BY ConsumerAssumption DEF Inv, TypeOK, FaultKinds
<1>3. /\ faults' \in [FaultKinds -> Nat]
      /\ faults["signal"] \in Nat /\ faults'["signal"] \in Nat
      /\ faults'["signal"] > 0 /\ faults'["signal"] <= MaxFaults["signal"]
  BY <1>1, <1>2 DEF FaultKinds
<1>4. Grows
  BY <1>1, <1>2 DEF Grows, FaultKinds
<1>5. TypeOK'
  BY <1>3 DEF Inv, TypeOK
<1>6. \A p \in Partitions : Below(p, committed'[p], Covered(p)')
  BY <1>3, <1>4, BelowKept DEF Inv
<1>7. \A j \in Instances : Stopping(j)'
  BY <1>3 DEF Inv, TypeOK, Stopping, Cancelled
<1>8. \A j \in Instances : Cancelled(j) => Cancelled(j)'
  BY DEF Inv, TypeOK, Cancelled
<1>9. \A j \in Instances, p \in Partitions : Local(j, p)'
  BY <1>3, <1>4, <1>8, LocalKept DEF Inv
<1> QED
  BY <1>3, <1>5, <1>6, <1>7, <1>9 DEF Inv

(* A process that is gone leaves the others, and what it has stored, alone. *)
LEMMA ForgottenKeepsInv ==
  ASSUME Inv, NEW i \in Instances, Forget(i),
         \A p \in Partitions : owner'[p] # i,
         \A p \in Partitions : owner'[p] = owner[p] \/ owner'[p] = NoOwner,
         owner' \in [Partitions -> Instances \cup {NoOwner}],
         UNCHANGED <<db, dlq, committed, position>>,
         faults' \in [FaultKinds -> Nat], faults'["signal"] = faults["signal"]
  PROVE  Inv'
<1> USE DEF Forget
<1>1. faults["signal"] \in Nat /\ faults'["signal"] \in Nat /\ Grows
  BY DEF Inv, TypeOK, FaultKinds, Grows
<1>2. TypeOK'
  <2>1. /\ <<>> \in Seq(Nat)
        /\ \A p \in Partitions :
             /\ <<>> \in Seq(Offsets(p))
             /\ NoWorker \in WorkerStates(Offsets(p)) /\ NoWorker \in WorkerStates(Nat)
    BY EmptySeq, NoWorkerType, WorkerOfNumbers
  <2>2. phase' \in [Instances -> Phases] /\ ctx' \in [Instances -> {"live", "signalled", "fatal"}]
    BY DEF Inv, TypeOK, Phases
  <2>3. hand' \in [Instances -> SUBSET Located]
    BY DEF Inv, TypeOK
  <2>4. /\ chan' \in [Instances -> [Partitions -> Seq(Nat)]]
        /\ \A j \in Instances, p \in Partitions : chan'[j][p] \in Seq(Offsets(p))
    BY <2>1 DEF Inv, TypeOK
  <2>5. /\ worker' \in [Instances -> [Partitions -> WorkerStates(Nat)]]
        /\ \A j \in Instances, p \in Partitions : worker'[j][p] \in WorkerStates(Offsets(p))
    BY <2>1 DEF Inv, TypeOK
  <2> QED
    BY <2>2, <2>3, <2>4, <2>5 DEF Inv, TypeOK
<1>3. \A p \in Partitions : Below(p, committed'[p], Covered(p)')
  BY <1>1, BelowKept DEF Inv
<1>4. \A j \in Instances : Stopping(j)'
  BY ConsumerAssumption DEF Inv, TypeOK, Stopping, Cancelled
<1>5. ASSUME NEW j \in Instances, NEW p \in Partitions
      PROVE  Local(j, p)'
  <2>1. CASE j = i
    <3>1. /\ worker'[i][p] = NoWorker /\ chan'[i][p] = <<>> /\ hand'[i] = {}
      BY DEF Inv, TypeOK
    <3>2. Held(i, p)' = {} /\ Upcoming(i, p)' = {}
      BY <3>1 DEF Held, Upcoming
    <3> QED
      BY <2>1, <3>1, <3>2, LineOfNothing DEF Local, Shape, Certain, InLine, NoWorker
  <2>2. CASE j # i
    <3>1. /\ worker'[j] = worker[j] /\ chan'[j] = chan[j] /\ hand'[j] = hand[j]
          /\ ctx'[j] = ctx[j]
      BY <2>2 DEF Inv, TypeOK
    <3>2. Certain(j, p)'
      BY <1>1, <3>1, CertainKept DEF Inv, Local
    <3>3. ASSUME ~Cancelled(j)'
          PROVE  InLine(j, p)'
      <4>1. Line(p, Covered(p), worker[j][p].batch, worker[j][p].pending, chan[j][p],
                 Held(j, p), Upcoming(j, p))
        BY <3>1, <3>3 DEF Inv, Local, InLine, Cancelled
      <4>2. Covered(p) \subseteq Covered(p)'
        BY <1>1, CoveredGrows
      <4>3. Line(p, Covered(p)', worker[j][p].batch, worker[j][p].pending, chan[j][p],
                 Held(j, p), Upcoming(j, p))
        BY <4>1, <4>2, LineMonotonic
      <4>4. Held(j, p)' = Held(j, p)
        BY <3>1 DEF Held
      <4>5. Upcoming(j, p)' = Upcoming(j, p) \/ Upcoming(j, p)' = {}
        BY ConsumerAssumption DEF Upcoming
      <4>6. Line(p, Covered(p)', worker[j][p].batch, worker[j][p].pending, chan[j][p],
                 Held(j, p), {})
        BY <4>3, LineStops
      <4> QED
        BY <3>1, <4>3, <4>4, <4>5, <4>6 DEF InLine
    <3> QED
      BY <3>1, <3>2, <3>3 DEF Inv, Local
  <2> QED
    BY <2>1, <2>2
<1> QED
  BY <1>2, <1>3, <1>4, <1>5 DEF Inv

(* A crash forgets the line of its instance. *)
LEMMA CrashKeepsInv ==
  ASSUME Inv, NEW i \in Instances, Crash(i)
  PROVE  Inv'
<1>1. faults' = [faults EXCEPT !["crash"] = @ + 1] /\ Forget(i) /\ LeaveGroup(i)
  BY DEF Crash, Spend
<1>2. faults' \in [FaultKinds -> Nat] /\ faults'["signal"] = faults["signal"]
  BY <1>1 DEF Inv, TypeOK, FaultKinds
<1>3. /\ owner' \in [Partitions -> Instances \cup {NoOwner}]
      /\ \A p \in Partitions : owner'[p] # i /\ (owner'[p] = owner[p] \/ owner'[p] = NoOwner)
  BY <1>1, ConsumerAssumption DEF LeaveGroup, Inv, TypeOK
<1> QED
  BY <1>1, <1>2, <1>3, ForgottenKeepsInv DEF Crash, external

(* So does the exit after a shutdown. *)
LEMMA ExitKeepsInv ==
  ASSUME Inv, NEW i \in Instances, Exit(i)
  PROVE  Inv'
<1>1. \A p \in Partitions : owner[p] # i
  BY DEF Exit, Inv, Stopping
<1> QED
  BY <1>1, ForgottenKeepsInv DEF Exit, Inv, TypeOK, external, group

----------------------------------------------------------------------------
(* The fetch loop and the group. *)

(* An assignment restarts the line at the committed offset. *)
LEMMA AssignKeepsInv ==
  ASSUME Inv, NEW i \in Instances, NEW p \in Partitions, Assign(p, i)
  PROVE  Inv'
<1> USE DEF Assign, external, process
<1>1. faults' \in [FaultKinds -> Nat] /\ faults'["signal"] = faults["signal"]
  BY DEF Spend, Inv, TypeOK, FaultKinds
<1>2. faults["signal"] \in Nat /\ faults'["signal"] \in Nat /\ Grows
  BY <1>1 DEF Inv, TypeOK, FaultKinds, Grows
<1>3. TypeOK'
  BY <1>1 DEF Inv, TypeOK
<1>4. \A q \in Partitions : Below(q, committed'[q], Covered(q)')
  BY <1>2, BelowKept DEF Inv
<1>5. \A j \in Instances : Stopping(j)'
  BY <1>1 DEF Inv, TypeOK, Stopping, Cancelled
<1>6. ASSUME NEW j \in Instances, NEW q \in Partitions
      PROVE  Local(j, q)'
  <2>1. CASE q # p
    <3>1. owner'[q] = owner[q] /\ position'[q] = position[q]
      BY <2>1 DEF Inv, TypeOK
    <3> QED
      BY <1>2, <3>1, LocalKept DEF Inv, Cancelled
  <2>2. CASE q = p
    <3>1. Certain(j, p)'
      BY <1>2, CertainKept DEF Inv, Local
    <3>2. ASSUME ~Cancelled(j)'
          PROVE  InLine(j, p)'
      <4>1. Line(p, Covered(p), worker[j][p].batch, worker[j][p].pending, chan[j][p],
                 Held(j, p), Upcoming(j, p))
        BY <3>2 DEF Inv, Local, InLine, Cancelled
      <4>2. Covered(p) \subseteq Covered(p)'
        BY <1>2, CoveredGrows
      <4>3. Line(p, Covered(p)', worker[j][p].batch, worker[j][p].pending, chan[j][p],
                 Held(j, p), Upcoming(j, p))
        BY <4>1, <4>2, LineMonotonic
      <4>4. Held(j, p)' = Held(j, p)
        BY DEF Held
      <4>5. position'[p] = committed[p] /\ owner'[p] = i
        BY DEF Inv, TypeOK
      <4>6. CASE j = i
        <5>1. Upcoming(j, p)' = {committed[p]}
          BY <4>5, <4>6 DEF Upcoming
        <5>2. Below(p, committed[p], Covered(p)')
          BY <1>4
        <5> QED
          BY <4>3, <4>4, <5>1, <5>2, LineRestarts DEF InLine
      <4>7. CASE j # i
        <5>1. Upcoming(j, p)' = {}
          BY <4>5, <4>7 DEF Upcoming
        <5>2. Line(p, Covered(p)', worker[j][p].batch, worker[j][p].pending, chan[j][p],
                   Held(j, p), {})
          BY <4>3, LineStops
        <5> QED
          BY <4>4, <5>1, <5>2 DEF InLine
      <4> QED
        BY <4>6, <4>7
    <3> QED
      BY <2>2, <3>1, <3>2 DEF Inv, Local
  <2> QED
    BY <2>1, <2>2
<1> QED
  BY <1>1, <1>3, <1>4, <1>5, <1>6 DEF Inv

(* FetchMessage keeps the invariant. *)
LEMMA FetchKeepsInv ==
  ASSUME Inv, NEW i \in Instances, NEW p \in Partitions, Fetch(i, p)
  PROVE  Inv'
<1> USE DEF Fetch, external
<1> DEFINE n == position[p]
<1>1. n \in Offsets(p) /\ n + 1 \in Nat \ {0} /\ hand[i] = {} /\ owner[p] = i
  BY OffsetsAreNumbers
<1>2. faults["signal"] \in Nat /\ faults'["signal"] \in Nat /\ Grows
  BY DEF Inv, TypeOK, FaultKinds, Grows
<1>3. TypeOK'
  BY <1>1 DEF Inv, TypeOK, Located
<1>4. \A q \in Partitions : Below(q, committed'[q], Covered(q)')
  BY <1>2, BelowKept DEF Inv
<1>5. ASSUME NEW j \in Instances
      PROVE  Stopping(j)'
  <2>1. hand'[j] = IF j = i THEN {<<p, n>>} ELSE hand[j]
    BY DEF Inv, TypeOK
  <2>2. \A k, l \in hand'[j] : k = l
    BY <2>1 DEF Inv, Stopping
  <2>3. Stopping(j)
    BY DEF Inv
  <2> QED
    BY <2>2, <2>3 DEF Stopping, Cancelled
<1>6. ASSUME NEW j \in Instances, NEW q \in Partitions
      PROVE  Local(j, q)'
  <2>1. Certain(j, q)'
    BY <1>2, CertainKept DEF Inv, Local
  <2>2. Covered(q)' = Covered(q)
    BY DEF Covered, Handled, DroppedBehindFlush
  <2>3. ASSUME ~Cancelled(j)'
        PROVE  InLine(j, q)'
    <3>1. Line(q, Covered(q), worker[j][q].batch, worker[j][q].pending, chan[j][q],
               Held(j, q), Upcoming(j, q))
      BY <2>3 DEF Inv, Local, InLine, Cancelled
    <3>2. CASE j = i /\ q = p
      <4>1. Held(i, p) = {} /\ Upcoming(i, p) = {n}
        BY <1>1 DEF Held, Upcoming
      <4>2. Held(i, p)' = {n} /\ Upcoming(i, p)' = {n + 1}
        BY <1>1 DEF Held, Upcoming, Inv, TypeOK
      <4>3. Line(p, Covered(p), worker[i][p].batch, worker[i][p].pending, chan[i][p], {n}, {n + 1})
        BY <1>1, <3>1, <3>2, <4>1, LineFetches
      <4> QED
        BY <2>2, <3>2, <4>2, <4>3 DEF InLine
    <3>3. CASE ~(j = i /\ q = p)
      <4>1. Held(j, q)' = Held(j, q)
        BY <1>1, <3>3 DEF Held, Inv, TypeOK
      <4>2. Upcoming(j, q)' = Upcoming(j, q)
        BY <1>1, <3>3 DEF Upcoming, Inv, TypeOK
      <4> QED
        BY <2>2, <3>1, <4>1, <4>2 DEF InLine
    <3> QED
      BY <3>2, <3>3
  <2> QED
    BY <2>1, <2>3 DEF Inv, Local
<1> QED
  BY <1>3, <1>4, <1>5, <1>6 DEF Inv

(* The send to the channel keeps the invariant. *)
LEMMA DispatchKeepsInv ==
  ASSUME Inv, NEW i \in Instances, NEW p \in Partitions, Dispatch(i, p)
  PROVE  Inv'
<1> USE DEF Dispatch, external, group
<1> DEFINE w == [worker[i][p] EXCEPT !.pc = IF @ = "absent" THEN "select" ELSE @]
<1>1. PICK m \in hand[i] : m[1] = p /\ chan' = [chan EXCEPT ![i][p] = Append(@, m[2])]
  OBVIOUS
<1>2. PICK o \in Offsets(p) : m = <<p, o>>
  BY <1>1 DEF Inv, TypeOK, Located
<1>3. worker[i][p] \in WorkerStates(Offsets(p)) /\ chan[i][p] \in Seq(Offsets(p))
  BY DEF Inv, TypeOK
<1>4. w \in WorkerStates(Offsets(p))
  BY <1>3 DEF WorkerStates, WorkerSteps
<1>5. Become(i, p, w)
  BY DEF Inv, TypeOK, Become
<1>6. /\ worker' \in [Instances -> [Partitions -> WorkerStates(Nat)]]
      /\ \A j \in Instances, q \in Partitions :
           /\ worker'[j][q] = IF j = i /\ q = p THEN w ELSE worker[j][q]
           /\ worker'[j][q] \in WorkerStates(Offsets(q))
  <2> HIDE DEF w
  <2> QED
    BY <1>4, <1>5, OneWorkerChanges DEF Inv
<1>7. Append(chan[i][p], o) \in Seq(Offsets(p)) /\ Append(chan[i][p], o) \in Seq(Nat)
  BY <1>3, AppendProperties, QueueOfNumbers
<1>8. /\ chan' \in [Instances -> [Partitions -> Seq(Nat)]]
      /\ \A j \in Instances, q \in Partitions :
           /\ chan'[j][q] = IF j = i /\ q = p THEN Append(chan[i][p], o) ELSE chan[j][q]
           /\ chan'[j][q] \in Seq(Offsets(q))
  BY <1>1, <1>2, <1>7 DEF Inv, TypeOK
<1>9. hand[i] = {<<p, o>>} /\ hand' = [hand EXCEPT ![i] = {}]
  BY <1>1, <1>2 DEF Inv, Stopping
<1>10. TypeOK'
  BY <1>6, <1>8, <1>9 DEF Inv, TypeOK
<1>11. faults["signal"] \in Nat /\ faults'["signal"] \in Nat /\ Grows
  BY DEF Inv, TypeOK, FaultKinds, Grows
<1>12. \A q \in Partitions : Below(q, committed'[q], Covered(q)')
  BY <1>11, BelowKept DEF Inv
<1>13. \A j \in Instances : Stopping(j)'
  BY <1>9 DEF Inv, TypeOK, Stopping, Cancelled
<1>14. ASSUME NEW j \in Instances, NEW q \in Partitions
       PROVE  Local(j, q)'
  <2>1. worker'[j][q].batch = worker[j][q].batch /\ worker'[j][q].pending = worker[j][q].pending
    BY <1>3, <1>6 DEF WorkerStates
  <2>2. Shape(worker'[j][q]) /\ Certain(j, q)'
    <3>1. CASE j = i /\ q = p
      <4>1. Shape(worker[i][p]) /\ Certain(i, p)
        BY DEF Inv, Local
      <4>2. worker'[i][p] = w
        BY <1>6
      <4>3. CASE worker[i][p].pc # "absent"
        <5>1. worker'[i][p] = worker[i][p]
          BY <1>3, <4>2, <4>3 DEF WorkerStates
        <5> QED
          BY <1>11, <3>1, <4>1, <5>1, CertainKept
      <4>4. CASE worker[i][p].pc = "absent"
        <5>1. w.pc = "select" /\ w.batch = <<>> /\ w.pending = <<>>
          BY <1>3, <4>1, <4>4 DEF WorkerStates, Shape
        <5> QED
          BY <3>1, <4>2, <5>1 DEF Shape, Certain
      <4> QED
        BY <4>3, <4>4
    <3>2. CASE ~(j = i /\ q = p)
      <4>1. worker'[j][q] = worker[j][q]
        BY <1>6, <3>2
      <4> QED
        BY <1>11, <4>1, CertainKept DEF Inv, Local
    <3> QED
      BY <3>1, <3>2
  <2>3. Covered(q)' = Covered(q)
    BY DEF Covered, Handled, DroppedBehindFlush
  <2>4. ASSUME ~Cancelled(j)'
        PROVE  InLine(j, q)'
    <3>1. Line(q, Covered(q), worker[j][q].batch, worker[j][q].pending, chan[j][q],
               Held(j, q), Upcoming(j, q))
      BY <2>4 DEF Inv, Local, InLine, Cancelled
    <3>2. Upcoming(j, q)' = Upcoming(j, q)
      BY DEF Upcoming
    <3>3. CASE j = i /\ q = p
      <4>1. Held(i, p) = {o} /\ Held(i, p)' = {}
        BY <1>9 DEF Held, Inv, TypeOK
      <4>2. Line(p, Covered(p), worker[i][p].batch, worker[i][p].pending, Append(chan[i][p], o),
                 {}, Upcoming(i, p))
        BY <1>3, <3>1, <3>3, <4>1, LineDispatches
      <4> QED
        BY <1>8, <2>1, <2>3, <3>2, <3>3, <4>1, <4>2 DEF InLine
    <3>4. CASE ~(j = i /\ q = p)
      <4>1. Held(j, q)' = Held(j, q)
        BY <1>9, <3>4 DEF Held, Inv, TypeOK
      <4>2. chan'[j][q] = chan[j][q]
        BY <1>8, <3>4
      <4> QED
        BY <2>1, <2>3, <3>1, <3>2, <4>1, <4>2 DEF InLine
    <3> QED
      BY <3>3, <3>4
  <2> QED
    BY <2>2, <2>4 DEF Local
<1> QED
  BY <1>10, <1>12, <1>13, <1>14 DEF Inv

(* The fetch loop only returns, and drops its message, when it is cancelled. *)
LEMMA LoopReturnsKeepsInv ==
  ASSUME Inv, NEW i \in Instances, LoopReturns(i)
  PROVE  Inv'
<1> USE DEF LoopReturns, external, group
<1>1. TypeOK'
  BY DEF Inv, TypeOK, Phases
<1>2. faults["signal"] \in Nat /\ faults'["signal"] \in Nat /\ Grows
  BY DEF Inv, TypeOK, FaultKinds, Grows
<1>3. \A p \in Partitions : Below(p, committed'[p], Covered(p)')
  BY <1>2, BelowKept DEF Inv
<1>4. \A j \in Instances : Stopping(j)'
  BY DEF Inv, TypeOK, Stopping, Cancelled
<1>5. ASSUME NEW j \in Instances, NEW p \in Partitions
      PROVE  Local(j, p)'
  <2>1. CASE j = i
    <3>1. Certain(i, p)'
      BY <1>2, CertainKept DEF Inv, Local
    <3> QED
      BY <2>1, <3>1 DEF Inv, Local, Cancelled
  <2>2. CASE j # i
    <3>1. hand'[j] = hand[j]
      BY <2>2 DEF Inv, TypeOK
    <3> QED
      BY <1>2, <3>1, LocalKept DEF Inv, Cancelled
  <2> QED
    BY <2>1, <2>2
<1> QED
  BY <1>1, <1>3, <1>4, <1>5 DEF Inv

(* Closing the reader ends the lines of its instance. *)
LEMMA CloseReaderKeepsInv ==
  ASSUME Inv, NEW i \in Instances, CloseReader(i)
  PROVE  Inv'
<1> USE DEF CloseReader, LeaveGroup, external
<1>1. Cancelled(i)
  BY DEF Inv, Stopping
<1>2. TypeOK'
  BY DEF Inv, TypeOK, Phases
<1>3. faults["signal"] \in Nat /\ faults'["signal"] \in Nat /\ Grows
  BY DEF Inv, TypeOK, FaultKinds, Grows
<1>4. \A p \in Partitions : Below(p, committed'[p], Covered(p)')
  BY <1>3, BelowKept DEF Inv
<1>5. \A p \in Partitions : owner'[p] = IF owner[p] = i THEN NoOwner ELSE owner[p]
  BY DEF Inv, TypeOK
<1>6. \A j \in Instances : Stopping(j)'
  BY <1>5, ConsumerAssumption DEF Inv, TypeOK, Stopping, Cancelled
<1>7. ASSUME NEW j \in Instances, NEW p \in Partitions
      PROVE  Local(j, p)'
  <2>1. Certain(j, p)'
    BY <1>3, CertainKept DEF Inv, Local
  <2>2. CASE j = i
    BY <1>1, <2>1, <2>2 DEF Inv, Local, Cancelled
  <2>3. CASE j # i
    <3>1. Upcoming(j, p)' = Upcoming(j, p)
      BY <1>5, <2>3, ConsumerAssumption DEF Upcoming
    <3>2. Held(j, p)' = Held(j, p) /\ Covered(p)' = Covered(p)
      BY DEF Held, Covered, Handled, DroppedBehindFlush
    <3> QED
      BY <2>1, <3>1, <3>2 DEF Inv, Local, InLine, Cancelled
  <2> QED
    BY <2>2, <2>3
<1> QED
  BY <1>2, <1>4, <1>6, <1>7 DEF Inv

----------------------------------------------------------------------------
(* The partition worker. *)

(* A step of worker p of instance i leaves the invariant of all others alone. *)
LEMMA OneWorkerKeepsInv ==
  ASSUME Inv, NEW i \in Instances, NEW p \in Partitions,
         NEW w \in WorkerStates(Offsets(p)), WorkerEffect(i, p, w),
         \A j \in Instances, q \in Partitions : chan'[j][q] = chan[j][q] \/ (j = i /\ q = p),
         UNCHANGED ctx \/ (~DLQWriter /\ ctx' = [ctx EXCEPT ![i] = IF @ = "live" THEN "fatal" ELSE @]),
         ~DLQWriter => dlq' = {},
         \A q \in Partitions : Below(q, committed'[q], Covered(q)'),
         Certain(i, p)',
         ~Cancelled(i)' => InLine(i, p)'
  PROVE  Inv'
<1> USE DEF WorkerEffect, group
<1>1. TypeOK
  BY DEF Inv
<1>2. /\ worker' \in [Instances -> [Partitions -> WorkerStates(Nat)]]
      /\ \A j \in Instances, q \in Partitions :
           /\ worker'[j][q] = IF j = i /\ q = p THEN w ELSE worker[j][q]
           /\ worker'[j][q] \in WorkerStates(Offsets(q))
  BY <1>1, OneWorkerChanges
<1>3. TypeOK'
  BY <1>1, <1>2 DEF TypeOK
<1>4. faults["signal"] \in Nat /\ faults'["signal"] \in Nat /\ Grows
  BY <1>1 DEF TypeOK, FaultKinds, Grows
<1>5. \A j \in Instances : Stopping(j)'
  BY <1>1 DEF Inv, TypeOK, Stopping, Cancelled
<1>6. \A j \in Instances : Cancelled(j) => Cancelled(j)'
  BY <1>1 DEF TypeOK, Cancelled
<1>7. ASSUME NEW j \in Instances, NEW q \in Partitions
      PROVE  Local(j, q)'
  <2>1. CASE j = i /\ q = p
    BY <1>2, <2>1 DEF Local
  <2>2. CASE ~(j = i /\ q = p)
    <3>1. worker'[j][q] = worker[j][q] /\ chan'[j][q] = chan[j][q]
      BY <1>2, <2>2
    <3> QED
      BY <1>4, <1>6, <3>1, LocalKept DEF Inv
  <2> QED
    BY <2>1, <2>2
<1> QED
  BY <1>3, <1>5, <1>7 DEF Inv

(* The facts the steps of a worker start from. *)
LEMMA WorkerFacts ==
  ASSUME Inv, NEW i \in Instances, NEW p \in Partitions
  PROVE  /\ TypeOK
         /\ worker[i][p] \in WorkerStates(Offsets(p))
         /\ worker[i][p].batch \in Seq(Offsets(p))
         /\ worker[i][p].pending \in Seq(Offsets(p))
         /\ chan[i][p] \in Seq(Offsets(p))
         /\ Shape(worker[i][p]) /\ Certain(i, p) /\ Stopping(i)
         /\ faults["signal"] \in Nat
         /\ ~Cancelled(i) =>
              Line(p, Covered(p), worker[i][p].batch, worker[i][p].pending, chan[i][p],
                   Held(i, p), Upcoming(i, p))
BY DEF Inv, TypeOK, Local, WorkerStates, InLine, FaultKinds

(* The worker that steps has its new record. *)
LEMMA BecomesThis ==
  ASSUME TypeOK, NEW i \in Instances, NEW p \in Partitions, NEW w, Become(i, p, w)
  PROVE  worker'[i][p] = w
BY DEF TypeOK, Become

(* A step of a worker leaves the fetch loop's part of the line alone. *)
LEMMA LineUnmoved ==
  ASSUME NEW i \in Instances, NEW p \in Partitions, UNCHANGED <<owner, position, hand>>
  PROVE  Held(i, p)' = Held(i, p) /\ Upcoming(i, p)' = Upcoming(i, p)
BY DEF Held, Upcoming

(* Without a new row, dead letter or signal the same offsets are covered. *)
LEMMA CoveredUnchanged ==
  ASSUME UNCHANGED <<db, dlq, faults>>
  PROVE  \A p \in Partitions :
           /\ Covered(p)' = Covered(p)
           /\ \A o : Handled(p, o)' <=> Handled(p, o)
BY DEF Covered, Handled, DroppedBehindFlush

(* Nothing is missing below the head of pending while the instance is live. *)
LEMMA HeadIsNext ==
  ASSUME Inv, NEW i \in Instances, NEW p \in Partitions,
         ~Cancelled(i), worker[i][p].pc \in {"handle", "dlq", "commit"}
  PROVE  Below(p, Head(worker[i][p].pending), Covered(p))
<1> DEFINE v == worker[i][p]
<1>1. v.batch = <<>> /\ v.pending # <<>> /\ v.pending \in Seq(Offsets(p))
  BY WorkerFacts DEF Shape
<1>2. Queued(p, v.pending, Covered(p) \cup Range(v.batch))
  BY WorkerFacts DEF Line
<1>3. Covered(p) \cup Range(v.batch) = Covered(p)
  BY <1>1, QueuedEmpty
<1> QED
  BY <1>1, <1>2, <1>3, QueuedHead

(* A step that stores, dead-letters and commits nothing. *)
LEMMA QuietStepKeepsInv ==
  ASSUME Inv, NEW i \in Instances, NEW p \in Partitions,
         NEW w \in WorkerStates(Offsets(p)), WorkerEffect(i, p, w),
         UNCHANGED <<db, dlq, committed, ctx>>,
         \A j \in Instances, q \in Partitions : chan'[j][q] = chan[j][q] \/ (j = i /\ q = p),
         w.pc \in {"select", "bulk", "handle", "exited"},
         ~Cancelled(i) =>
           Line(p, Covered(p), w.batch, w.pending, chan'[i][p], Held(i, p), Upcoming(i, p))
  PROVE  Inv'
<1>1. worker'[i][p] = w
  BY WorkerFacts, BecomesThis DEF WorkerEffect
<1>2. UNCHANGED <<owner, position, hand, faults>>
  BY DEF WorkerEffect, group
<1>3. \A q \in Partitions : Covered(q)' = Covered(q)
  BY <1>2, CoveredUnchanged
<1>4. Certain(i, p)'
  BY <1>1 DEF Certain
<1>5. ASSUME ~Cancelled(i)'
      PROVE  InLine(i, p)'
  <2>1. Line(p, Covered(p), w.batch, w.pending, chan'[i][p], Held(i, p), Upcoming(i, p))
    BY <1>5 DEF Cancelled
  <2> QED
    BY <1>1, <1>2, <1>3, <2>1, LineUnmoved DEF InLine
<1>6. \A q \in Partitions : Below(q, committed'[q], Covered(q)')
  BY <1>3 DEF Inv
<1>7. ~DLQWriter => dlq' = {}
  BY DEF Inv
<1> QED
  BY <1>4, <1>5, <1>6, <1>7, OneWorkerKeepsInv

(* Taking a message, or the ticker, keeps the invariant. *)
LEMMA ReceivingKeepsInv ==
  ASSUME Inv, NEW i \in Instances, NEW p \in Partitions,
         Receive(i, p) \/ ReceiveClosed(i, p) \/ Tick(i, p)
  PROVE  Inv'
<1> DEFINE v == worker[i][p]
<1>1. PICK w \in WorkerStates(Offsets(p)) : WorkerEffect(i, p, w)
  BY WorkerFacts, StepsOfAWorker DEF WorkerStep
<1>2. \A x : Become(i, p, x) => w = x
  BY <1>1, WorkerFacts, BecomesThis DEF WorkerEffect
<1>3. v \in WorkerStates(Offsets(p)) /\ Shape(v)
  BY WorkerFacts
<1>4. ASSUME ~Cancelled(i)
      PROVE  Line(p, Covered(p), v.batch, v.pending, chan[i][p], Held(i, p), Upcoming(i, p))
  BY <1>4, WorkerFacts
<1>5. CASE Receive(i, p)
  <2> DEFINE o == Head(chan[i][p])
  <2>1. /\ UNCHANGED <<db, dlq, committed, ctx>>
        /\ chan' = [chan EXCEPT ![i][p] = Tail(@)]
        /\ v.pc = "select" /\ v.pending = <<>> /\ chan[i][p] # <<>>
    BY <1>3, <1>5 DEF Receive, external, process, Shape
  <2>2. \A j \in Instances, q \in Partitions :
          chan'[j][q] = IF j = i /\ q = p THEN Tail(chan[i][p]) ELSE chan[j][q]
    BY <2>1 DEF Inv, TypeOK
  <2>3. CASE Cancelled(i) /\ w = [v EXCEPT !.pc = "exited"]
    <3>1. w.pc \in {"select", "bulk", "handle", "exited"}
      BY <1>3, <2>3 DEF WorkerStates
    <3>2. Cancelled(i)
      BY <2>3
    <3> QED
      BY <1>1, <2>1, <2>2, <3>1, <3>2, QuietStepKeepsInv
  <2>4. CASE w = [v EXCEPT !.pc = IF v.batch = <<>> THEN "handle" ELSE "bulk", !.pending = <<o>>]
    <3>1. w.pc \in {"handle", "bulk"} /\ w.batch = v.batch /\ w.pending = <<o>>
      BY <1>3, <2>4 DEF WorkerStates
    <3>2. ~Cancelled(i) => Line(p, Covered(p), v.batch, <<o>>, Tail(chan[i][p]), Held(i, p), Upcoming(i, p))
      BY <1>4, <2>1, WorkerFacts, LineMeetsUndecodable
    <3>3. ~Cancelled(i) => Line(p, Covered(p), w.batch, w.pending, chan'[i][p], Held(i, p), Upcoming(i, p))
      BY <2>2, <3>1, <3>2
    <3>4. w.pc \in {"select", "bulk", "handle", "exited"}
      BY <3>1
    <3> QED
      BY <1>1, <2>1, <2>2, <3>3, <3>4, QuietStepKeepsInv
  <2>5. CASE w = [v EXCEPT !.pc = IF Len(v.batch) + 1 < BatchSize THEN "select" ELSE "bulk",
                           !.batch = Append(v.batch, o)]
    <3>1. w.pc \in {"select", "bulk"} /\ w.batch = Append(v.batch, o) /\ w.pending = <<>>
      BY <1>3, <2>1, <2>5 DEF WorkerStates
    <3>2. ~Cancelled(i) => Line(p, Covered(p), Append(v.batch, o), <<>>, Tail(chan[i][p]), Held(i, p), Upcoming(i, p))
      BY <1>4, <2>1, WorkerFacts, LineFillsBatch
    <3>3. ~Cancelled(i) => Line(p, Covered(p), w.batch, w.pending, chan'[i][p], Held(i, p), Upcoming(i, p))
      BY <2>2, <3>1, <3>2
    <3>4. w.pc \in {"select", "bulk", "handle", "exited"}
      BY <3>1
    <3> QED
      BY <1>1, <2>1, <2>2, <3>3, <3>4, QuietStepKeepsInv
  <2> QED
    BY <1>2, <1>5, <2>3, <2>4, <2>5 DEF Receive
<1>6. CASE ReceiveClosed(i, p) \/ Tick(i, p)
  <2>1. UNCHANGED <<db, dlq, committed, ctx, chan>>
    BY <1>6 DEF ReceiveClosed, Tick, external, process
  <2>2. w = [v EXCEPT !.pc = "exited"] \/ w = [v EXCEPT !.pc = "bulk"]
    BY <1>2, <1>6 DEF ReceiveClosed, Tick
  <2>3. w.pc \in {"exited", "bulk"} /\ w.batch = v.batch /\ w.pending = v.pending
    BY <1>3, <2>2 DEF WorkerStates
  <2> QED
    BY <1>1, <1>4, <2>1, <2>3, QuietStepKeepsInv
<1> QED
  BY <1>5, <1>6

(* Every step of flushBatch keeps the invariant. *)
LEMMA FlushStepKeepsInv ==
  ASSUME Inv, NEW i \in Instances, NEW p \in Partitions, FlushStep(i, p)
  PROVE  Inv'
<1> DEFINE v == worker[i][p]
           U == Upcoming(i, p)
<1>1. PICK w \in WorkerStates(Offsets(p)) : WorkerEffect(i, p, w)
  BY WorkerFacts, StepsOfAWorker DEF WorkerStep
<1>2. \A x : Become(i, p, x) => w = x
  BY <1>1, WorkerFacts, BecomesThis DEF WorkerEffect
<1>3. /\ v \in WorkerStates(Offsets(p)) /\ Shape(v) /\ Certain(i, p)
      /\ v.batch \in Seq(Offsets(p)) /\ v.pending \in Seq(Offsets(p))
  BY WorkerFacts
<1>4. ASSUME ~Cancelled(i)
      PROVE  Line(p, Covered(p), v.batch, v.pending, chan[i][p], Held(i, p), U)
  BY <1>4, WorkerFacts
<1>5. worker'[i][p] = w /\ UNCHANGED <<owner, position, hand, faults>>
  BY <1>1, WorkerFacts, BecomesThis DEF WorkerEffect, group
<1>6. Grows /\ faults["signal"] \in Nat /\ faults'["signal"] \in Nat
  BY <1>1, WorkerFacts DEF WorkerEffect, Grows
<1>7. Covered(p) \subseteq Covered(p)' /\ \A o : Handled(p, o) => Handled(p, o)'
  BY <1>6, CoveredGrows
<1>8. UNCHANGED <<chan, ctx>> /\ UNCHANGED dlq
  BY DEF FlushStep, BulkAborted, BulkStored, BulkFailed, BulkCommitted, BulkCommitFailed,
         process, external
<1>9. /\ Held(i, p)' = Held(i, p) /\ U' = U
      /\ (Cancelled(i)' <=> Cancelled(i))
  BY <1>5, <1>8, LineUnmoved DEF Cancelled
<1>10. ASSUME UNCHANGED committed
       PROVE  \A q \in Partitions : Below(q, committed'[q], Covered(q)')
  BY <1>6, <1>10, BelowKept DEF Inv
<1>11. /\ AfterFlush(v).batch = <<>> /\ AfterFlush(v).pending = v.pending
       /\ AfterFlush(v).pc \in {"select", "handle"}
  BY <1>3 DEF AfterFlush, WorkerStates
<1>12. CASE BulkAborted(i, p)
  <2>1. w = AfterFlush(v) /\ Cancelled(i) /\ UNCHANGED <<db, committed>>
    BY <1>2, <1>12 DEF BulkAborted, external
  <2> QED
    BY <1>1, <1>8, <1>11, <2>1, QuietStepKeepsInv
<1>13. CASE BulkStored(i, p)
  <2>1. /\ w = [v EXCEPT !.pc = "bulkCommit"] /\ ~Cancelled(i)
        /\ AllStorable(p, v.batch) /\ db' = db \cup KeysOf(p, v.batch)
        /\ UNCHANGED committed
    BY <1>2, <1>13 DEF BulkStored
  <2>2. w.pc = "bulkCommit" /\ w.batch = v.batch /\ w.pending = v.pending
    BY <1>3, <2>1 DEF WorkerStates
  <2>3. ASSUME NEW o \in Range(v.batch)
        PROVE  o \in Covered(p)' /\ Handled(p, o)'
    <3>1. PICK k \in DOMAIN v.batch : o = v.batch[k]
      BY DEF Range
    <3>2. o \in Offsets(p)
      BY <1>3, <3>1, LenProperties, ElementOfSeq
    <3>3. Handled(p, o)'
      BY <2>1, <3>1 DEF Handled, AllStorable, KeysOf
    <3> QED
      BY <3>2, <3>3 DEF Covered
  <2>4. Line(p, Covered(p)', v.batch, v.pending, chan[i][p], Held(i, p), U)
    BY <1>4, <1>7, <2>1, LineMonotonic
  <2>5. ASSUME NEW o \in Range(v.batch)
        PROVE  Below(p, o, Covered(p)')
    <3>1. PICK k \in DOMAIN v.batch : o = v.batch[k]
      BY DEF Range
    <3>2. Below(p, o, Covered(p)' \cup {v.batch[j] : j \in 1..(k - 1)})
      BY <2>4, <3>1 DEF Line, Queued
    <3>3. DOMAIN v.batch = 1..Len(v.batch) /\ Len(v.batch) \in Nat
      BY <1>3, LenProperties
    <3>4. \A j \in 1..(k - 1) : v.batch[j] \in Range(v.batch)
      BY <3>3 DEF Range
    <3> QED
      BY <2>3, <3>2, <3>4 DEF Below
  <2>6. Certain(i, p)'
    BY <1>5, <2>2, <2>3, <2>5 DEF Certain
  <2>7. InLine(i, p)'
    BY <1>5, <1>8, <1>9, <2>2, <2>4 DEF InLine
  <2> QED
    BY <1>1, <1>8, <1>10, <2>1, <2>6, <2>7, OneWorkerKeepsInv DEF Inv
<1>14. CASE BulkFailed(i, p)
  <2>1. v.pc = "bulk" /\ ~Cancelled(i) /\ UNCHANGED committed
    BY <1>14 DEF BulkFailed
  <2>2. w = [v EXCEPT !.attempt = @ + 1] \/ w = FallBack(v)
    BY <1>2, <1>14 DEF BulkFailed
  <2>3. Line(p, Covered(p)', v.batch, v.pending, chan[i][p], Held(i, p), U)
    BY <1>4, <1>7, <2>1, LineMonotonic
  <2>4. /\ w.pc \in {"bulk", "handle"}
        /\ Line(p, Covered(p)', w.batch, w.pending, chan[i][p], Held(i, p), U)
    <3>1. CASE w = [v EXCEPT !.attempt = @ + 1]
      <4>1. w.pc = "bulk" /\ w.batch = v.batch /\ w.pending = v.pending
        BY <1>3, <2>1, <3>1 DEF WorkerStates
      <4> QED
        BY <2>3, <4>1
    <3>2. CASE w = FallBack(v)
      <4>1. w.pc = "handle" /\ w.batch = <<>> /\ w.pending = v.batch \o v.pending
        BY <1>3, <3>2 DEF FallBack, WorkerStates
      <4> QED
        BY <1>3, <2>3, <4>1, LineFallsBack
    <3> QED
      BY <2>2, <3>1, <3>2
  <2>5. Certain(i, p)'
    BY <1>5, <2>4 DEF Certain
  <2>6. InLine(i, p)'
    BY <1>5, <1>8, <1>9, <2>4 DEF InLine
  <2> QED
    BY <1>1, <1>8, <1>10, <2>1, <2>5, <2>6, OneWorkerKeepsInv DEF Inv
<1>15. CASE BulkCommitted(i, p) \/ BulkCommitFailed(i, p)
  <2>1. v.pc = "bulkCommit" /\ UNCHANGED <<db, dlq, faults>>
    BY <1>5, <1>8, <1>15 DEF BulkCommitted, BulkCommitFailed
  <2>2. \A q \in Partitions : Covered(q)' = Covered(q) /\ \A o : Handled(q, o)' <=> Handled(q, o)
    BY <2>1, CoveredUnchanged
  <2>3. \A o \in Range(v.batch) : Handled(p, o) /\ Below(p, o, Covered(p))
    BY <1>3, <2>1 DEF Certain
  <2>4. \A o \in Range(v.batch) : o \in Offsets(p)
    BY <1>3, LenProperties, ElementOfSeq DEF Range
  <2>5. \A o \in Range(v.batch) : o \in Covered(p)
    BY <2>3, <2>4 DEF Covered
  <2>6. UNCHANGED committed \/ CommitOffset(p, v.batch)
    BY <1>15 DEF BulkCommitted, BulkCommitFailed, MaybeCommitted
  <2>7. \A q \in Partitions : Below(q, committed'[q], Covered(q)')
    <3>1. CASE CommitOffset(p, v.batch)
      BY <1>3, <2>2, <2>3, <2>5, <3>1, BelowAfterCommit DEF Inv
    <3> QED
      BY <1>10, <2>6, <3>1
  <2>8. w = AfterFlush(v) \/ w = v
    BY <1>2, <1>15 DEF BulkCommitted, BulkCommitFailed
  <2>9. Certain(i, p)'
    <3>1. CASE w = v
      BY <1>3, <1>5, <1>6, <3>1, CertainKept
    <3>2. CASE w = AfterFlush(v)
      BY <1>5, <1>11, <3>2 DEF Certain
    <3> QED
      BY <2>8, <3>1, <3>2
  <2>10. ASSUME ~Cancelled(i)'
         PROVE  InLine(i, p)'
    <3>1. Line(p, Covered(p), v.batch, v.pending, chan[i][p], Held(i, p), U)
      BY <1>4, <1>9, <2>10
    <3>2. Line(p, Covered(p), <<>>, v.pending, chan[i][p], Held(i, p), U)
      BY <2>5, <3>1, LineFlushes
    <3>3. Line(p, Covered(p), w.batch, w.pending, chan[i][p], Held(i, p), U)
      BY <1>11, <2>8, <3>1, <3>2
    <3> QED
      BY <1>5, <1>8, <1>9, <2>2, <3>3 DEF InLine
  <2> QED
    BY <1>1, <1>8, <2>7, <2>9, <2>10, OneWorkerKeepsInv DEF Inv
<1> QED
  BY <1>12, <1>13, <1>14, <1>15 DEF FlushStep

(* The head of pending, once it is handled with nothing missing below it,    *)
(* may be committed and may leave.                                           *)
LEMMA MessageStepKeepsInv ==
  ASSUME Inv, NEW i \in Instances, NEW p \in Partitions, MessageStep(i, p)
  PROVE  Inv'
<1> DEFINE v == worker[i][p]
           o == Head(v.pending)
           U == Upcoming(i, p)
<1>1. PICK w \in WorkerStates(Offsets(p)) : WorkerEffect(i, p, w)
  BY WorkerFacts, StepsOfAWorker DEF WorkerStep
<1>2. \A x : Become(i, p, x) => w = x
  BY <1>1, WorkerFacts, BecomesThis DEF WorkerEffect
<1>3. /\ v \in WorkerStates(Offsets(p)) /\ Shape(v) /\ Certain(i, p) /\ Stopping(i)
      /\ v.pending \in Seq(Offsets(p))
  BY WorkerFacts
<1>4. worker'[i][p] = w /\ UNCHANGED <<owner, position, hand, faults>>
  BY <1>1, WorkerFacts, BecomesThis DEF WorkerEffect, group
<1>5. Grows /\ faults["signal"] \in Nat /\ faults'["signal"] \in Nat
  BY <1>1, WorkerFacts DEF WorkerEffect, Grows
<1>6. Covered(p) \subseteq Covered(p)' /\ \A n : Handled(p, n) => Handled(p, n)'
  BY <1>5, CoveredGrows
<1>7. v.pc \in {"handle", "dlq", "commit"} /\ UNCHANGED chan
  BY DEF MessageStep, Refused, MessageAborted, MessageStored, MessageFailed, RoutedToDLQ,
         DLQFailed, DLQFatal, MessageCommitted, MessageCommitFailed, process
<1>8. v.batch = <<>> /\ v.pending # <<>> /\ o \in Offsets(p)
  BY <1>3, <1>7, HeadTailProperties DEF Shape
<1>9. ASSUME ~Cancelled(i)
      PROVE  /\ Line(p, Covered(p)', v.batch, v.pending, chan[i][p], Held(i, p), U)
             /\ Below(p, o, Covered(p))
  <2>1. Line(p, Covered(p), v.batch, v.pending, chan[i][p], Held(i, p), U)
    BY <1>9, WorkerFacts
  <2>2. Below(p, o, Covered(p))
    BY <1>7, <1>9, HeadIsNext
  <2> QED
    BY <1>6, <2>1, <2>2, LineMonotonic
<1>10. Held(i, p)' = Held(i, p) /\ U' = U
  BY <1>4, LineUnmoved
<1>11. ASSUME UNCHANGED committed
       PROVE  \A q \in Partitions : Below(q, committed'[q], Covered(q)')
  BY <1>5, <1>11, BelowKept DEF Inv
<1>12. ASSUME UNCHANGED ctx, w.batch = v.batch, w.pending = v.pending, ~Cancelled(i)'
       PROVE  InLine(i, p)'
  <2>1. Line(p, Covered(p)', w.batch, w.pending, chan[i][p], Held(i, p), U)
    BY <1>9, <1>12 DEF Cancelled
  <2> QED
    BY <1>4, <1>7, <1>10, <2>1 DEF InLine
<1>13. /\ AfterMessage(v).batch = <<>> /\ AfterMessage(v).pending = Tail(v.pending)
       /\ AfterMessage(v).pc \in {"select", "handle"}
  BY <1>3, <1>8 DEF AfterMessage, WorkerStates
<1>14. ASSUME Below(p, o, Covered(p))
       PROVE  Below(p, o, Covered(p)')
  BY <1>6, <1>14 DEF Below
<1>21. CASE Refused(i, p)
  <2>1. w = [v EXCEPT !.pc = "dlq", !.cause = "Refused"] /\ ~Decodable(p, o)
        /\ UNCHANGED <<dlq, committed, ctx>>
    BY <1>2, <1>21 DEF Refused, external, process
  <2>2. w.pc = "dlq" /\ w.batch = v.batch /\ w.pending = v.pending
    BY <1>3, <2>1 DEF WorkerStates
  <2>3. Certain(i, p)'
    BY <1>4, <2>1, <2>2 DEF Certain
  <2> QED
    BY <1>1, <1>7, <1>11, <1>12, <2>1, <2>2, <2>3, OneWorkerKeepsInv DEF Inv
<1>22. CASE MessageAborted(i, p)
  <2>1. w = AfterMessage(v) /\ Cancelled(i) /\ UNCHANGED <<db, dlq, committed, ctx>>
    BY <1>2, <1>22 DEF MessageAborted, external, process
  <2> QED
    BY <1>1, <1>7, <1>13, <2>1, QuietStepKeepsInv
<1>23. CASE MessageStored(i, p)
  <2>1. /\ w = [v EXCEPT !.pc = "commit"] /\ ~Cancelled(i) /\ Storable(p, o)
        /\ db' = db \cup {Key(p, o)} /\ UNCHANGED <<dlq, committed, ctx>>
    BY <1>2, <1>23 DEF MessageStored, process
  <2>2. w.pc = "commit" /\ w.batch = v.batch /\ w.pending = v.pending
    BY <1>3, <2>1 DEF WorkerStates
  <2>3. (\A n : n = o => Handled(p, n)') /\ Below(p, o, Covered(p)')
    BY <1>9, <1>14, <2>1 DEF Handled
  <2>4. Certain(i, p)'
    BY <1>4, <2>2, <2>3 DEF Certain
  <2> QED
    BY <1>1, <1>7, <1>11, <1>12, <2>1, <2>2, <2>4, OneWorkerKeepsInv DEF Inv
<1>24. CASE MessageFailed(i, p)
  <2>1. v.pc = "handle" /\ ~Cancelled(i) /\ UNCHANGED <<dlq, committed, ctx>>
    BY <1>24 DEF MessageFailed, process
  <2>2. w = [v EXCEPT !.attempt = @ + 1] \/ \E e : w = [v EXCEPT !.pc = "dlq", !.cause = e]
    BY <1>2, <1>24 DEF MessageFailed
  <2>3. w.pc \in {"handle", "dlq"} /\ w.batch = v.batch /\ w.pending = v.pending
    BY <1>3, <2>1, <2>2 DEF WorkerStates
  <2>4. Below(p, o, Covered(p)')
    BY <1>9, <1>14, <2>1
  <2>5. Certain(i, p)'
    BY <1>4, <2>3, <2>4 DEF Certain
  <2> QED
    BY <1>1, <1>7, <1>11, <1>12, <2>1, <2>3, <2>5, OneWorkerKeepsInv DEF Inv
<1>25. CASE RoutedToDLQ(i, p)
  <2>1. /\ w = [v EXCEPT !.pc = "commit"] /\ v.pc = "dlq" /\ DLQWriter
        /\ dlq' = dlq \cup {<<p, o>>} /\ UNCHANGED <<committed, ctx>>
    BY <1>2, <1>25 DEF RoutedToDLQ, process
  <2>2. w.pc = "commit" /\ w.batch = v.batch /\ w.pending = v.pending
    BY <1>3, <2>1 DEF WorkerStates
  <2>3. \A n : n = o => Handled(p, n)'
    BY <2>1 DEF Handled
  <2>4. Below(p, o, Covered(p)')
    <3>1. CASE Decodable(p, o)
      BY <1>3, <1>14, <2>1, <3>1 DEF Certain
    <3>2. CASE ~Cancelled(i)
      BY <1>9, <1>14, <3>2
    <3>3. CASE ~Decodable(p, o) /\ Cancelled(i)
      <4>1. ctx[i] = "signalled"
        BY <1>3, <2>1, <3>3 DEF Cancelled, Stopping, Inv, TypeOK
      <4>2. faults'["signal"] > 0
        BY <1>3, <1>4, <4>1 DEF Stopping
      <4>3. \A n \in Offsets(p) : n < o => DroppedBehindFlush(p, n)'
        BY <1>8, <2>1, <3>3, <4>2 DEF DroppedBehindFlush
      <4> QED
        BY <4>3 DEF Below, Covered
    <3> QED
      BY <3>1, <3>2, <3>3
  <2>5. Certain(i, p)'
    BY <1>4, <2>2, <2>3, <2>4 DEF Certain
  <2> QED
    BY <1>1, <1>7, <1>11, <1>12, <2>1, <2>2, <2>5, OneWorkerKeepsInv DEF Inv
<1>26. CASE DLQFailed(i, p)
  <2>1. v.pc = "dlq" /\ DLQWriter /\ UNCHANGED <<committed, ctx>>
    BY <1>26 DEF DLQFailed, process
  <2>2. w = IF Cancelled(i) THEN AfterMessage(v) ELSE v
    BY <1>2, <1>26 DEF DLQFailed
  <2>3. CASE Cancelled(i)
    <3>1. Certain(i, p)' /\ Cancelled(i)'
      BY <1>4, <1>13, <2>1, <2>2, <2>3 DEF Certain, Cancelled
    <3> QED
      BY <1>1, <1>7, <1>11, <2>1, <3>1, OneWorkerKeepsInv DEF Inv
  <2>4. CASE ~Cancelled(i)
    <3>1. w = v
      BY <2>2, <2>4
    <3>2. Certain(i, p)'
      BY <1>3, <1>4, <1>5, <3>1, CertainKept
    <3> QED
      BY <1>1, <1>7, <1>11, <1>12, <2>1, <3>1, <3>2, OneWorkerKeepsInv DEF Inv
  <2> QED
    BY <2>3, <2>4
<1>27. CASE DLQFatal(i, p)
  <2>1. /\ ~DLQWriter /\ UNCHANGED <<dlq, committed>> /\ w = AfterMessage(v)
        /\ ctx' = [ctx EXCEPT ![i] = IF @ = "live" THEN "fatal" ELSE @]
    BY <1>2, <1>27 DEF DLQFatal, external
  <2>2. Certain(i, p)'
    BY <1>4, <1>13, <2>1 DEF Certain
  <2>3. Cancelled(i)'
    BY <2>1 DEF Cancelled, Inv, TypeOK
  <2> QED
    BY <1>1, <1>7, <1>11, <2>1, <2>2, <2>3, OneWorkerKeepsInv DEF Inv
<1>28. CASE MessageCommitted(i, p) \/ MessageCommitFailed(i, p)
  <2>1. v.pc = "commit" /\ UNCHANGED <<db, dlq, faults, ctx>>
    BY <1>4, <1>28 DEF MessageCommitted, MessageCommitFailed, process
  <2>2. \A q \in Partitions : Covered(q)' = Covered(q)
    BY <2>1, CoveredUnchanged
  <2>3. Handled(p, o) /\ Below(p, o, Covered(p))
    BY <1>3, <2>1 DEF Certain
  <2>4. o \in Covered(p)
    BY <1>8, <2>3 DEF Covered
  <2>5. UNCHANGED committed \/ CommitOffset(p, <<o>>)
    BY <1>28 DEF MessageCommitted, MessageCommitFailed, MaybeCommitted
  <2>6. \A q \in Partitions : Below(q, committed'[q], Covered(q)')
    <3>1. <<o>> \in Seq(Offsets(p)) /\ Range(<<o>>) = {o}
      BY <1>8 DEF Range
    <3>2. CASE CommitOffset(p, <<o>>)
      <4>1. \A n \in Range(<<o>>) : n \in Covered(p) /\ Below(p, n, Covered(p))
        BY <2>3, <2>4, <3>1
      <4> QED
        BY <2>2, <3>1, <3>2, <4>1, BelowAfterCommit DEF Inv
    <3> QED
      BY <1>11, <2>5, <3>2
  <2>7. w = AfterMessage(v) \/ w = v
    BY <1>2, <1>28 DEF MessageCommitted, MessageCommitFailed
  <2>8. Certain(i, p)'
    <3>1. CASE w = v
      BY <1>3, <1>4, <1>5, <3>1, CertainKept
    <3>2. CASE w = AfterMessage(v)
      BY <1>4, <1>13, <3>2 DEF Certain
    <3> QED
      BY <2>7, <3>1, <3>2
  <2>9. ASSUME ~Cancelled(i)'
        PROVE  InLine(i, p)'
    <3>1. Line(p, Covered(p)', <<>>, v.pending, chan[i][p], Held(i, p), U)
      BY <1>8, <1>9, <2>1, <2>9 DEF Cancelled
    <3>2. Line(p, Covered(p)', <<>>, Tail(v.pending), chan[i][p], Held(i, p), U)
      BY <1>3, <1>8, <2>2, <2>4, <3>1, LineAdvances
    <3>3. Line(p, Covered(p)', w.batch, w.pending, chan[i][p], Held(i, p), U)
      BY <1>8, <1>13, <2>7, <3>1, <3>2
    <3> QED
      BY <1>4, <1>7, <1>10, <3>3 DEF InLine
  <2> QED
    BY <1>1, <1>7, <2>1, <2>6, <2>8, <2>9, OneWorkerKeepsInv DEF Inv
<1> QED
  BY <1>21, <1>22, <1>23, <1>24, <1>25, <1>26, <1>27, <1>28 DEF MessageStep

(* The invariant only speaks of the variables. *)
LEMMA StutterKeepsInv ==
  ASSUME Inv, UNCHANGED vars
  PROVE  Inv'
<1> USE DEF vars
<1>1. TypeOK'
  BY DEF Inv, TypeOK
<1>2. faults["signal"] \in Nat /\ faults'["signal"] \in Nat /\ Grows
  BY DEF Inv, TypeOK, FaultKinds, Grows
<1>3. \A p \in Partitions : Below(p, committed'[p], Covered(p)')
  BY <1>2, BelowKept DEF Inv
<1>4. \A i \in Instances : Stopping(i)'
  BY DEF Inv, Stopping, Cancelled
<1>5. \A i \in Instances, p \in Partitions : Local(i, p)'
  BY <1>2, LocalKept DEF Inv, Cancelled
<1> QED
  BY <1>1, <1>3, <1>4, <1>5 DEF Inv

(* The invariant is inductive: one step per action of Next. *)
LEMMA NextKeepsInv == Inv /\ [Next]_vars => Inv'
<1> SUFFICES ASSUME Inv, [Next]_vars PROVE Inv'
  OBVIOUS
<1>1. CASE UNCHANGED vars
  BY <1>1, StutterKeepsInv
<1>2. CASE Next
  <2> PICK i \in Instances :
        \/ Boot(i) \/ Signal(i) \/ Crash(i)
        \/ LoopStep(i)
        \/ \E p \in Partitions : Assign(p, i) \/ WorkerStep(i, p)
    BY <1>2 DEF Next
  <2>1. CASE Boot(i) \/ Signal(i) \/ Crash(i)
    BY <2>1, BootKeepsInv, SignalKeepsInv, CrashKeepsInv
  <2>2. CASE LoopStep(i)
    BY <2>2, LoopReturnsKeepsInv, CloseReaderKeepsInv, ExitKeepsInv, FetchKeepsInv,
       DispatchKeepsInv DEF LoopStep, Drained, DrainTimeout
  <2>3. ASSUME NEW p \in Partitions, Assign(p, i) \/ WorkerStep(i, p)
        PROVE  Inv'
    BY <2>3, AssignKeepsInv, ReceivingKeepsInv, FlushStepKeepsInv, MessageStepKeepsInv
       DEF WorkerStep
  <2> QED
    BY <2>1, <2>2, <2>3
<1> QED
  BY <1>1, <1>2

----------------------------------------------------------------------------
(* The results. *)

(* The invariant holds in every state the group of processors can reach.     *)
THEOREM Invariance == Spec => []Inv
BY InitInv, NextKeepsInv, PTL DEF Spec

(* Every variable keeps its type: in particular a worker never holds an      *)
(* offset of another partition, and the retry counter its bound.             *)
THEOREM TypeCorrectness == Spec => []TypeOK
<1>1. Inv => TypeOK
  BY DEF Inv
<1> QED
  BY <1>1, Invariance, PTL

(* Whatever instances crash, lose their partitions, time out or stop, an     *)
(* offset the group has committed past is stored or dead-lettered, or was    *)
(* dropped by a shutdown in the flush in front of an undecodable message.    *)
THEOREM LossOnlyBehindFlushHolds == Spec => []LossOnlyBehindFlush
<1>1. Inv => LossOnlyBehindFlush
  BY DEF Inv, LossOnlyBehindFlush, Below, Covered
<1> QED
  BY <1>1, Invariance, PTL

(* At-least-once delivery holds without reserve for a topic every message of *)
(* which decodes ...                                                         *)
THEOREM NoLossWhenDecodable ==
  ASSUME AllDecodable
  PROVE  Spec => []NoLoss
<1>1. Inv => NoLoss
  BY DEF Inv, NoLoss, Below, Covered, DroppedBehindFlush, AllDecodable
<1> QED
  BY <1>1, Invariance, PTL

(* ... for a consumer without a DLQ writer, which stops at such a message    *)
(* and leaves it and what follows uncommitted ...                            *)
THEOREM NoLossWithoutWriter ==
  ASSUME ~DLQWriter
  PROVE  Spec => []NoLoss
<1>1. Inv => NoLoss
  BY DEF Inv, NoLoss, Below, Covered, DroppedBehindFlush
<1> QED
  BY <1>1, Invariance, PTL

(* ... and as long as no instance is told to stop.                           *)
THEOREM NoLossWithoutShutdown ==
  ASSUME MaxFaults["signal"] = 0
  PROVE  Spec => []NoLoss
<1>1. Inv => NoLoss
  <2> SUFFICES ASSUME Inv PROVE NoLoss
    OBVIOUS
  <2>1. ~(faults["signal"] > 0)
    BY DEF Inv, TypeOK, FaultKinds
  <2> QED
    BY <2>1 DEF Inv, NoLoss, Below, Covered, DroppedBehindFlush
<1> QED
  BY <1>1, Invariance, PTL

----------------------------------------------------------------------------
(***************************************************************************)
(* The order of persistence: a message is stored or dead-lettered only     *)
(* when every earlier one of its partition is, or was dropped by a         *)
(* shutdown.  The invariant of the commits is enough to prove it, for its  *)
(* line keeps the messages a worker may still handle in order.             *)
(***************************************************************************)

(* No two storable messages of the topic would become the same row. *)
DistinctKeys ==
  \A p, q \in Partitions : \A m \in Offsets(p), n \in Offsets(q) :
    Storable(p, m) /\ Storable(q, n) /\ Key(p, m) = Key(q, n) => p = q /\ m = n

(* The steps that may handle messages lose nothing and keep their types. *)
Careful == Inv /\ Inv' /\ Grows

(* The order is kept when what a step handles has nothing missing below it. *)
LEMMA OrderKept ==
  ASSUME Careful, HandledInOrder,
         \A q \in Partitions : \A o \in Offsets(q) :
           Handled(q, o)' /\ ~Handled(q, o) => Below(q, o, Covered(q)')
  PROVE  HandledInOrder'
<1>1. faults["signal"] \in Nat /\ faults'["signal"] \in Nat
  BY DEF Careful, Inv, TypeOK, FaultKinds
<1>2. \A q \in Partitions : Covered(q) \subseteq Covered(q)'
  BY <1>1, CoveredGrows DEF Careful
<1>3. ASSUME NEW q \in Partitions, NEW o \in Offsets(q), Handled(q, o)'
      PROVE  Below(q, o, Covered(q)')
  <2>1. CASE Handled(q, o)
    <3>1. Below(q, o, Covered(q))
      BY <2>1 DEF HandledInOrder, Below, Covered
    <3> QED
      BY <1>2, <3>1 DEF Below
  <2> QED
    BY <1>3, <2>1
<1> QED
  BY <1>3 DEF HandledInOrder, Below, Covered

(* A step that stores and dead-letters nothing. *)
LEMMA OrderUntouched ==
  ASSUME Careful, HandledInOrder, UNCHANGED <<db, dlq>>
  PROVE  HandledInOrder'
<1>1. \A q \in Partitions : \A o : Handled(q, o)' => Handled(q, o)
  BY DEF Handled
<1> QED
  BY <1>1, OrderKept

(* An INSERT of messages that queue up behind what is covered. *)
LEMMA RowsInOrder ==
  ASSUME Careful, HandledInOrder, DistinctKeys,
         NEW p \in Partitions, NEW s \in Seq(Offsets(p)),
         AllStorable(p, s), Queued(p, s, Covered(p)),
         db' = db \cup KeysOf(p, s), UNCHANGED dlq
  PROVE  HandledInOrder'
<1>1. DOMAIN s = 1..Len(s) /\ Len(s) \in Nat /\ \A k \in DOMAIN s : s[k] \in Offsets(p)
  BY LenProperties, ElementOfSeq
<1>2. \A k \in DOMAIN s : s[k] \in Covered(p)'
  BY <1>1 DEF AllStorable, KeysOf, Covered, Handled
<1>3. faults["signal"] \in Nat /\ faults'["signal"] \in Nat
  BY DEF Careful, Inv, TypeOK, FaultKinds
<1>4. Covered(p) \subseteq Covered(p)'
  BY <1>3, CoveredGrows DEF Careful
<1>5. ASSUME NEW q \in Partitions, NEW o \in Offsets(q), Handled(q, o)', ~Handled(q, o)
      PROVE  Below(q, o, Covered(q)')
  <2>1. Storable(q, o) /\ Key(q, o) \in KeysOf(p, s)
    BY <1>5 DEF Handled
  <2>2. PICK k \in DOMAIN s : Key(q, o) = Key(p, s[k])
    BY <2>1 DEF KeysOf
  <2>3. q = p /\ o = s[k]
    BY <1>1, <2>1, <2>2 DEF DistinctKeys, AllStorable
  <2>4. Below(p, s[k], Covered(p) \cup {s[j] : j \in 1..(k - 1)})
    BY DEF Queued
  <2>5. {s[j] : j \in 1..(k - 1)} \subseteq Covered(p)'
    BY <1>1, <1>2
  <2> QED
    BY <1>4, <2>3, <2>4, <2>5 DEF Below
<1> QED
  BY <1>5, OrderKept

(* A write to the DLQ topic, also by an instance that is shutting down: then *)
(* what is missing below the message was dropped.                            *)
LEMMA DeadLetterInOrder ==
  ASSUME Careful, HandledInOrder, NEW i \in Instances, NEW p \in Partitions,
         worker[i][p].pc = "dlq", DLQWriter, UNCHANGED <<db, faults>>,
         dlq' = dlq \cup {<<p, Head(worker[i][p].pending)>>}
  PROVE  HandledInOrder'
<1> DEFINE o == Head(worker[i][p].pending)
<1> USE DEF Careful
<1>1. o \in Offsets(p)
  BY WorkerFacts, HeadTailProperties DEF Shape
<1>2. faults["signal"] \in Nat /\ faults'["signal"] \in Nat
  BY DEF Inv, TypeOK, FaultKinds
<1>3. Covered(p) \subseteq Covered(p)'
  BY <1>2, CoveredGrows
<1>4. Below(p, o, Covered(p)')
  <2>1. CASE Decodable(p, o)
    BY <1>3, <2>1, WorkerFacts DEF Certain, Below
  <2>2. CASE ~Cancelled(i)
    BY <1>3, <2>2, HeadIsNext DEF Below
  <2>3. CASE ~Decodable(p, o) /\ Cancelled(i)
    <3>1. ctx[i] = "signalled"
      BY <2>3, WorkerFacts DEF Cancelled, Stopping, TypeOK
    <3>2. faults'["signal"] > 0
      BY <3>1, WorkerFacts DEF Stopping
    <3>3. \A n \in Offsets(p) : n < o => DroppedBehindFlush(p, n)'
      BY <1>1, <2>3, <3>2 DEF DroppedBehindFlush
    <3> QED
      BY <3>3 DEF Below, Covered
  <2> QED
    BY <2>1, <2>2, <2>3
<1>5. \A q \in Partitions : \A n \in Offsets(q) :
        Handled(q, n)' /\ ~Handled(q, n) => q = p /\ n = o
  BY DEF Handled
<1> QED
  BY <1>4, <1>5, OrderKept

(* The steps of flushBatch. *)
LEMMA FlushStepInOrder ==
  ASSUME Careful, HandledInOrder, DistinctKeys,
         NEW i \in Instances, NEW p \in Partitions, FlushStep(i, p)
  PROVE  HandledInOrder'
<1> DEFINE v == worker[i][p]
<1>1. v.batch \in Seq(Offsets(p))
  BY WorkerFacts DEF Careful
<1>2. ASSUME ~Cancelled(i)
      PROVE  Queued(p, v.batch, Covered(p))
  BY <1>2, WorkerFacts DEF Line, Careful
<1>3. CASE BulkAborted(i, p) \/ BulkCommitted(i, p) \/ BulkCommitFailed(i, p)
  BY <1>3, OrderUntouched DEF BulkAborted, BulkCommitted, BulkCommitFailed, external
<1>4. CASE BulkStored(i, p)
  BY <1>1, <1>2, <1>4, RowsInOrder DEF BulkStored
<1>5. CASE BulkFailed(i, p)
  <2>1. /\ ~Cancelled(i) /\ UNCHANGED dlq
        /\ db' = db \/ (AllStorable(p, v.batch) /\ db' = db \cup KeysOf(p, v.batch))
    BY <1>5 DEF BulkFailed, MaybeStored
  <2> QED
    BY <1>1, <1>2, <2>1, RowsInOrder, OrderUntouched
<1> QED
  BY <1>3, <1>4, <1>5 DEF FlushStep

(* The steps of handleMessage, whose message is the head of pending. *)
LEMMA MessageStepInOrder ==
  ASSUME Careful, HandledInOrder, DistinctKeys,
         NEW i \in Instances, NEW p \in Partitions, MessageStep(i, p)
  PROVE  HandledInOrder'
<1> DEFINE v == worker[i][p]
           o == Head(v.pending)
<1>1. v.pc \in {"handle", "dlq", "commit"}
  BY DEF MessageStep, Refused, MessageAborted, MessageStored, MessageFailed, RoutedToDLQ,
         DLQFailed, DLQFatal, MessageCommitted, MessageCommitFailed
<1>2. o \in Offsets(p)
  BY <1>1, WorkerFacts, HeadTailProperties DEF Shape, Careful
<1>3. <<o>> \in Seq(Offsets(p))
  BY <1>2
<1>4. ASSUME ~Cancelled(i)
      PROVE  Queued(p, <<o>>, Covered(p))
  <2>1. Below(p, o, Covered(p))
    BY <1>1, <1>4, HeadIsNext DEF Careful
  <2> QED
    BY <2>1 DEF Queued, Below
<1>5. CASE \/ Refused(i, p) \/ MessageAborted(i, p) \/ DLQFatal(i, p)
           \/ MessageCommitted(i, p) \/ MessageCommitFailed(i, p)
  BY <1>5, OrderUntouched
     DEF Refused, MessageAborted, DLQFatal, MessageCommitted, MessageCommitFailed, external
<1>6. CASE MessageStored(i, p)
  <2>1. ~Cancelled(i) /\ Storable(p, o) /\ db' = db \cup {Key(p, o)} /\ UNCHANGED dlq
    BY <1>6 DEF MessageStored
  <2>2. AllStorable(p, <<o>>) /\ KeysOf(p, <<o>>) = {Key(p, o)}
    BY <2>1 DEF AllStorable, KeysOf
  <2> QED
    BY <1>3, <1>4, <2>1, <2>2, RowsInOrder
<1>7. CASE MessageFailed(i, p)
  <2>1. /\ ~Cancelled(i) /\ UNCHANGED dlq
        /\ db' = db \/ (AllStorable(p, <<o>>) /\ db' = db \cup KeysOf(p, <<o>>))
    BY <1>7 DEF MessageFailed, MaybeStored
  <2> QED
    BY <1>3, <1>4, <2>1, RowsInOrder, OrderUntouched
<1>8. CASE RoutedToDLQ(i, p) \/ DLQFailed(i, p)
  <2>1. /\ v.pc = "dlq" /\ DLQWriter /\ UNCHANGED <<db, faults>>
        /\ dlq' = dlq \/ dlq' = dlq \cup {<<p, o>>}
    BY <1>8 DEF RoutedToDLQ, DLQFailed
  <2> QED
    BY <2>1, DeadLetterInOrder, OrderUntouched
<1> QED
  BY <1>5, <1>6, <1>7, <1>8 DEF MessageStep

(* No step of the group loses a row, a dead letter or a signal. *)
LEMMA StepsGrow ==
  ASSUME Inv, [Next]_vars
  PROVE  Grows
<1>1. CASE UNCHANGED vars
  BY <1>1 DEF vars, Grows, Inv, TypeOK, FaultKinds
<1>2. CASE Next
  <2> PICK i \in Instances :
        \/ Boot(i) \/ Signal(i) \/ Crash(i)
        \/ LoopStep(i)
        \/ \E p \in Partitions : Assign(p, i) \/ WorkerStep(i, p)
    BY <1>2 DEF Next
  <2>1. faults \in [FaultKinds -> Nat]
    BY DEF Inv, TypeOK
  <2>2. CASE Boot(i) \/ Signal(i) \/ Crash(i)
    <3>1. CASE Boot(i)
      BY <2>1, <3>1 DEF Boot, external, Grows, FaultKinds
    <3>2. CASE Signal(i)
      BY <2>1, <3>2 DEF Signal, Spend, external, Grows, FaultKinds
    <3>3. CASE Crash(i)
      BY <2>1, <3>3 DEF Crash, Spend, external, Grows, FaultKinds
    <3> QED
      BY <2>2, <3>1, <3>2, <3>3
  <2>3. CASE LoopStep(i)
    <3>1. UNCHANGED <<external, faults>>
      BY <2>3 DEF LoopStep, LoopReturns, Drained, DrainTimeout, CloseReader, Exit, Fetch, Dispatch
    <3> QED
      BY <2>1, <3>1 DEF external, Grows, FaultKinds
  <2>4. ASSUME NEW p \in Partitions, Assign(p, i)
        PROVE  Grows
    BY <2>1, <2>4 DEF Assign, Spend, external, Grows, FaultKinds
  <2>5. ASSUME NEW p \in Partitions, WorkerStep(i, p)
        PROVE  Grows
    <3>1. PICK w \in WorkerStates(Offsets(p)) : WorkerEffect(i, p, w)
      BY <2>5, WorkerFacts, StepsOfAWorker
    <3> QED
      BY <2>1, <3>1 DEF WorkerEffect, Grows, FaultKinds
  <2> QED
    BY <2>2, <2>3, <2>4, <2>5
<1> QED
  BY <1>1, <1>2

(* Every step of the group keeps the order. *)
LEMMA StepInOrder ==
  ASSUME Inv, HandledInOrder, DistinctKeys, [Next]_vars
  PROVE  HandledInOrder'
<1>1. Careful
  BY NextKeepsInv, StepsGrow DEF Careful
<1>2. CASE UNCHANGED vars
  BY <1>1, <1>2, OrderUntouched DEF vars
<1>3. CASE Next
  <2> PICK i \in Instances :
        \/ Boot(i) \/ Signal(i) \/ Crash(i)
        \/ LoopStep(i)
        \/ \E p \in Partitions : Assign(p, i) \/ WorkerStep(i, p)
    BY <1>3 DEF Next
  <2>1. CASE Boot(i) \/ Signal(i) \/ Crash(i)
    BY <1>1, <2>1, OrderUntouched DEF Boot, Signal, Crash, external
  <2>2. CASE LoopStep(i)
    BY <1>1, <2>2, OrderUntouched
       DEF LoopStep, LoopReturns, Drained, DrainTimeout, CloseReader, Exit, Fetch, Dispatch,
           external
  <2>3. ASSUME NEW p \in Partitions, Assign(p, i)
        PROVE  HandledInOrder'
    BY <1>1, <2>3, OrderUntouched DEF Assign, external
  <2>4. ASSUME NEW p \in Partitions, WorkerStep(i, p)
        PROVE  HandledInOrder'
    <3>1. CASE Receive(i, p) \/ ReceiveClosed(i, p) \/ Tick(i, p)
      BY <1>1, <3>1, OrderUntouched DEF Receive, ReceiveClosed, Tick, external
    <3> QED
      BY <1>1, <2>4, <3>1, FlushStepInOrder, MessageStepInOrder DEF WorkerStep
  <2> QED
    BY <2>1, <2>2, <2>3, <2>4
<1> QED
  BY <1>2, <1>3

(* Persistence keeps the order of a partition: whatever crashes, rebalances, *)
(* retries and shutdowns do, no message is stored or dead-lettered while an  *)
(* earlier one of its partition is neither, nor dropped by a shutdown.       *)
THEOREM HandledInOrderHolds ==
  ASSUME DistinctKeys
  PROVE  Spec => []HandledInOrder
<1>1. Init => HandledInOrder
  BY DEF Init, HandledInOrder, Handled
<1>2. Inv /\ HandledInOrder /\ [Next]_vars => HandledInOrder'
  BY StepInOrder
<1> QED
  BY <1>1, <1>2, Invariance, PTL DEF Spec

----------------------------------------------------------------------------
(***************************************************************************)
(* What reaches the dead letter queue when the service itself never fails: *)
(* only messages that no retry could store.  A batch that PostgreSQL       *)
(* refuses because of one row falls back to its messages one at a time, so *)
(* the good rows next to the bad one are stored.                           *)
(***************************************************************************)

(* A message on its way to the DLQ cannot be stored either. *)
OnlyBadMessagesRouted ==
  \A i \in Instances, p \in Partitions :
    worker[i][p].pc = "dlq" => ~Storable(p, Head(worker[i][p].pending))

Blameless == OnlyBadMessagesDeadLettered /\ OnlyBadMessagesRouted

(* Workers that are not on their way to the DLQ, or were before, change nothing. *)
LEMMA NothingRouted ==
  ASSUME Blameless, UNCHANGED dlq,
         \A i \in Instances, p \in Partitions :
           worker'[i][p].pc = "dlq" => worker'[i][p] = worker[i][p]
  PROVE  Blameless'
BY DEF Blameless, OnlyBadMessagesDeadLettered, OnlyBadMessagesRouted, Storable

(* The step of one worker that leaves it elsewhere than before the DLQ. *)
LEMMA WorkerGoesElsewhere ==
  ASSUME Inv, Blameless, NEW i \in Instances, NEW p \in Partitions,
         NEW w, Become(i, p, w), w.pc # "dlq" \/ w = worker[i][p], UNCHANGED dlq
  PROVE  Blameless'
<1>1. \A j \in Instances, q \in Partitions :
        worker'[j][q] = IF j = i /\ q = p THEN w ELSE worker[j][q]
  BY DEF Inv, TypeOK, Become
<1> QED
  BY <1>1, NothingRouted

(* Fetching, batching and flushing dead-letter nothing. *)
LEMMA NoDeadLetterFromBatch ==
  ASSUME Inv, Blameless, NEW i \in Instances, NEW p \in Partitions,
         \/ Receive(i, p) \/ ReceiveClosed(i, p) \/ Tick(i, p) \/ FlushStep(i, p)
  PROVE  Blameless'
<1> DEFINE v == worker[i][p]
<1>1. v \in WorkerStates(Offsets(p))
  BY WorkerFacts
<1>2. UNCHANGED dlq
  BY DEF Receive, ReceiveClosed, Tick, FlushStep, BulkAborted, BulkStored, BulkFailed,
         BulkCommitted, BulkCommitFailed, external
<1>3. AfterFlush(v).pc # "dlq" /\ FallBack(v).pc # "dlq"
  BY <1>1 DEF AfterFlush, FallBack, WorkerStates
<1>4. CASE Receive(i, p)
  <2>1. PICK w : /\ Become(i, p, w)
                 /\ \/ w = [v EXCEPT !.pc = "exited"]
                    \/ w = [v EXCEPT !.pc = IF v.batch = <<>> THEN "handle" ELSE "bulk",
                                     !.pending = <<Head(chan[i][p])>>]
                    \/ w = [v EXCEPT !.pc = IF Len(v.batch) + 1 < BatchSize THEN "select" ELSE "bulk",
                                     !.batch = Append(v.batch, Head(chan[i][p]))]
    BY <1>4 DEF Receive
  <2>2. w.pc # "dlq"
    BY <1>1, <2>1 DEF WorkerStates
  <2> QED
    BY <1>2, <2>1, <2>2, WorkerGoesElsewhere
<1>5. CASE ReceiveClosed(i, p) \/ Tick(i, p)
  <2>1. PICK w : Become(i, p, w) /\ (w = [v EXCEPT !.pc = "exited"] \/ w = [v EXCEPT !.pc = "bulk"])
    BY <1>5 DEF ReceiveClosed, Tick
  <2>2. w.pc # "dlq"
    BY <1>1, <2>1 DEF WorkerStates
  <2> QED
    BY <1>2, <2>1, <2>2, WorkerGoesElsewhere
<1>6. CASE FlushStep(i, p)
  <2>1. PICK w : /\ Become(i, p, w) /\ v.pc \in {"bulk", "bulkCommit"}
                 /\ \/ w \in {AfterFlush(v), FallBack(v), v}
                    \/ w = [v EXCEPT !.pc = "bulkCommit"]
                    \/ w = [v EXCEPT !.attempt = @ + 1]
    BY <1>6 DEF FlushStep, BulkAborted, BulkStored, BulkFailed, BulkCommitted, BulkCommitFailed
  <2>2. w.pc # "dlq"
    BY <1>1, <1>3, <2>1 DEF WorkerStates
  <2> QED
    BY <1>2, <2>1, <2>2, WorkerGoesElsewhere
<1> QED
  BY <1>4, <1>5, <1>6

(* The steps of handleMessage only route what cannot be stored: without      *)
(* errors of the service an attempt fails for a row PostgreSQL refuses.      *)
LEMMA OnlyBadFromMessage ==
  ASSUME Inv, Blameless, ServiceErrors = {},
         NEW i \in Instances, NEW p \in Partitions, MessageStep(i, p)
  PROVE  Blameless'
<1> DEFINE v == worker[i][p]
           o == Head(v.pending)
<1>1. v \in WorkerStates(Offsets(p))
  BY WorkerFacts
<1>2. \A w : Become(i, p, w) =>
        \A j \in Instances, q \in Partitions :
          worker'[j][q] = IF j = i /\ q = p THEN w ELSE worker[j][q]
  BY DEF Inv, TypeOK, Become
<1>3. AfterMessage(v).pc # "dlq"
  BY <1>1 DEF AfterMessage, WorkerStates
<1>4. ASSUME NEW w, Become(i, p, w), w.pending = v.pending, ~Storable(p, o), UNCHANGED dlq
      PROVE  Blameless'
  BY <1>2, <1>4 DEF Blameless, OnlyBadMessagesDeadLettered, OnlyBadMessagesRouted, Storable
<1>5. CASE Refused(i, p)
  <2>1. Become(i, p, [v EXCEPT !.pc = "dlq", !.cause = "Refused"]) /\ UNCHANGED dlq
    BY <1>5 DEF Refused, external
  <2>2. ~Storable(p, o)
    BY <1>5 DEF Refused, Decodable, Storable
  <2>3. [v EXCEPT !.pc = "dlq", !.cause = "Refused"].pending = v.pending
    BY <1>1 DEF WorkerStates
  <2> QED
    BY <1>4, <2>1, <2>2, <2>3
<1>6. CASE MessageFailed(i, p)
  <2>1. PICK e \in Errors(p, <<o>>) :
          Become(i, p, IF Retryable(e) /\ v.attempt < MaxProcessRetries
                       THEN [v EXCEPT !.attempt = @ + 1]
                       ELSE [v EXCEPT !.pc = "dlq", !.cause = e])
    BY <1>6 DEF MessageFailed
  <2>2. ~Storable(p, o)
    BY <2>1 DEF Errors, AllStorable
  <2>3. /\ [v EXCEPT !.attempt = @ + 1].pending = v.pending
        /\ [v EXCEPT !.pc = "dlq", !.cause = e].pending = v.pending
    BY <1>1 DEF WorkerStates
  <2> QED
    BY <1>4, <1>6, <2>1, <2>2, <2>3 DEF MessageFailed
<1>7. CASE MessageAborted(i, p) \/ MessageStored(i, p) \/ DLQFatal(i, p)
           \/ MessageCommitted(i, p) \/ MessageCommitFailed(i, p)
  <2>1. PICK w : /\ Become(i, p, w) /\ UNCHANGED dlq
                 /\ w \in {AfterMessage(v), v} \/ w = [v EXCEPT !.pc = "commit"]
    BY <1>7 DEF MessageAborted, MessageStored, DLQFatal, MessageCommitted, MessageCommitFailed,
                external
  <2>2. w.pc # "dlq" \/ w = v
    BY <1>1, <1>3, <2>1 DEF WorkerStates
  <2> QED
    BY <2>1, <2>2, WorkerGoesElsewhere
<1>8. CASE RoutedToDLQ(i, p) \/ DLQFailed(i, p)
  <2>1. PICK w : /\ Become(i, p, w)
                 /\ w \in {AfterMessage(v), v} \/ w = [v EXCEPT !.pc = "commit"]
    BY <1>8 DEF RoutedToDLQ, DLQFailed
  <2>2. w.pc # "dlq" \/ w = v
    BY <1>1, <1>3, <2>1 DEF WorkerStates
  <2>3. v.pc = "dlq" /\ (dlq' = dlq \/ dlq' = dlq \cup {<<p, o>>})
    BY <1>8 DEF RoutedToDLQ, DLQFailed
  <2>4. ~Storable(p, o)
    BY <2>3 DEF Blameless, OnlyBadMessagesRouted
  <2>5. OnlyBadMessagesDeadLettered'
    BY <2>3, <2>4 DEF Blameless, OnlyBadMessagesDeadLettered, Storable
  <2>6. OnlyBadMessagesRouted'
    BY <1>2, <2>1, <2>2 DEF Blameless, OnlyBadMessagesRouted, Storable
  <2> QED
    BY <2>5, <2>6 DEF Blameless
<1> QED
  BY <1>5, <1>6, <1>7, <1>8 DEF MessageStep

(* The lifecycle, the group and the fetch loop touch no worker's message. *)
LEMMA NoDeadLetterFromLoop ==
  ASSUME Inv, Blameless, NEW i \in Instances,
         \/ Boot(i) \/ Signal(i) \/ Crash(i) \/ LoopStep(i)
         \/ \E p \in Partitions : Assign(p, i)
  PROVE  Blameless'
<1>1. worker \in [Instances -> [Partitions -> WorkerStates(Nat)]]
  BY DEF Inv, TypeOK
<1>2. UNCHANGED dlq
  BY DEF Boot, Signal, Crash, LoopStep, LoopReturns, Drained, DrainTimeout, CloseReader, Exit,
         Fetch, Dispatch, Assign, external
<1>3. CASE UNCHANGED worker
  BY <1>2, <1>3, NothingRouted
<1>4. CASE Crash(i) \/ Exit(i)
  <2>1. \A j \in Instances, q \in Partitions : worker'[j][q] \in {worker[j][q], NoWorker}
    BY <1>1, <1>4 DEF Crash, Exit, Forget
  <2>2. NoWorker.pc # "dlq"
    BY DEF NoWorker
  <2> QED
    BY <1>2, <2>1, <2>2, NothingRouted
<1>5. ASSUME NEW p \in Partitions, Dispatch(i, p)
      PROVE  Blameless'
  <2>1. worker' = [worker EXCEPT ![i][p].pc = IF @ = "absent" THEN "select" ELSE @]
    BY <1>5 DEF Dispatch
  <2>2. \A j \in Instances, q \in Partitions :
          worker'[j][q] = worker[j][q] \/ worker'[j][q].pc = "select"
    BY <1>1, <2>1 DEF WorkerStates
  <2> QED
    BY <1>2, <2>2, NothingRouted
<1> QED
  BY <1>3, <1>4, <1>5
     DEF Boot, Signal, LoopStep, LoopReturns, Drained, DrainTimeout, CloseReader, Fetch, Assign

(* Where the calls of the service do not fail by themselves, every message   *)
(* in the dead letter queue is one that cannot be stored: neither a restart, *)
(* a rebalance, a shutdown nor a bad neighbour in its batch sends a good one *)
(* there.                                                                    *)
THEOREM OnlyBadMessagesDeadLetteredHolds ==
  ASSUME ServiceErrors = {}
  PROVE  Spec => []OnlyBadMessagesDeadLettered
<1>1. Init => Blameless
  BY DEF Init, Blameless, OnlyBadMessagesDeadLettered, OnlyBadMessagesRouted, NoWorker
<1>2. Inv /\ Blameless /\ [Next]_vars => Blameless'
  <2> SUFFICES ASSUME Inv, Blameless, [Next]_vars PROVE Blameless'
    OBVIOUS
  <2>1. CASE UNCHANGED vars
    BY <2>1, NothingRouted DEF vars
  <2>2. CASE Next
    BY <2>2, NoDeadLetterFromLoop, NoDeadLetterFromBatch, OnlyBadFromMessage
       DEF Next, WorkerStep
  <2> QED
    BY <2>1, <2>2
<1>3. Blameless => OnlyBadMessagesDeadLettered
  BY DEF Blameless
<1> QED
  BY <1>1, <1>2, <1>3, Invariance, PTL DEF Spec

----------------------------------------------------------------------------
(***************************************************************************)
(* The consumer implements Ledger wherever its shutdown cannot drop a      *)
(* batch: for a topic every message of which decodes, without a DLQ        *)
(* writer, or as long as no instance is told to stop.                      *)
(***************************************************************************)

(* The conditions under which flush() loses nothing in front of a message. *)
NothingDropped == AllDecodable \/ ~DLQWriter \/ MaxFaults["signal"] = 0

(* What the invariant finds covered, Ledger finds settled. *)
LEMMA CoveredIsSettled ==
  ASSUME Inv, NothingDropped, NEW p \in Partitions
  PROVE  \A n \in Covered(p) : Promise!Settled(p, n)
<1>1. \A n \in Offsets(p) : ~DroppedBehindFlush(p, n)
  <2>1. CASE AllDecodable
    BY <2>1 DEF AllDecodable, DroppedBehindFlush
  <2>2. CASE ~DLQWriter
    BY <2>2 DEF Inv, DroppedBehindFlush
  <2>3. CASE MaxFaults["signal"] = 0
    BY <2>3 DEF Inv, TypeOK, FaultKinds, DroppedBehindFlush
  <2> QED
    BY <2>1, <2>2, <2>3 DEF NothingDropped
<1> QED
  BY <1>1 DEF Covered, Handled, Storable, Key, Promise!Settled, Promise!Storable, Promise!Key

(* Ledger may settle what stands, or acknowledge, above covered offsets only. *)
LEMMA BelowIsSettled ==
  ASSUME Inv, NothingDropped, NEW p \in Partitions, NEW o, Below(p, o, Covered(p))
  PROVE  Promise!SettledBelow(p, o, {})
BY CoveredIsSettled DEF Below, Offsets, Promise!SettledBelow, Promise!Offsets

(* An INSERT whose messages queue up behind what is covered is a Store. *)
LEMMA RowsAreStored ==
  ASSUME Inv, NothingDropped, NEW p \in Partitions, NEW s \in Seq(Offsets(p)),
         AllStorable(p, s), Queued(p, s, Covered(p)),
         db' = db \cup KeysOf(p, s), UNCHANGED <<dlq, committed>>
  PROVE  Promise!Next
<1>1. DOMAIN s = 1..Len(s) /\ Len(s) \in Nat /\ \A k \in DOMAIN s : s[k] \in Offsets(p)
  BY LenProperties, ElementOfSeq
<1>2. Range(s) \in SUBSET Offsets(p)
  BY <1>1 DEF Range
<1>3. ASSUME NEW o \in Range(s)
      PROVE  Storable(p, o) /\ Promise!SettledBelow(p, o, Range(s))
  <2>1. PICK k \in DOMAIN s : o = s[k]
    BY DEF Range
  <2> DEFINE T == {s[j] : j \in 1..(k - 1)}
  <2>2. Below(p, o, Covered(p) \cup T)
    BY <2>1 DEF Queued
  <2>3. T \subseteq Range(s)
    BY <1>1 DEF Range
  <2>4. Promise!SettledBelow(p, o, Range(s))
    BY <2>2, <2>3, CoveredIsSettled DEF Below, Offsets, Promise!SettledBelow, Promise!Offsets
  <2> QED
    BY <2>1, <2>4 DEF AllStorable
<1>4. KeysOf(p, s) = {Key(p, o) : o \in Range(s)}
  BY DEF KeysOf, Range
<1>5. Promise!Store(p, Range(s))
  BY <1>3, <1>4 DEF Storable, Key, Promise!Store, Promise!Storable, Promise!Key
<1> QED
  BY <1>2, <1>5 DEF Offsets, Promise!Offsets, Promise!Next

(* A write to the DLQ topic with nothing missing below it is a PutAside. *)
LEMMA DeadLetterIsPutAside ==
  ASSUME Inv, NothingDropped, NEW i \in Instances, NEW p \in Partitions,
         worker[i][p].pc = "dlq", DLQWriter,
         dlq' = dlq \cup {<<p, Head(worker[i][p].pending)>>}, UNCHANGED <<db, committed>>
  PROVE  Promise!Next
<1> DEFINE o == Head(worker[i][p].pending)
<1>1. o \in Offsets(p)
  BY WorkerFacts, HeadTailProperties DEF Shape
<1>2. Below(p, o, Covered(p))
  <2>1. CASE Decodable(p, o)
    BY <2>1, WorkerFacts DEF Certain
  <2>2. CASE ~Cancelled(i)
    BY <2>2, HeadIsNext
  <2>3. CASE ~Decodable(p, o) /\ Cancelled(i)
    <3>1. MaxFaults["signal"] = 0
      BY <1>1, <2>3 DEF NothingDropped, AllDecodable
    <3>2. ctx[i] = "signalled"
      BY <2>3, WorkerFacts DEF Cancelled, Stopping, TypeOK
    <3>3. faults["signal"] > 0
      BY <3>2, WorkerFacts DEF Stopping
    <3> QED
      BY <3>1, <3>3, WorkerFacts DEF Inv
  <2> QED
    BY <2>1, <2>2, <2>3
<1>3. Promise!PutAside(p, o)
  BY <1>2, BelowIsSettled DEF Promise!PutAside
<1> QED
  BY <1>1, <1>3 DEF Offsets, Promise!Offsets, Promise!Next

(* A commit of handled messages with nothing missing below is an Acknowledge. *)
LEMMA CommitIsAcknowledged ==
  ASSUME Inv, NothingDropped, NEW p \in Partitions, NEW s \in Seq(Offsets(p)),
         CommitOffset(p, s), UNCHANGED <<db, dlq>>,
         \A o \in Range(s) : Handled(p, o) /\ Below(p, o, Covered(p))
  PROVE  Promise!Next
<1>1. PICK last \in DOMAIN s : committed' = [committed EXCEPT ![p] = s[last] + 1]
  BY DEF CommitOffset
<1> DEFINE o == s[last]
<1>2. o \in Range(s) /\ o \in Offsets(p)
  BY LenProperties, ElementOfSeq DEF Range
<1>3. \A n \in Offsets(p) : n < o + 1 => n < o \/ n = o
  BY <1>2, OffsetsAreNumbers
<1>4. Below(p, o + 1, Covered(p))
  BY <1>2, <1>3 DEF Below, Covered
<1>5. Promise!Acknowledge(p, o)
  BY <1>1, <1>4, BelowIsSettled DEF Promise!Acknowledge
<1> QED
  BY <1>2, <1>5 DEF Offsets, Promise!Offsets, Promise!Next

(* The steps of flushBatch: an INSERT stores, a commit acknowledges. *)
LEMMA FlushStepIsPromised ==
  ASSUME Inv, NothingDropped, NEW i \in Instances, NEW p \in Partitions, FlushStep(i, p)
  PROVE  Promise!Next \/ UNCHANGED external
<1> DEFINE v == worker[i][p]
<1>1. v.batch \in Seq(Offsets(p))
  BY WorkerFacts
<1>2. ASSUME ~Cancelled(i)
      PROVE  Queued(p, v.batch, Covered(p))
  BY <1>2, WorkerFacts DEF Line
<1>3. CASE BulkAborted(i, p)
  BY <1>3 DEF BulkAborted
<1>4. CASE BulkStored(i, p)
  BY <1>1, <1>2, <1>4, RowsAreStored DEF BulkStored
<1>5. CASE BulkFailed(i, p)
  <2>1. /\ ~Cancelled(i) /\ UNCHANGED <<dlq, committed>>
        /\ db' = db \/ (AllStorable(p, v.batch) /\ db' = db \cup KeysOf(p, v.batch))
    BY <1>5 DEF BulkFailed, MaybeStored
  <2> QED
    BY <1>1, <1>2, <2>1, RowsAreStored DEF external
<1>6. CASE BulkCommitted(i, p) \/ BulkCommitFailed(i, p)
  <2>1. /\ v.pc = "bulkCommit" /\ UNCHANGED <<db, dlq>>
        /\ UNCHANGED committed \/ CommitOffset(p, v.batch)
    BY <1>6 DEF BulkCommitted, BulkCommitFailed, MaybeCommitted
  <2>2. \A o \in Range(v.batch) : Handled(p, o) /\ Below(p, o, Covered(p))
    BY <2>1, WorkerFacts DEF Certain
  <2> QED
    BY <1>1, <2>1, <2>2, CommitIsAcknowledged DEF external
<1> QED
  BY <1>3, <1>4, <1>5, <1>6 DEF FlushStep

(* The steps of handleMessage, whose message is the head of pending. *)
LEMMA MessageStepIsPromised ==
  ASSUME Inv, NothingDropped, NEW i \in Instances, NEW p \in Partitions, MessageStep(i, p)
  PROVE  Promise!Next \/ UNCHANGED external
<1> DEFINE v == worker[i][p]
           o == Head(v.pending)
<1>1. v.pc \in {"handle", "dlq", "commit"}
  BY DEF MessageStep, Refused, MessageAborted, MessageStored, MessageFailed, RoutedToDLQ,
         DLQFailed, DLQFatal, MessageCommitted, MessageCommitFailed
<1>2. o \in Offsets(p)
  BY <1>1, WorkerFacts, HeadTailProperties DEF Shape
<1>3. <<o>> \in Seq(Offsets(p)) /\ Range(<<o>>) = {o}
  BY <1>2 DEF Range
<1>4. ASSUME ~Cancelled(i)
      PROVE  Queued(p, <<o>>, Covered(p))
  <2>1. Below(p, o, Covered(p))
    BY <1>1, <1>4, HeadIsNext
  <2> QED
    BY <2>1 DEF Queued, Below
<1>5. CASE Refused(i, p) \/ MessageAborted(i, p)
  BY <1>5 DEF Refused, MessageAborted
<1>6. CASE MessageStored(i, p)
  <2>1. /\ ~Cancelled(i) /\ Storable(p, o) /\ db' = db \cup {Key(p, o)}
        /\ UNCHANGED <<dlq, committed>>
    BY <1>6 DEF MessageStored
  <2>2. AllStorable(p, <<o>>) /\ KeysOf(p, <<o>>) = {Key(p, o)}
    BY <2>1 DEF AllStorable, KeysOf
  <2> QED
    BY <1>3, <1>4, <2>1, <2>2, RowsAreStored
<1>7. CASE MessageFailed(i, p)
  <2>1. /\ ~Cancelled(i) /\ UNCHANGED <<dlq, committed>>
        /\ db' = db \/ (AllStorable(p, <<o>>) /\ db' = db \cup KeysOf(p, <<o>>))
    BY <1>7 DEF MessageFailed, MaybeStored
  <2> QED
    BY <1>3, <1>4, <2>1, RowsAreStored DEF external
<1>8. CASE RoutedToDLQ(i, p) \/ DLQFailed(i, p)
  <2>1. /\ v.pc = "dlq" /\ DLQWriter /\ UNCHANGED <<db, committed>>
        /\ dlq' = dlq \/ dlq' = dlq \cup {<<p, o>>}
    BY <1>8 DEF RoutedToDLQ, DLQFailed
  <2> QED
    BY <2>1, DeadLetterIsPutAside DEF external
<1>9. CASE DLQFatal(i, p)
  BY <1>9 DEF DLQFatal
<1>10. CASE MessageCommitted(i, p) \/ MessageCommitFailed(i, p)
  <2>1. /\ v.pc = "commit" /\ UNCHANGED <<db, dlq>>
        /\ UNCHANGED committed \/ CommitOffset(p, <<o>>)
    BY <1>10 DEF MessageCommitted, MessageCommitFailed, MaybeCommitted
  <2>2. Handled(p, o) /\ Below(p, o, Covered(p))
    BY <2>1, WorkerFacts DEF Certain
  <2> QED
    BY <1>3, <2>1, <2>2, CommitIsAcknowledged DEF external
<1> QED
  BY <1>5, <1>6, <1>7, <1>8, <1>9, <1>10 DEF MessageStep

(* Every step of the group is a step of Ledger or leaves its state alone. *)
LEMMA StepIsPromised ==
  ASSUME Inv, NothingDropped, [Next]_vars
  PROVE  [Promise!Next]_external
<1>1. CASE UNCHANGED vars
  BY <1>1 DEF vars, external
<1>2. CASE Next
  <2> PICK i \in Instances :
        \/ Boot(i) \/ Signal(i) \/ Crash(i)
        \/ LoopStep(i)
        \/ \E p \in Partitions : Assign(p, i) \/ WorkerStep(i, p)
    BY <1>2 DEF Next
  <2>1. CASE Boot(i) \/ Signal(i) \/ Crash(i)
    BY <2>1 DEF Boot, Signal, Crash
  <2>2. CASE LoopStep(i)
    BY <2>2 DEF LoopStep, LoopReturns, Drained, DrainTimeout, CloseReader, Exit, Fetch, Dispatch
  <2>3. ASSUME NEW p \in Partitions, Assign(p, i)
        PROVE  UNCHANGED external
    BY <2>3 DEF Assign
  <2>4. ASSUME NEW p \in Partitions, WorkerStep(i, p)
        PROVE  Promise!Next \/ UNCHANGED external
    <3>1. CASE Receive(i, p) \/ ReceiveClosed(i, p) \/ Tick(i, p)
      BY <3>1 DEF Receive, ReceiveClosed, Tick
    <3> QED
      BY <2>4, <3>1, FlushStepIsPromised, MessageStepIsPromised DEF WorkerStep
  <2> QED
    BY <2>1, <2>2, <2>3, <2>4
<1> QED
  BY <1>1, <1>2

(* The consumer group keeps the promise of Ledger: messages of a partition   *)
(* are settled in order, each INSERT and dead letter leaves no gap, and an   *)
(* offset is acknowledged only when all below it are settled, whatever       *)
(* crashes, rebalances, timeouts and lost answers do.                        *)
THEOREM ConsumerKeepsPromise ==
  ASSUME NothingDropped
  PROVE  Spec => KeepsPromise
<1>1. Init => Promise!Init
  BY DEF Init, Promise!Init
<1>2. Inv /\ [Next]_vars => [Promise!Next]_external
  BY StepIsPromised
<1> QED
  BY <1>1, <1>2, Invariance, PTL DEF Spec, KeepsPromise, Promise!Spec, external
=============================================================================
