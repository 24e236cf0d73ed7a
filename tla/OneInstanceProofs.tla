------------------------- MODULE OneInstanceProofs -------------------------
(***************************************************************************)
(* What is true of one instance that no rebalance strikes, for every topic *)
(* and every size of batch and channel, through crashes, restarts, lost    *)
(* answers and shutdowns: its line is a run of consecutive offsets.        *)
(***************************************************************************)
EXTENDS ConsumerProofs

OneInstance ==
  /\ \A i, j \in Instances : i = j
  /\ MaxFaults["rebalance"] = 0

----------------------------------------------------------------------------
(* Runs of offsets. *)

LEMMA RunOfNothing ==
  ASSUME NEW n
  PROVE  Run(<<>>, n)
BY DEF Run

(* The head of a run that ends below n lies its length below n. *)
LEMMA RunOfTail ==
  ASSUME NEW s \in Seq(Nat), s # <<>>, NEW n \in Int, Run(s, n)
  PROVE  Run(Tail(s), n) /\ Head(s) = n - Len(s)
<1>1. DOMAIN s = 1..Len(s) /\ Len(s) \in Nat \ {0}
  BY LenProperties, EmptySeq
<1>2. /\ DOMAIN Tail(s) = 1..(Len(s) - 1) /\ Len(Tail(s)) = Len(s) - 1
      /\ \A k \in 1..(Len(s) - 1) : Tail(s)[k] = s[k + 1]
  BY HeadTailProperties, LenProperties
<1>3. Head(s) = s[1]
  OBVIOUS
<1>4. \A k \in 1..Len(s) : s[k] = n - Len(s) + k - 1
  BY <1>1 DEF Run
<1>5. ASSUME NEW k \in 1..(Len(s) - 1)
      PROVE  Tail(s)[k] = n - (Len(s) - 1) + k - 1
  <2>1. k + 1 \in 1..Len(s) /\ Tail(s)[k] = s[k + 1]
    BY <1>1, <1>2
  <2>2. s[k + 1] = n - Len(s) + (k + 1) - 1
    BY <1>4, <2>1
  <2> QED
    BY <1>1, <2>1, <2>2
<1>6. s[1] = n - Len(s)
  BY <1>1, <1>4
<1> QED
  BY <1>2, <1>3, <1>5, <1>6 DEF Run

LEMMA RunOfAppend ==
  ASSUME NEW s \in Seq(Nat), NEW n \in Nat, Run(s, n)
  PROVE  Run(Append(s, n), n + 1)
<1>1. DOMAIN s = 1..Len(s) /\ Len(s) \in Nat
  BY LenProperties
<1>2. /\ DOMAIN Append(s, n) = 1..(Len(s) + 1) /\ Len(Append(s, n)) = Len(s) + 1
      /\ \A k \in 1..Len(s) : Append(s, n)[k] = s[k]
      /\ Append(s, n)[Len(s) + 1] = n
  BY AppendProperties, LenProperties
<1> QED
  BY <1>1, <1>2 DEF Run

LEMMA RunOfConcat ==
  ASSUME NEW s \in Seq(Nat), NEW t \in Seq(Nat), NEW n \in Int,
         Run(t, n), Run(s, n - Len(t))
  PROVE  Run(s \o t, n)
<1>1. /\ DOMAIN s = 1..Len(s) /\ Len(s) \in Nat
      /\ DOMAIN t = 1..Len(t) /\ Len(t) \in Nat
  BY LenProperties
<1>2. /\ DOMAIN (s \o t) = 1..(Len(s) + Len(t)) /\ Len(s \o t) = Len(s) + Len(t)
      /\ \A k \in 1..(Len(s) + Len(t)) :
           (s \o t)[k] = IF k <= Len(s) THEN s[k] ELSE t[k - Len(s)]
  BY ConcatProperties, LenProperties
<1>3. ASSUME NEW k \in 1..(Len(s) + Len(t))
      PROVE  (s \o t)[k] = n - (Len(s) + Len(t)) + k - 1
  <2>1. CASE k <= Len(s)
    <3>1. k \in 1..Len(s) /\ (s \o t)[k] = s[k]
      BY <1>1, <1>2, <2>1
    <3>2. s[k] = n - Len(t) - Len(s) + k - 1
      BY <1>1, <3>1 DEF Run
    <3>3. n - Len(t) - Len(s) + k - 1 = n - (Len(s) + Len(t)) + k - 1
      BY <1>1
    <3> QED
      BY <3>1, <3>2, <3>3
  <2>2. CASE k > Len(s)
    <3> DEFINE j == k - Len(s)
    <3>1. j \in 1..Len(t) /\ (s \o t)[k] = t[j]
      BY <1>1, <1>2, <2>2
    <3>2. t[j] = n - Len(t) + j - 1
      BY <1>1, <3>1 DEF Run
    <3>3. n - Len(t) + j - 1 = n - (Len(s) + Len(t)) + k - 1
      BY <1>1
    <3> QED
      BY <3>1, <3>2, <3>3
  <2> QED
    BY <1>1, <2>1, <2>2
<1> QED
  BY <1>2, <1>3 DEF Run

(* The largest offset of a run is its last, one below its end. *)
LEMMA LargestOfRun ==
  ASSUME NEW s \in Seq(Nat), s # <<>>, NEW n \in Int, Run(s, n)
  PROVE  /\ s[Len(s)] = n - 1
         /\ \A last \in DOMAIN s : (\A k \in DOMAIN s : s[k] <= s[last]) => s[last] = n - 1
<1>1. DOMAIN s = 1..Len(s) /\ Len(s) \in Nat \ {0}
  BY LenProperties, EmptySeq
<1>2. s[Len(s)] = n - 1
  BY <1>1 DEF Run
<1>3. ASSUME NEW last \in DOMAIN s, \A k \in DOMAIN s : s[k] <= s[last]
      PROVE  s[last] = n - 1
  <2>1. s[Len(s)] <= s[last] /\ s[last] = n - Len(s) + last - 1 /\ last \in 1..Len(s)
    BY <1>1, <1>3 DEF Run
  <2> QED
    BY <1>1, <1>2, <2>1
<1> QED
  BY <1>2, <1>3

LEMMA RangeOfConcat ==
  ASSUME NEW s \in Seq(Nat), NEW t \in Seq(Nat)
  PROVE  Range(s \o t) \subseteq Range(s) \cup Range(t)
<1>1. /\ DOMAIN s = 1..Len(s) /\ Len(s) \in Nat
      /\ DOMAIN t = 1..Len(t) /\ Len(t) \in Nat
  BY LenProperties
<1>2. /\ DOMAIN (s \o t) = 1..(Len(s) + Len(t))
      /\ \A k \in 1..(Len(s) + Len(t)) :
           (s \o t)[k] = IF k <= Len(s) THEN s[k] ELSE t[k - Len(s)]
  BY ConcatProperties, LenProperties
<1>3. ASSUME NEW k \in 1..(Len(s) + Len(t))
      PROVE  (s \o t)[k] \in Range(s) \cup Range(t)
  <2>1. CASE k <= Len(s)
    <3>1. k \in DOMAIN s /\ (s \o t)[k] = s[k]
      BY <1>1, <1>2, <2>1
    <3> QED
      BY <3>1 DEF Range
  <2>2. CASE k > Len(s)
    <3> DEFINE j == k - Len(s)
    <3>1. j \in DOMAIN t /\ (s \o t)[k] = t[j]
      BY <1>1, <1>2, <2>2
    <3> HIDE DEF j
    <3> QED
      BY <3>1 DEF Range
  <2> QED
    BY <1>1, <2>1, <2>2
<1> QED
  BY <1>2, <1>3 DEF Range

----------------------------------------------------------------------------
(* What a step of a worker makes of its run. *)

(* The offsets a worker of partition p holds are a sequence of numbers. *)
LEMMA WorkTypes ==
  ASSUME NEW p \in Partitions, NEW w \in WorkerStates(Offsets(p))
  PROVE  /\ w.batch \in Seq(Nat) /\ w.pending \in Seq(Nat)
         /\ Len(w.batch) \in Nat /\ Len(w.pending) \in Nat
         /\ Committing(w) \in Nat
<1>1. w.batch \in Seq(Nat) /\ w.pending \in Seq(Nat)
  BY WorkerOfNumbers DEF WorkerStates
<1>2. Len(w.batch) \in Nat /\ Len(w.pending) \in Nat
  BY <1>1, LenProperties
<1> QED
  BY <1>1, <1>2 DEF Committing

(* A run that is not empty ends where its last offset says. *)
LEMMA WorkEnds ==
  ASSUME NEW p \in Partitions, NEW w \in WorkerStates(Offsets(p)), Shape(w),
         NEW n \in Int, NEW c \in Nat, Works(w, n, c)
  PROVE  End(w, c) \in Int /\ Works(w, End(w, c), c)
<1>1. w.batch \in Seq(Nat) /\ w.pending \in Seq(Nat)
  BY WorkTypes
<1>2. CASE w.pending # <<>>
  <2>1. w.pending[Len(w.pending)] = n - 1
    BY <1>1, <1>2, LargestOfRun DEF Works
  <2> QED
    BY <1>2, <2>1 DEF End
<1>3. CASE w.pending = <<>> /\ w.batch # <<>>
  <2>1. Len(w.pending) = 0 /\ n - 0 = n
    BY <1>3
  <2>2. Run(w.batch, n)
    BY <2>1 DEF Works
  <2>3. w.batch[Len(w.batch)] = n - 1
    BY <1>1, <1>3, <2>2, LargestOfRun
  <2> QED
    BY <1>3, <2>3 DEF End
<1>4. CASE w.pending = <<>> /\ w.batch = <<>>
  <2>1. Len(w.pending) = 0 /\ Len(w.batch) = 0
    BY <1>4
  <2>2. Committing(w) = 0
    BY <1>4 DEF Shape, Committing, WorkerStates
  <2> QED
    BY <1>4, <2>1, <2>2, RunOfNothing DEF Works, First, End
<1> QED
  BY <1>2, <1>3, <1>4

(* A worker that goes on with the same messages. *)
LEMMA WorkGoesOn ==
  ASSUME NEW p \in Partitions,
         NEW v \in WorkerStates(Offsets(p)), NEW w \in WorkerStates(Offsets(p)),
         w.batch = v.batch, w.pending = v.pending,
         Committing(v) <= Committing(w),
         NEW n \in Int, NEW c \in Nat, Works(v, n, c)
  PROVE  Works(w, n, c) /\ First(w, n) = First(v, n)
<1>1. /\ Len(v.batch) \in Nat /\ Len(v.pending) \in Nat
      /\ Committing(v) \in Nat /\ Committing(w) \in Nat
  BY WorkTypes
<1>2. First(w, n) = First(v, n) /\ First(v, n) \in Int
  BY <1>1 DEF First
<1> QED
  BY <1>1, <1>2 DEF Works

(* A batch that falls back becomes pending. *)
LEMMA WorkFallsBack ==
  ASSUME NEW p \in Partitions, NEW v \in WorkerStates(Offsets(p)), v.pc = "bulk",
         NEW w, w = FallBack(v), NEW n \in Int, NEW c \in Nat, Works(v, n, c)
  PROVE  Works(w, n, c) /\ First(w, n) = First(v, n)
<1>1. w.batch = <<>> /\ w.pending = v.batch \o v.pending /\ w.pc = "handle"
  BY DEF FallBack, WorkerStates
<1>2. v.batch \in Seq(Nat) /\ v.pending \in Seq(Nat) /\ Len(v.batch) \in Nat /\ Len(v.pending) \in Nat
  BY WorkTypes
<1>3. Len(w.pending) = Len(v.batch) + Len(v.pending) /\ Len(w.batch) = 0
  BY <1>1, <1>2, ConcatProperties
<1>4. Run(w.pending, n)
  BY <1>1, <1>2, RunOfConcat DEF Works
<1>5. Run(w.batch, n - Len(w.pending))
  BY <1>1, RunOfNothing
<1>6. First(w, n) = First(v, n)
  BY <1>2, <1>3 DEF First
<1>7. Committing(w) = 0 /\ Committing(v) = 0
  BY <1>1 DEF Committing
<1> QED
  BY <1>4, <1>5, <1>6, <1>7 DEF Works

(* The end of flush(): nothing above what is committed is left out. *)
LEMMA WorkFlushed ==
  ASSUME NEW p \in Partitions, NEW v \in WorkerStates(Offsets(p)), v.pc \in {"bulk", "bulkCommit"},
         NEW w, w = AfterFlush(v), NEW n \in Int, NEW c \in Nat, Works(v, n, c)
  PROVE  /\ First(w, n) = First(v, n) + Len(v.batch)
         /\ Works(w, n, c) /\ Works(w, n, First(w, n))
<1>1. w.batch = <<>> /\ w.pending = v.pending /\ w.pc \in {"select", "handle"}
  BY DEF AfterFlush, WorkerStates
<1>2. v.batch \in Seq(Nat) /\ v.pending \in Seq(Nat) /\ Len(v.batch) \in Nat /\ Len(v.pending) \in Nat
  BY WorkTypes
<1>3. Len(w.pending) = Len(v.pending) /\ Len(w.batch) = 0
  BY <1>1
<1>4. Run(w.pending, n) /\ Run(w.batch, n - Len(w.pending))
  BY <1>1, RunOfNothing DEF Works
<1>5. First(w, n) = First(v, n) + Len(v.batch) /\ First(v, n) \in Int
  BY <1>2, <1>3 DEF First
<1>6. Committing(w) = 0 /\ Committing(v) <= Len(v.batch) /\ Committing(v) \in Nat
  BY <1>1, <1>2 DEF Committing
<1>8. c <= First(w, n)
  BY <1>2, <1>5, <1>6 DEF Works
<1> QED
  BY <1>2, <1>4, <1>5, <1>6, <1>8 DEF Works

(* The end of handleMessage. *)
LEMMA WorkAdvances ==
  ASSUME NEW p \in Partitions, NEW v \in WorkerStates(Offsets(p)),
         v.pc \in {"handle", "dlq", "commit"}, v.batch = <<>>, v.pending # <<>>,
         NEW w, w = AfterMessage(v), NEW n \in Int, NEW c \in Nat, Works(v, n, c)
  PROVE  /\ First(w, n) = First(v, n) + 1 /\ Head(v.pending) = First(v, n)
         /\ Works(w, n, c) /\ Works(w, n, First(w, n))
<1>1. w.batch = <<>> /\ w.pending = Tail(v.pending) /\ w.pc \in {"select", "handle"}
  BY DEF AfterMessage, WorkerStates
<1>2. v.pending \in Seq(Nat) /\ Len(v.batch) = 0 /\ Len(v.pending) \in Nat
  BY WorkTypes
<1>3. Len(w.pending) = Len(v.pending) - 1 /\ Len(w.batch) = 0
  BY <1>1, <1>2, HeadTailProperties
<1>4. Run(w.pending, n) /\ Head(v.pending) = n - Len(v.pending)
  BY <1>1, <1>2, RunOfTail DEF Works
<1>5. Run(w.batch, n - Len(w.pending))
  BY <1>1, RunOfNothing
<1>6. /\ First(w, n) = First(v, n) + 1 /\ First(v, n) \in Int
      /\ Head(v.pending) = First(v, n)
  BY <1>2, <1>3, <1>4 DEF First
<1>7. Committing(w) = 0 /\ Committing(v) <= 1 /\ Committing(v) \in Nat
  BY <1>1 DEF Committing
<1>9. c <= First(w, n)
  BY <1>6, <1>7 DEF Works
<1> QED
  BY <1>4, <1>5, <1>6, <1>7, <1>9 DEF Works

(* What a step of a worker does with the messages it has.  A commit is where *)
(* the line of a live instance loses offsets.                                *)
Advances(i, p, w) ==
  LET v == worker[i][p] IN
  /\ Len(w.batch) + Len(w.pending) <= Len(v.batch) + Len(v.pending)
  /\ w.pc = "select" => w.batch = <<>>
  /\ Range(w.batch) \subseteq Range(v.batch)
  /\ Range(w.pending) \subseteq Range(v.batch) \cup Range(v.pending)
  /\ \A q \in Partitions : q # p => committed'[q] = committed[q]
  /\ \A n \in Int : Works(v, n, committed[p]) =>
       /\ committed[p] <= committed'[p]
       /\ Works(w, n, committed'[p])
       /\ ~Cancelled(i)' /\ First(v, n) <= committed[p] => First(w, n) <= committed'[p]

(* The commit a worker is about gets past what Committing says. *)
LEMMA CommitIsNext ==
  ASSUME NEW p \in Partitions, NEW v \in WorkerStates(Offsets(p)), Shape(v),
         NEW n \in Int, committed \in [Partitions -> Nat], Works(v, n, committed[p]),
         \/ v.pc = "bulkCommit" /\ CommitOffset(p, v.batch)
         \/ v.pc = "commit" /\ CommitOffset(p, <<Head(v.pending)>>)
  PROVE  /\ committed'[p] = First(v, n) + Committing(v)
         /\ \A q \in Partitions : q # p => committed'[q] = committed[q]
<1>1. v.batch \in Seq(Nat) /\ v.pending \in Seq(Nat) /\ Len(v.batch) \in Nat /\ Len(v.pending) \in Nat
  BY WorkTypes
<1>2. CASE v.pc = "bulkCommit"
  <2>1. PICK last \in DOMAIN v.batch :
          /\ \A k \in DOMAIN v.batch : v.batch[k] <= v.batch[last]
          /\ committed' = [committed EXCEPT ![p] = v.batch[last] + 1]
    BY <1>2 DEF CommitOffset
  <2>2. v.batch # <<>> /\ Run(v.batch, n - Len(v.pending)) /\ n - Len(v.pending) \in Int
    BY <1>1, <1>2 DEF Works, Shape
  <2>3. v.batch[last] = n - Len(v.pending) - 1
    BY <1>1, <2>1, <2>2, LargestOfRun
  <2>4. Committing(v) = Len(v.batch)
    BY <1>2 DEF Committing
  <2> QED
    BY <1>1, <2>1, <2>3, <2>4 DEF First
<1>3. CASE v.pc = "commit"
  <2>1. committed' = [committed EXCEPT ![p] = Head(v.pending) + 1]
    BY <1>3 DEF CommitOffset
  <2>2. Head(v.pending) = First(v, n)
    BY <1>3, WorkAdvances DEF Shape
  <2>3. Committing(v) = 1
    BY <1>3 DEF Committing
  <2> QED
    BY <2>1, <2>2, <2>3
<1> QED
  BY <1>2, <1>3

(* The worker keeps its messages; if a commit took effect its answer is lost. *)
LEMMA KeepsMessages ==
  ASSUME NEW i \in Instances, NEW p \in Partitions, TypeOK,
         Shape(worker[i][p]), NEW w \in WorkerStates(Offsets(p)),
         w.batch = worker[i][p].batch, w.pending = worker[i][p].pending,
         w.pc = "select" => w.batch = <<>>,
         \/ UNCHANGED committed /\ Committing(worker[i][p]) <= Committing(w)
         \/ w = worker[i][p] /\ w.pc = "bulkCommit" /\ CommitOffset(p, w.batch)
         \/ w = worker[i][p] /\ w.pc = "commit" /\ CommitOffset(p, <<Head(w.pending)>>)
  PROVE  Advances(i, p, w)
<1> DEFINE v == worker[i][p]
<1>1. v \in WorkerStates(Offsets(p)) /\ committed \in [Partitions -> Nat] /\ committed[p] \in Nat
  BY DEF TypeOK
<1>2. Len(v.batch) \in Nat /\ Len(v.pending) \in Nat /\ Committing(v) \in Nat
  BY <1>1, WorkTypes
<1>3. CASE UNCHANGED committed /\ Committing(v) <= Committing(w)
  <2>1. ASSUME NEW n \in Int, Works(v, n, committed[p])
        PROVE  Works(w, n, committed[p]) /\ First(w, n) = First(v, n)
    BY <1>1, <1>3, <2>1, WorkGoesOn
  <2> QED
    BY <1>1, <1>2, <1>3, <2>1 DEF Advances
<1>4. CASE \/ w = v /\ w.pc = "bulkCommit" /\ CommitOffset(p, w.batch)
           \/ w = v /\ w.pc = "commit" /\ CommitOffset(p, <<Head(w.pending)>>)
  <2>1. w = v
    BY <1>4
  <2>2. \A q \in Partitions : q # p => committed'[q] = committed[q]
    BY <1>1, <1>4 DEF CommitOffset
  <2>3. ASSUME NEW n \in Int, Works(v, n, committed[p])
        PROVE  /\ committed[p] <= committed'[p]
               /\ Works(w, n, committed'[p])
               /\ First(w, n) <= committed'[p]
    <3>1. committed'[p] = First(v, n) + Committing(v)
      BY <1>1, <1>4, <2>3, CommitIsNext
    <3>2. First(v, n) \in Int
      BY <1>2 DEF First
    <3> QED
      BY <1>2, <2>1, <2>3, <3>1, <3>2 DEF Works
  <2> QED
    BY <1>2, <2>1, <2>2, <2>3 DEF Advances
<1> QED
  BY <1>3, <1>4

(* A flush ends: with its commit, or because the instance is stopping. *)
LEMMA FlushEnds ==
  ASSUME NEW i \in Instances, NEW p \in Partitions, TypeOK,
         worker[i][p].pc \in {"bulk", "bulkCommit"}, Shape(worker[i][p]),
         NEW w, w = AfterFlush(worker[i][p]),
         \/ Cancelled(i)' /\ UNCHANGED committed
         \/ worker[i][p].pc = "bulkCommit" /\ CommitOffset(p, worker[i][p].batch)
  PROVE  Advances(i, p, w)
<1> DEFINE v == worker[i][p]
<1>1. v \in WorkerStates(Offsets(p)) /\ committed \in [Partitions -> Nat] /\ committed[p] \in Nat
  BY DEF TypeOK
<1>2. /\ v.batch \in Seq(Nat) /\ v.pending \in Seq(Nat)
      /\ Len(v.batch) \in Nat /\ Len(v.pending) \in Nat /\ Committing(v) \in Nat
  BY <1>1, WorkTypes
<1>3. w.batch = <<>> /\ w.pending = v.pending
  BY <1>1 DEF AfterFlush, WorkerStates
<1>4. /\ Len(w.batch) + Len(w.pending) <= Len(v.batch) + Len(v.pending)
      /\ Range(w.batch) \subseteq Range(v.batch) /\ Range(w.pending) = Range(v.pending)
  <2>1. Len(w.batch) = 0 /\ Range(w.batch) = {}
    BY <1>3, QueuedEmpty
  <2> QED
    BY <1>2, <1>3, <2>1
<1>5. ASSUME NEW n \in Int, Works(v, n, committed[p])
      PROVE  /\ First(w, n) = First(v, n) + Len(v.batch) /\ First(v, n) \in Int
             /\ Works(w, n, committed[p]) /\ Works(w, n, First(w, n))
  <2>1. First(v, n) \in Int
    BY <1>2 DEF First
  <2> QED
    BY <1>1, <1>5, <2>1, WorkFlushed
<1>6. CASE Cancelled(i)' /\ UNCHANGED committed
  BY <1>1, <1>3, <1>4, <1>5, <1>6 DEF Advances
<1>7. CASE v.pc = "bulkCommit" /\ CommitOffset(p, v.batch)
  <2>1. \A q \in Partitions : q # p => committed'[q] = committed[q]
    BY <1>1, <1>7 DEF CommitOffset
  <2>2. Committing(v) = Len(v.batch)
    BY <1>7 DEF Committing
  <2>3. ASSUME NEW n \in Int, Works(v, n, committed[p])
        PROVE  committed'[p] = First(w, n) /\ committed[p] <= committed'[p]
    <3>1. committed'[p] = First(v, n) + Committing(v)
      BY <1>1, <1>7, <2>3, CommitIsNext
    <3> QED
      BY <1>1, <1>2, <1>5, <2>2, <2>3, <3>1 DEF Works
  <2>4. ASSUME NEW n \in Int, Works(v, n, committed[p])
        PROVE  /\ committed[p] <= committed'[p]
               /\ Works(w, n, committed'[p])
               /\ First(w, n) <= committed'[p]
    BY <1>2, <1>5, <2>3, <2>4
  <2> QED
    BY <1>3, <1>4, <2>1, <2>4 DEF Advances
<1> QED
  BY <1>6, <1>7

(* A message is over: committed, or given up because the instance is stopping. *)
LEMMA MessageEnds ==
  ASSUME NEW i \in Instances, NEW p \in Partitions, TypeOK,
         worker[i][p].pc \in {"handle", "dlq", "commit"}, Shape(worker[i][p]),
         NEW w, w = AfterMessage(worker[i][p]),
         \/ Cancelled(i)' /\ UNCHANGED committed
         \/ worker[i][p].pc = "commit" /\ CommitOffset(p, <<Head(worker[i][p].pending)>>)
  PROVE  Advances(i, p, w)
<1> DEFINE v == worker[i][p]
<1>1. v \in WorkerStates(Offsets(p)) /\ committed \in [Partitions -> Nat] /\ committed[p] \in Nat
  BY DEF TypeOK
<1>2. /\ v.batch \in Seq(Nat) /\ v.pending \in Seq(Nat)
      /\ Len(v.batch) \in Nat /\ Len(v.pending) \in Nat /\ Committing(v) \in Nat
  BY <1>1, WorkTypes
<1>3. w.batch = <<>> /\ w.pending = Tail(v.pending) /\ v.batch = <<>> /\ v.pending # <<>>
  BY <1>1 DEF AfterMessage, WorkerStates, Shape
<1>4. /\ Len(w.batch) + Len(w.pending) <= Len(v.batch) + Len(v.pending)
      /\ Range(w.batch) \subseteq Range(v.batch) /\ Range(w.pending) \subseteq Range(v.pending)
  <2> HIDE DEF v
  <2>1. Len(w.pending) = Len(v.pending) - 1
    BY <1>2, <1>3, HeadTailProperties
  <2>2. Range(w.pending) \subseteq Range(v.pending)
    BY <1>2, <1>3, RangeOfTail
  <2>3. Len(w.batch) = 0 /\ Len(v.batch) = 0 /\ w.batch = v.batch
    BY <1>3, EmptySeq
  <2>4. Range(w.batch) \subseteq Range(v.batch)
    BY <2>3
  <2>5. Len(w.batch) + Len(w.pending) <= Len(v.batch) + Len(v.pending)
    BY <1>2, <2>1, <2>3
  <2> QED
    BY <2>2, <2>4, <2>5
<1>5. ASSUME NEW n \in Int, Works(v, n, committed[p])
      PROVE  /\ First(w, n) = First(v, n) + 1 /\ First(v, n) \in Int
             /\ Works(w, n, committed[p]) /\ Works(w, n, First(w, n))
  <2>1. First(v, n) \in Int
    BY <1>2 DEF First
  <2> QED
    BY <1>1, <1>3, <1>5, <2>1, WorkAdvances
<1>6. CASE Cancelled(i)' /\ UNCHANGED committed
  BY <1>1, <1>3, <1>4, <1>5, <1>6 DEF Advances
<1>7. CASE v.pc = "commit" /\ CommitOffset(p, <<Head(v.pending)>>)
  <2>1. \A q \in Partitions : q # p => committed'[q] = committed[q]
    BY <1>1, <1>7 DEF CommitOffset
  <2>2. Committing(v) = 1
    BY <1>7 DEF Committing
  <2>3. ASSUME NEW n \in Int, Works(v, n, committed[p])
        PROVE  committed'[p] = First(w, n) /\ committed[p] <= committed'[p]
    <3>1. committed'[p] = First(v, n) + Committing(v)
      BY <1>1, <1>7, <2>3, CommitIsNext
    <3> QED
      BY <1>1, <1>2, <1>5, <2>2, <2>3, <3>1 DEF Works
  <2>4. ASSUME NEW n \in Int, Works(v, n, committed[p])
        PROVE  /\ committed[p] <= committed'[p]
               /\ Works(w, n, committed'[p])
               /\ First(w, n) <= committed'[p]
    BY <1>2, <1>5, <2>3, <2>4
  <2> QED
    BY <1>3, <1>4, <2>1, <2>4 DEF Advances
<1> QED
  BY <1>6, <1>7

(* A batch that falls back is still to be handled. *)
LEMMA BatchFallsBack ==
  ASSUME NEW i \in Instances, NEW p \in Partitions, TypeOK,
         worker[i][p].pc = "bulk", UNCHANGED committed,
         NEW w, w = FallBack(worker[i][p])
  PROVE  Advances(i, p, w)
<1> DEFINE v == worker[i][p]
<1>1. v \in WorkerStates(Offsets(p)) /\ committed[p] \in Nat
  BY DEF TypeOK
<1>2. /\ v.batch \in Seq(Nat) /\ v.pending \in Seq(Nat)
      /\ Len(v.batch) \in Nat /\ Len(v.pending) \in Nat
  BY <1>1, WorkTypes
<1>3. w.batch = <<>> /\ w.pending = v.batch \o v.pending
  BY <1>1 DEF FallBack, WorkerStates
<1>4. Len(w.batch) + Len(w.pending) = Len(v.batch) + Len(v.pending)
  BY <1>2, <1>3, ConcatProperties
<1>5. Range(w.batch) = {} /\ Range(w.pending) \subseteq Range(v.batch) \cup Range(v.pending)
  <2>1. Range(v.batch \o v.pending) \subseteq Range(v.batch) \cup Range(v.pending)
    BY <1>2, RangeOfConcat
  <2>2. Range(w.batch) = {}
    BY <1>3, QueuedEmpty
  <2> QED
    BY <1>3, <2>1, <2>2
<1>6. ASSUME NEW n \in Int, Works(v, n, committed[p])
      PROVE  Works(w, n, committed[p]) /\ First(w, n) = First(v, n)
  BY <1>1, <1>6, WorkFallsBack
<1> QED
  BY <1>1, <1>2, <1>3, <1>4, <1>5, <1>6 DEF Advances

(* A worker that did not lose the race against a shutdown, or lost it: each  *)
(* of its steps but Receive takes its messages further.                      *)
LEMMA WorkerAdvances ==
  ASSUME Inv, NEW i \in Instances, NEW p \in Partitions,
         ReceiveClosed(i, p) \/ Tick(i, p) \/ FlushStep(i, p) \/ MessageStep(i, p)
  PROVE  /\ \E w \in WorkerStates(Offsets(p)) : WorkerEffect(i, p, w) /\ Advances(i, p, w)
         /\ UNCHANGED chan
         /\ \A j \in Instances : Cancelled(j) => Cancelled(j)'
<1> DEFINE v == worker[i][p]
<1>1. PICK w \in WorkerStates(Offsets(p)) : WorkerEffect(i, p, w)
  BY WorkerFacts, StepsOfAWorker DEF WorkerStep
<1>2. \A x : Become(i, p, x) => w = x
  BY <1>1, WorkerFacts, BecomesThis DEF WorkerEffect
<1>3. TypeOK /\ v \in WorkerStates(Offsets(p)) /\ Shape(v) /\ Shape(w)
  BY <1>1, WorkerFacts DEF WorkerEffect
<1>4. UNCHANGED chan
  BY DEF ReceiveClosed, Tick, FlushStep, MessageStep, BulkAborted, BulkStored, BulkFailed,
         BulkCommitted, BulkCommitFailed, Refused, MessageAborted, MessageStored, MessageFailed,
         RoutedToDLQ, DLQFailed, DLQFatal, MessageCommitted, MessageCommitFailed
<1>5. UNCHANGED ctx \/ DLQFatal(i, p)
  BY DEF ReceiveClosed, Tick, FlushStep, MessageStep, BulkAborted, BulkStored, BulkFailed,
         BulkCommitted, BulkCommitFailed, Refused, MessageAborted, MessageStored, MessageFailed,
         RoutedToDLQ, DLQFailed, MessageCommitted, MessageCommitFailed, process
<1>6. \A j \in Instances : Cancelled(j) => Cancelled(j)'
  BY <1>3, <1>5 DEF DLQFatal, Cancelled, TypeOK
<1>7. Cancelled(i) => Cancelled(i)'
  BY <1>6
<1>8. Committing(v) \in Nat /\ Committing(v) <= Committing(v)
  BY <1>3, WorkTypes
<1>9. ASSUME w.batch = v.batch, w.pending = v.pending, w.pc # "select", UNCHANGED committed,
             v.pc \notin {"bulkCommit", "commit"}
      PROVE  Advances(i, p, w)
  <2>1. Committing(v) = 0 /\ Committing(w) \in Nat
    BY <1>9, WorkTypes DEF Committing
  <2>2. Committing(v) <= Committing(w)
    BY <2>1
  <2> QED
    BY <1>3, <1>9, <2>2, KeepsMessages
<1>10. CASE ReceiveClosed(i, p) \/ Tick(i, p)
  <2>1. /\ w = [v EXCEPT !.pc = "exited"] \/ w = [v EXCEPT !.pc = "bulk"]
        /\ v.pc = "select" /\ UNCHANGED committed
    BY <1>2, <1>10 DEF ReceiveClosed, Tick, external
  <2>2. w.batch = v.batch /\ w.pending = v.pending /\ w.pc # "select"
    BY <1>3, <2>1 DEF WorkerStates
  <2> QED
    BY <1>1, <1>4, <1>6, <1>9, <2>1, <2>2
<1>11. CASE BulkAborted(i, p)
  <2>1. w = AfterFlush(v) /\ v.pc = "bulk" /\ Cancelled(i) /\ UNCHANGED committed
    BY <1>2, <1>11 DEF BulkAborted, external
  <2> QED
    BY <1>1, <1>3, <1>4, <1>6, <1>7, <2>1, FlushEnds
<1>12. CASE BulkStored(i, p)
  <2>1. w = [v EXCEPT !.pc = "bulkCommit"] /\ v.pc = "bulk" /\ UNCHANGED committed
    BY <1>2, <1>12 DEF BulkStored
  <2>2. w.batch = v.batch /\ w.pending = v.pending /\ w.pc # "select"
    BY <1>3, <2>1 DEF WorkerStates
  <2> QED
    BY <1>1, <1>4, <1>6, <1>9, <2>1, <2>2
<1>13. CASE BulkFailed(i, p)
  <2>1. /\ w = [v EXCEPT !.attempt = @ + 1] \/ w = FallBack(v)
        /\ v.pc = "bulk" /\ UNCHANGED committed
    <3>1. PICK e \in Errors(p, v.batch) :
            Become(i, p, IF Retryable(e) /\ v.attempt < MaxProcessRetries
                         THEN [v EXCEPT !.attempt = @ + 1]
                         ELSE FallBack(v))
      BY <1>13 DEF BulkFailed
    <3> QED
      BY <1>2, <1>13, <3>1 DEF BulkFailed
  <2>2. CASE w = [v EXCEPT !.attempt = @ + 1]
    <3>1. w.batch = v.batch /\ w.pending = v.pending /\ w.pc = v.pc
      BY <1>3, <2>2 DEF WorkerStates
    <3> QED
      BY <1>1, <1>4, <1>6, <1>9, <2>1, <3>1
  <2>3. CASE w = FallBack(v)
    BY <1>1, <1>3, <1>4, <1>6, <2>1, <2>3, BatchFallsBack
  <2> QED
    BY <2>1, <2>2, <2>3
<1>14. CASE BulkCommitted(i, p)
  <2>1. w = AfterFlush(v) /\ v.pc = "bulkCommit" /\ CommitOffset(p, v.batch)
    BY <1>2, <1>14 DEF BulkCommitted
  <2> QED
    BY <1>1, <1>3, <1>4, <1>6, <2>1, FlushEnds
<1>15. CASE BulkCommitFailed(i, p)
  <2>1. /\ w = IF Cancelled(i) THEN AfterFlush(v) ELSE v
        /\ v.pc = "bulkCommit"
        /\ UNCHANGED committed \/ CommitOffset(p, v.batch)
    BY <1>2, <1>15 DEF BulkCommitFailed, MaybeCommitted
  <2>2. CASE Cancelled(i)
    BY <1>1, <1>3, <1>4, <1>6, <1>7, <2>1, <2>2, FlushEnds
  <2>3. CASE ~Cancelled(i)
    BY <1>1, <1>3, <1>4, <1>6, <1>8, <2>1, <2>3, KeepsMessages
  <2> QED
    BY <2>2, <2>3
<1>16. CASE Refused(i, p)
  <2>1. /\ w = [v EXCEPT !.pc = "dlq", !.cause = "Refused"]
        /\ v.pc = "handle" /\ UNCHANGED committed
    BY <1>2, <1>16 DEF Refused, external
  <2>2. w.batch = v.batch /\ w.pending = v.pending /\ w.pc # "select"
    BY <1>3, <2>1 DEF WorkerStates
  <2> QED
    BY <1>1, <1>4, <1>6, <1>9, <2>1, <2>2
<1>17. CASE MessageAborted(i, p)
  <2>1. w = AfterMessage(v) /\ v.pc = "handle" /\ Cancelled(i) /\ UNCHANGED committed
    BY <1>2, <1>17 DEF MessageAborted, external
  <2> QED
    BY <1>1, <1>3, <1>4, <1>6, <1>7, <2>1, MessageEnds
<1>18. CASE MessageStored(i, p)
  <2>1. w = [v EXCEPT !.pc = "commit"] /\ v.pc = "handle" /\ UNCHANGED committed
    BY <1>2, <1>18 DEF MessageStored
  <2>2. w.batch = v.batch /\ w.pending = v.pending /\ w.pc # "select"
    BY <1>3, <2>1 DEF WorkerStates
  <2> QED
    BY <1>1, <1>4, <1>6, <1>9, <2>1, <2>2
<1>19. CASE MessageFailed(i, p)
  <2>1. PICK e : Become(i, p, IF Retryable(e) /\ v.attempt < MaxProcessRetries
                              THEN [v EXCEPT !.attempt = @ + 1]
                              ELSE [v EXCEPT !.pc = "dlq", !.cause = e])
    BY <1>19 DEF MessageFailed
  <2>2. /\ w = [v EXCEPT !.attempt = @ + 1] \/ w = [v EXCEPT !.pc = "dlq", !.cause = e]
        /\ v.pc = "handle" /\ UNCHANGED committed
    BY <1>2, <1>19, <2>1 DEF MessageFailed
  <2>3. w.batch = v.batch /\ w.pending = v.pending /\ w.pc # "select"
    BY <1>3, <2>2 DEF WorkerStates
  <2> QED
    BY <1>1, <1>4, <1>6, <1>9, <2>2, <2>3
<1>20. CASE RoutedToDLQ(i, p)
  <2>1. w = [v EXCEPT !.pc = "commit"] /\ v.pc = "dlq" /\ UNCHANGED committed
    BY <1>2, <1>20 DEF RoutedToDLQ
  <2>2. w.batch = v.batch /\ w.pending = v.pending /\ w.pc # "select"
    BY <1>3, <2>1 DEF WorkerStates
  <2> QED
    BY <1>1, <1>4, <1>6, <1>9, <2>1, <2>2
<1>21. CASE DLQFailed(i, p)
  <2>1. /\ w = IF Cancelled(i) THEN AfterMessage(v) ELSE v
        /\ v.pc = "dlq" /\ UNCHANGED committed
    BY <1>2, <1>21 DEF DLQFailed
  <2>2. CASE Cancelled(i)
    BY <1>1, <1>3, <1>4, <1>6, <1>7, <2>1, <2>2, MessageEnds
  <2>3. CASE ~Cancelled(i)
    BY <1>1, <1>4, <1>6, <1>9, <2>1, <2>3
  <2> QED
    BY <2>2, <2>3
<1>22. CASE DLQFatal(i, p)
  <2>1. w = AfterMessage(v) /\ v.pc = "dlq" /\ UNCHANGED committed
    BY <1>2, <1>22 DEF DLQFatal, external
  <2>2. Cancelled(i)'
    BY <1>3, <1>22 DEF DLQFatal, Cancelled, TypeOK
  <2> QED
    BY <1>1, <1>3, <1>4, <1>6, <2>1, <2>2, MessageEnds
<1>23. CASE MessageCommitted(i, p)
  <2>1. w = AfterMessage(v) /\ v.pc = "commit" /\ CommitOffset(p, <<Head(v.pending)>>)
    BY <1>2, <1>23 DEF MessageCommitted
  <2> QED
    BY <1>1, <1>3, <1>4, <1>6, <2>1, MessageEnds
<1>24. CASE MessageCommitFailed(i, p)
  <2>1. /\ w = IF Cancelled(i) THEN AfterMessage(v) ELSE v
        /\ v.pc = "commit"
        /\ UNCHANGED committed \/ CommitOffset(p, <<Head(v.pending)>>)
    BY <1>2, <1>24 DEF MessageCommitFailed, MaybeCommitted
  <2>2. CASE Cancelled(i)
    BY <1>1, <1>3, <1>4, <1>6, <1>7, <2>1, <2>2, MessageEnds
  <2>3. CASE ~Cancelled(i)
    BY <1>1, <1>3, <1>4, <1>6, <1>8, <2>1, <2>3, KeepsMessages
  <2> QED
    BY <2>2, <2>3
<1> QED
  BY <1>10, <1>11, <1>12, <1>13, <1>14, <1>15, <1>16, <1>17, <1>18, <1>19, <1>20, <1>21, <1>22,
     <1>23, <1>24 DEF FlushStep, MessageStep

----------------------------------------------------------------------------
(* The invariant of one instance: what leaves a worker alone. *)

(* What the steps start from and may use. *)
Ahead == Inv /\ Inv' /\ Grows /\ OneInstanceInv

LEMMA CoveredGoesOn ==
  ASSUME Ahead, NEW p \in Partitions
  PROVE  /\ Covered(p) \subseteq Covered(p)'
         /\ \A o : Handled(p, o) => Handled(p, o)'
         /\ \A o : BatchBefore(p, o) => BatchBefore(p, o)'
<1>1. faults["signal"] \in Nat /\ faults'["signal"] \in Nat
  BY DEF Ahead, Inv, TypeOK, FaultKinds
<1>2. Covered(p) \subseteq Covered(p)' /\ \A o : Handled(p, o) => Handled(p, o)'
  BY <1>1, CoveredGrows DEF Ahead
<1> QED
  BY <1>2 DEF BatchBefore

(* A worker nothing of which changes. *)
LEMMA UntouchedKept ==
  ASSUME Ahead, NEW i \in Instances, NEW p \in Partitions,
         worker'[i][p] = worker[i][p], chan'[i][p] = chan[i][p],
         Held(i, p)' = Held(i, p), owner'[p] = owner[p], position'[p] = position[p],
         committed'[p] = committed[p], Cancelled(i) => Cancelled(i)'
  PROVE  LocalToOne(i, p)'
<1>1. LocalToOne(i, p)
  BY DEF Ahead, OneInstanceInv
<1>2. \A o : BatchBefore(p, o) => BatchBefore(p, o)'
  BY CoveredGoesOn
<1>3. Unbroken(i, p) => Unbroken(i, p)'
  BY DEF Unbroken, SentTo
<1>4. HoldsNothing(i, p) => HoldsNothing(i, p)'
  BY DEF HoldsNothing
<1> QED
  BY <1>1, <1>2, <1>3, <1>4 DEF LocalToOne

(* A worker of a stopping instance: its line no longer matters. *)
LEMMA StoppingKept ==
  ASSUME Ahead, NEW i \in Instances, NEW p \in Partitions,
         worker'[i][p] = worker[i][p], chan'[i][p] = chan[i][p],
         committed'[p] = committed[p], Cancelled(i)'
  PROVE  LocalToOne(i, p)'
<1>1. LocalToOne(i, p)
  BY DEF Ahead, OneInstanceInv
<1>2. \A o : BatchBefore(p, o) => BatchBefore(p, o)'
  BY CoveredGoesOn
<1> QED
  BY <1>1, <1>2 DEF LocalToOne

(* A worker that is not there has no work. *)
LEMMA NoWorkerWorks ==
  ASSUME NEW c \in Nat
  PROVE  /\ Works(NoWorker, End(NoWorker, c), c)
         /\ Sizes(NoWorker, <<>>)
         /\ Range(NoWorker.batch) = {} /\ Range(NoWorker.pending) = {}
<1>1. /\ NoWorker.batch = <<>> /\ NoWorker.pending = <<>> /\ NoWorker.pc = "absent"
      /\ Len(NoWorker.batch) = 0 /\ Len(NoWorker.pending) = 0
  BY DEF NoWorker
<1>2. End(NoWorker, c) = c /\ First(NoWorker, c) = c /\ Committing(NoWorker) = 0
  BY <1>1 DEF End, First, Committing
<1>3. Works(NoWorker, c, c)
  BY <1>1, <1>2, RunOfNothing DEF Works
<1>4. Sizes(NoWorker, <<>>)
  BY <1>1, ConsumerAssumption DEF Sizes
<1> QED
  BY <1>1, <1>2, <1>3, <1>4, QueuedEmpty

(* A process that is gone holds nothing. *)
LEMMA ForgottenHoldsNothing ==
  ASSUME Ahead, NEW i \in Instances, Forget(i), UNCHANGED committed,
         \A q \in Partitions : owner'[q] # i,
         NEW p \in Partitions
  PROVE  LocalToOne(i, p)'
<1>1. worker'[i][p] = NoWorker /\ chan'[i][p] = <<>> /\ hand'[i] = {}
  BY DEF Forget, Ahead, Inv, TypeOK
<1>2. Held(i, p)' = {}
  BY <1>1 DEF Held
<1>3. committed'[p] \in Nat
  BY DEF Ahead, Inv, TypeOK
<1>4. HoldsNothing(i, p)'
  BY <1>1, <1>2 DEF HoldsNothing, NoWorker
<1>5. /\ Works(NoWorker, End(NoWorker, committed'[p]), committed'[p])
      /\ Sizes(NoWorker, <<>>)
      /\ Range(NoWorker.batch) = {} /\ Range(NoWorker.pending) = {}
  BY <1>3, NoWorkerWorks
<1> QED
  BY <1>1, <1>4, <1>5 DEF LocalToOne

LEMMA InitOneInstance == Init => OneInstanceInv
<1> SUFFICES ASSUME Init PROVE OneInstanceInv
  OBVIOUS
<1>1. \A p \in Partitions : DeadLettersKnown(p)
  BY DEF Init, DeadLettersKnown
<1>2. ASSUME NEW i \in Instances, NEW p \in Partitions
      PROVE  LocalToOne(i, p)
  <2>1. /\ worker[i][p] = NoWorker /\ chan[i][p] = <<>> /\ Held(i, p) = {}
        /\ committed[p] \in Nat /\ owner[p] # i
    BY ConsumerAssumption DEF Init, Held
  <2>2. HoldsNothing(i, p)
    BY <2>1 DEF HoldsNothing, NoWorker
  <2>3. /\ Works(NoWorker, End(NoWorker, committed[p]), committed[p])
        /\ Sizes(NoWorker, <<>>)
        /\ Range(NoWorker.batch) = {} /\ Range(NoWorker.pending) = {}
    BY <2>1, NoWorkerWorks
  <2> QED
    BY <2>1, <2>2, <2>3 DEF LocalToOne
<1> QED
  BY <1>1, <1>2 DEF OneInstanceInv

----------------------------------------------------------------------------
(* The fetch loop and the group. *)

(* FetchMessage takes the message the line goes on with. *)
LEMMA FetchKeepsOne ==
  ASSUME Ahead, NEW i \in Instances, NEW p \in Partitions, Fetch(i, p), NEW q \in Partitions
  PROVE  LocalToOne(i, q)'
<1> USE DEF Fetch, external
<1> DEFINE n == position[p]
<1>1. n \in Offsets(p) /\ n \in Nat /\ hand[i] = {} /\ owner[p] = i
  BY OffsetsAreNumbers
<1>2. hand'[i] = {<<p, n>>} /\ position' = [position EXCEPT ![p] = n + 1] /\ UNCHANGED ctx
  BY DEF Ahead, Inv, TypeOK
<1>3. position \in [Partitions -> Nat \ {0}]
  BY DEF Ahead, Inv, TypeOK
<1>4. CASE q # p
  <2>1. Held(i, q)' = Held(i, q) /\ position'[q] = position[q]
    BY <1>1, <1>2, <1>3, <1>4 DEF Held
  <2> QED
    BY <2>1, UntouchedKept DEF Cancelled
<1>5. CASE q = p
  <2>1. Held(i, p) = {} /\ Held(i, p)' = {n} /\ position'[p] = n + 1
    BY <1>1, <1>2, <1>3 DEF Held
  <2>2. SentTo(i, p) = n /\ SentTo(i, p)' = n
    BY <1>1, <2>1 DEF SentTo
  <2>3. LocalToOne(i, p)
    BY DEF Ahead, OneInstanceInv
  <2>4. ~Cancelled(i)' => Unbroken(i, p)
    BY <1>1, <2>3 DEF LocalToOne, Cancelled
  <2>5. Held(i, p)' \subseteq {position'[p] - 1}
    BY <1>1, <2>1
  <2>6. Unbroken(i, p) => Unbroken(i, p)'
    BY <2>2, <2>5 DEF Unbroken
  <2>7. \A o : BatchBefore(p, o) => BatchBefore(p, o)'
    BY CoveredGoesOn
  <2> QED
    BY <1>1, <1>5, <2>3, <2>4, <2>6, <2>7 DEF LocalToOne
<1> QED
  BY <1>4, <1>5

(* The end of a worker's work is a number. *)
LEMMA EndType ==
  ASSUME NEW p \in Partitions, NEW w \in WorkerStates(Offsets(p)), NEW c \in Nat
  PROVE  End(w, c) \in Int
<1>1. w.pending \in Seq(Nat) /\ w.batch \in Seq(Nat)
  BY WorkTypes
<1>2. ASSUME NEW s \in Seq(Nat), s # <<>>
      PROVE  s[Len(s)] + 1 \in Int
  <2>1. Len(s) \in 1..Len(s)
    BY <1>2, LenProperties, EmptySeq
  <2>2. s[Len(s)] \in Nat
    BY <2>1, ElementOfSeq
  <2> QED
    BY <2>2
<1> QED
  BY <1>1, <1>2 DEF End

(* The message in the fetch loop's hand joins the run in the channel. *)
LEMMA MessageJoins ==
  ASSUME Ahead, NEW i \in Instances, NEW p \in Partitions, NEW o \in Nat,
         Len(chan[i][p]) < QueueSize, Held(i, p) = {o}, Held(i, p)' = {},
         NEW w \in WorkerStates(Offsets(p)), worker'[i][p] = w,
         w.batch = worker[i][p].batch, w.pending = worker[i][p].pending,
         w.pc = worker[i][p].pc \/ (w.pc = "select" /\ worker[i][p].pc = "absent"),
         chan'[i][p] = Append(chan[i][p], o),
         UNCHANGED <<owner, position, committed, ctx>>
  PROVE  LocalToOne(i, p)'
<1> DEFINE v == worker[i][p]
           c == committed[p]
           t == chan[i][p]
<1>1. /\ v \in WorkerStates(Offsets(p)) /\ t \in Seq(Nat) /\ Shape(v)
      /\ position[p] \in Nat \ {0} /\ c \in Nat
  BY DEF Ahead, Inv, TypeOK, Local
<1>2. LocalToOne(i, p)
  BY DEF Ahead, OneInstanceInv
<1>3. Len(Append(t, o)) = Len(t) + 1 /\ Len(t) \in Nat
  BY <1>1, AppendProperties, LenProperties
<1>4. Committing(v) <= Committing(w)
  <2>1. Committing(w) = Committing(v)
    BY DEF Committing
  <2> QED
    BY <1>1, <2>1, WorkTypes
<1>5. Sizes(w, Append(t, o))
  <2>1. Len(t) + 1 <= QueueSize
    BY <1>3, ConsumerAssumption
  <2>2. v.pc = "absent" => Len(w.batch) = 0
    BY <1>1 DEF Shape
  <2>3. /\ Len(w.batch) + Len(w.pending) <= BatchSize
        /\ v.pc = "select" => Len(w.batch) < BatchSize
    BY <1>2 DEF LocalToOne, Sizes
  <2>4. w.pc = "select" => Len(w.batch) < BatchSize
    BY <2>2, <2>3, ConsumerAssumption
  <2> QED
    BY <1>3, <2>1, <2>3, <2>4 DEF Sizes
<1>6. Works(w, End(w, c), c)
  <2>1. End(w, c) = End(v, c)
    BY DEF End
  <2>2. End(v, c) \in Int
    BY <1>1, EndType
  <2>3. Works(v, End(v, c), c)
    BY <1>2 DEF LocalToOne
  <2> QED
    BY <1>1, <1>4, <2>1, <2>2, <2>3, WorkGoesOn
<1>7. ASSUME ~Cancelled(i)'
      PROVE  owner[p] = i /\ Unbroken(i, p)'
  <2>1. owner[p] = i /\ Unbroken(i, p)
    BY <1>2, <1>7 DEF LocalToOne, HoldsNothing, Cancelled
  <2>2. o = position[p] - 1
    BY <2>1 DEF Unbroken
  <2>3. SentTo(i, p) = o
    BY <1>1, <2>2 DEF SentTo
  <2>4. SentTo(i, p)' = o + 1
    <3>1. position[p] = o + 1
      BY <1>1, <2>2
    <3> QED
      BY <3>1 DEF SentTo
  <2>5. Run(Append(t, o), o + 1)
    BY <1>1, <2>1, <2>3, RunOfAppend DEF Unbroken
  <2> DEFINE n == o - Len(t)
  <2>6. n \in Int /\ (o + 1) - Len(Append(t, o)) = n
    <3>1. (o + 1) - (Len(t) + 1) = o - Len(t) /\ o - Len(t) \in Int
      BY <1>3
    <3> QED
      BY <1>3, <3>1
  <2>7. Works(v, n, c) /\ First(v, n) <= c
    BY <2>1, <2>3 DEF Unbroken
  <2> HIDE DEF n
  <2>8. Works(w, n, c) /\ First(w, n) = First(v, n)
    <3>1. w.batch = v.batch /\ w.pending = v.pending
      OBVIOUS
    <3> HIDE DEF v, c
    <3> QED
      BY <1>1, <1>4, <2>6, <2>7, <3>1, WorkGoesOn
  <2> QED
    BY <2>1, <2>4, <2>5, <2>6, <2>7, <2>8 DEF Unbroken
<1>8. \A x : BatchBefore(p, x) => BatchBefore(p, x)'
  BY CoveredGoesOn
<1> QED
  BY <1>2, <1>5, <1>6, <1>7, <1>8 DEF LocalToOne

(* The send to the channel moves the message, and only it. *)
LEMMA DispatchKeepsOne ==
  ASSUME Ahead, NEW i \in Instances, NEW p \in Partitions, Dispatch(i, p), NEW q \in Partitions
  PROVE  LocalToOne(i, q)'
<1> USE DEF Dispatch, external, group
<1>1. PICK m \in hand[i] : m[1] = p /\ chan' = [chan EXCEPT ![i][p] = Append(@, m[2])]
  OBVIOUS
<1>2. PICK o \in Offsets(p) : m = <<p, o>>
  BY <1>1 DEF Ahead, Inv, TypeOK, Located
<1>3. hand[i] = {<<p, o>>} /\ hand'[i] = {}
  <2>1. hand'[i] = {}
    BY DEF Ahead, Inv, TypeOK
  <2>2. \A k, l \in hand[i] : k = l
    BY DEF Ahead, Inv, Stopping
  <2> QED
    BY <1>1, <1>2, <2>1, <2>2
<1>4. chan'[i][q] = IF q = p THEN Append(chan[i][p], o) ELSE chan[i][q]
  BY <1>1, <1>2 DEF Ahead, Inv, TypeOK
<1> DEFINE w == [worker[i][p] EXCEPT !.pc = IF @ = "absent" THEN "select" ELSE @]
<1>5. worker[i][p] \in WorkerStates(Offsets(p))
  BY DEF Ahead, Inv, TypeOK
<1>6. worker'[i][q] = IF q = p THEN w ELSE worker[i][q]
  BY DEF Ahead, Inv, TypeOK
<1>7. /\ w.batch = worker[i][p].batch /\ w.pending = worker[i][p].pending
      /\ w.pc = worker[i][p].pc \/ (w.pc = "select" /\ worker[i][p].pc = "absent")
      /\ w \in WorkerStates(Offsets(p))
  BY <1>5 DEF WorkerStates, WorkerSteps
<1> HIDE DEF w
<1>8. CASE q # p
  <2>1. Held(i, q)' = Held(i, q)
    BY <1>3, <1>8 DEF Held
  <2> QED
    BY <1>4, <1>6, <1>8, <2>1, UntouchedKept DEF Cancelled
<1>9. CASE q = p
  <2>1. Held(i, p) = {o} /\ Held(i, p)' = {}
    BY <1>2, <1>3 DEF Held
  <2>2. o \in Nat
    BY OffsetsAreNumbers
  <2>3. Len(chan[i][p]) < QueueSize /\ UNCHANGED <<owner, position, committed, ctx>>
    OBVIOUS
  <2>4. worker'[i][p] = w /\ chan'[i][p] = Append(chan[i][p], o)
    BY <1>4, <1>6, <1>9
  <2> QED
    BY <1>7, <1>9, <2>1, <2>2, <2>3, <2>4, MessageJoins
<1> QED
  BY <1>8, <1>9

(* Without rebalances only a partition nobody has is assigned. *)
LEMMA AssignKeepsOne ==
  ASSUME Ahead, OneInstance, NEW i \in Instances, NEW p \in Partitions, Assign(p, i),
         NEW q \in Partitions
  PROVE  LocalToOne(i, q)'
<1> USE DEF Assign, external, process
<1>1. owner[p] = NoOwner /\ owner[p] # i
  <2>1. faults["rebalance"] \in Nat
    BY DEF Ahead, Inv, TypeOK, FaultKinds
  <2> QED
    BY <2>1, ConsumerAssumption DEF OneInstance, Spend
<1>2. /\ owner'[q] = IF q = p THEN i ELSE owner[q]
      /\ position'[q] = IF q = p THEN committed[p] ELSE position[q]
      /\ Held(i, q)' = Held(i, q)
  BY DEF Ahead, Inv, TypeOK, Held
<1>3. CASE q # p
  BY <1>2, <1>3, UntouchedKept DEF Cancelled
<1>4. CASE q = p
  <2> DEFINE v == worker[i][p]
  <2>1. LocalToOne(i, p)
    BY DEF Ahead, OneInstanceInv
  <2>2. v \in WorkerStates(Offsets(p)) /\ committed[p] \in Nat
    BY DEF Ahead, Inv, TypeOK
  <2>3. ASSUME ~Cancelled(i)'
        PROVE  Unbroken(i, p)'
    <3>1. HoldsNothing(i, p)
      BY <1>1, <2>1, <2>3 DEF LocalToOne, Cancelled
    <3>2. Held(i, p)' = {} /\ chan[i][p] = <<>> /\ v.batch = <<>> /\ v.pending = <<>>
      BY <1>2, <1>4, <3>1 DEF HoldsNothing
    <3>3. /\ Len(chan[i][p]) = 0 /\ Len(v.batch) = 0 /\ Len(v.pending) = 0
          /\ position'[p] = committed[p]
      BY <1>2, <1>4, <3>2
    <3>4. SentTo(i, p)' = committed[p] /\ SentTo(i, p)' - Len(chan[i][p]) = committed[p]
      BY <2>2, <3>2, <3>3 DEF SentTo
    <3>5. First(v, committed[p]) = committed[p] /\ Committing(v) \in Nat
      BY <2>2, <3>3, WorkTypes DEF First
    <3>6. Works(v, committed[p], committed[p])
      BY <2>2, <3>2, <3>5, RunOfNothing DEF Works
    <3> QED
      BY <2>2, <3>2, <3>4, <3>5, <3>6, RunOfNothing DEF Unbroken
  <2>4. \A x : BatchBefore(p, x) => BatchBefore(p, x)'
    BY CoveredGoesOn
  <2> QED
    BY <1>2, <1>4, <2>1, <2>3, <2>4 DEF LocalToOne
<1> QED
  BY <1>3, <1>4

----------------------------------------------------------------------------
(* The partition worker. *)

(* A worker takes the next message of the run in its channel. *)
LEMMA RunMovesUp ==
  ASSUME NEW t \in Seq(Nat), t # <<>>, NEW m \in Int, Run(t, m)
  PROVE  /\ Head(t) = m - Len(t) /\ Run(Tail(t), m)
         /\ m - Len(Tail(t)) = (m - Len(t)) + 1
         /\ Head(t) \in Nat /\ Tail(t) \in Seq(Nat) /\ Len(Tail(t)) = Len(t) - 1
<1>1. Head(t) \in Nat /\ Tail(t) \in Seq(Nat) /\ Len(Tail(t)) = Len(t) - 1
  BY HeadTailProperties
<1>2. Run(Tail(t), m) /\ Head(t) = m - Len(t)
  BY RunOfTail
<1>3. Len(t) \in Nat
  BY LenProperties
<1>4. m - (Len(t) - 1) = (m - Len(t)) + 1
  BY <1>3
<1> QED
  BY <1>1, <1>2, <1>4

(* An undecodable message: what is missing below it fits the batch. *)
LEMMA UndecodableMet ==
  ASSUME Ahead, NEW i \in Instances, NEW p \in Partitions,
         ~Cancelled(i), worker[i][p].pc = "select", chan[i][p] # <<>>
  PROVE  BatchBefore(p, Head(chan[i][p]))
<1> DEFINE v == worker[i][p]
           t == chan[i][p]
           o == Head(t)
           m == SentTo(i, p)
<1>1. /\ v \in WorkerStates(Offsets(p)) /\ v.pending = <<>> /\ t \in Seq(Nat)
      /\ position[p] \in Nat
  BY DEF Ahead, Inv, TypeOK, Local, Shape
<1>2. v.batch \in Seq(Nat) /\ Len(v.batch) \in Nat
  BY <1>1, WorkTypes
<1>3. LocalToOne(i, p)
  BY DEF Ahead, OneInstanceInv
<1>4. Unbroken(i, p) /\ Len(v.batch) < BatchSize
  BY <1>3 DEF LocalToOne, HoldsNothing, Sizes
<1>5. m \in Int
  BY <1>1 DEF SentTo
<1>6. o = m - Len(t) /\ o \in Nat
  BY <1>1, <1>4, <1>5, RunMovesUp DEF Unbroken
<1>7. Run(v.batch, o)
  <2>1. Works(v, m - Len(t), committed[p])
    BY <1>4 DEF Unbroken
  <2>2. Len(v.pending) = 0 /\ o - 0 = o
    BY <1>1, <1>6
  <2> QED
    BY <1>6, <2>1, <2>2 DEF Works
<1>8. Below(p, o, Covered(p) \cup Range(v.batch))
  <2>1. Line(p, Covered(p), v.batch, v.pending, t, Held(i, p), Upcoming(i, p))
    BY WorkerFacts DEF Ahead
  <2>2. Queued(p, t, Covered(p) \cup Range(v.batch) \cup Range(v.pending))
    BY <2>1 DEF Line
  <2>3. Range(v.pending) = {}
    BY <1>1, QueuedEmpty
  <2>4. t \in Seq(Offsets(p))
    BY DEF Ahead, Inv, TypeOK
  <2> QED
    BY <2>2, <2>3, <2>4, QueuedHead
<1>9. ASSUME NEW n \in Offsets(p), n + BatchSize <= o, n \in Range(v.batch)
      PROVE  FALSE
  <2>1. PICK k \in DOMAIN v.batch : n = v.batch[k]
    BY <1>9 DEF Range
  <2>2. DOMAIN v.batch = 1..Len(v.batch)
    BY <1>2, LenProperties
  <2>3. n = o - Len(v.batch) + k - 1
    BY <1>7, <2>1 DEF Run
  <2>4. k \in 1..Len(v.batch) /\ Len(v.batch) < BatchSize
    BY <1>4, <2>1, <2>2
  <2>5. n + BatchSize <= o /\ n \in Nat
    BY <1>9, OffsetsAreNumbers
  <2>6. /\ Len(v.batch) \in Nat /\ BatchSize \in Nat /\ o \in Nat
        /\ k \in Nat /\ 1 <= k /\ Len(v.batch) < BatchSize
    BY <1>2, <1>6, <2>4, ConsumerAssumption
  <2> DEFINE l == Len(v.batch)
  <2>7. n = o - l + k - 1 /\ l \in Nat /\ l < BatchSize
    BY <2>3, <2>6
  <2> HIDE DEF l, o, v
  <2> QED
    BY <2>5, <2>6, <2>7
<1>10. ASSUME NEW n \in Offsets(p), n + BatchSize <= o
       PROVE  n \in Covered(p)
  <2>1. n < o
    BY <1>6, <1>10, OffsetsAreNumbers, ConsumerAssumption
  <2> QED
    BY <1>8, <1>9, <1>10, <2>1 DEF Below
<1> QED
  BY <1>10 DEF BatchBefore

(* What a worker of a live instance makes of the message it receives. *)
LEMMA ReceivedJoins ==
  ASSUME NEW p \in Partitions, NEW v \in WorkerStates(Offsets(p)), v.pc = "select",
         v.pending = <<>>, NEW n \in Nat, NEW c \in Nat, Works(v, n, c), First(v, n) <= c,
         Len(v.batch) < BatchSize, NEW w \in WorkerStates(Offsets(p)),
         \/ w.batch = v.batch /\ w.pending = <<n>> /\ w.pc \in {"handle", "bulk"}
         \/ /\ w.batch = Append(v.batch, n) /\ w.pending = <<>>
            /\ w.pc = IF Len(v.batch) + 1 < BatchSize THEN "select" ELSE "bulk"
  PROVE  /\ Works(w, n + 1, c) /\ First(w, n + 1) <= c
         /\ Len(w.batch) + Len(w.pending) <= BatchSize
         /\ w.pc = "select" => Len(w.batch) < BatchSize
<1>1. v.batch \in Seq(Nat) /\ Len(v.batch) \in Nat /\ Len(v.pending) = 0
  BY WorkTypes
<1>2. First(v, n) = n - Len(v.batch) /\ Committing(v) = 0 /\ Committing(w) = 0
  BY <1>1 DEF First, Committing
<1>3. Run(v.batch, n)
  <2>1. n - 0 = n
    OBVIOUS
  <2> QED
    BY <1>1, <2>1 DEF Works
<1>4. c <= n - Len(v.batch) /\ n - Len(v.batch) <= c
  BY <1>1, <1>2 DEF Works
<1>5. CASE w.batch = v.batch /\ w.pending = <<n>> /\ w.pc \in {"handle", "bulk"}
  <2>1. Len(w.pending) = 1 /\ (n + 1) - 1 = n
    BY <1>5
  <2>2. Run(w.pending, n + 1)
    BY <1>5 DEF Run
  <2>3. First(w, n + 1) = n - Len(v.batch)
    <3>1. (n + 1) - 1 - Len(v.batch) = n - Len(v.batch)
      BY <1>1
    <3> QED
      BY <1>5, <2>1, <3>1 DEF First
  <2>4. Works(w, n + 1, c)
    BY <1>1, <1>2, <1>3, <1>4, <1>5, <2>1, <2>2, <2>3 DEF Works
  <2> QED
    BY <1>1, <1>4, <1>5, <2>1, <2>3, <2>4, ConsumerAssumption
<1>6. CASE /\ w.batch = Append(v.batch, n) /\ w.pending = <<>>
           /\ w.pc = IF Len(v.batch) + 1 < BatchSize THEN "select" ELSE "bulk"
  <2>1. Len(w.pending) = 0 /\ Len(w.batch) = Len(v.batch) + 1
    BY <1>1, <1>6, AppendProperties
  <2>2. Run(w.batch, (n + 1) - 0) /\ Run(w.pending, n + 1)
    BY <1>1, <1>3, <1>6, RunOfAppend, RunOfNothing
  <2>3. First(w, n + 1) = n - Len(v.batch)
    <3>1. (n + 1) - 0 - (Len(v.batch) + 1) = n - Len(v.batch)
      BY <1>1
    <3> QED
      BY <2>1, <3>1 DEF First
  <2>4. Works(w, n + 1, c)
    BY <1>1, <1>2, <1>4, <2>1, <2>2, <2>3 DEF Works
  <2> QED
    BY <1>1, <1>4, <1>6, <2>1, <2>3, <2>4, ConsumerAssumption
<1> QED
  BY <1>5, <1>6

(* Taking a message keeps the invariant of its worker. *)
LEMMA ReceiveKeepsThis ==
  ASSUME Ahead, NEW i \in Instances, NEW p \in Partitions, Receive(i, p)
  PROVE  LocalToOne(i, p)'
<1> DEFINE v == worker[i][p]
           t == chan[i][p]
           o == Head(t)
           c == committed[p]
<1>1. PICK w \in WorkerStates(Offsets(p)) : WorkerEffect(i, p, w)
  BY WorkerFacts, StepsOfAWorker DEF WorkerStep, Ahead
<1>2. \A x : Become(i, p, x) => w = x
  BY <1>1, WorkerFacts, BecomesThis DEF WorkerEffect, Ahead
<1>3. worker'[i][p] = w
  BY <1>1, WorkerFacts, BecomesThis DEF WorkerEffect, Ahead
<1>4. /\ v \in WorkerStates(Offsets(p)) /\ Shape(w)
      /\ v.pc = "select" /\ v.pending = <<>> /\ t # <<>> /\ t \in Seq(Nat)
      /\ position[p] \in Nat /\ c \in Nat
      /\ UNCHANGED <<db, dlq, committed, owner, position, ctx, hand, faults>>
  BY <1>1 DEF Receive, Ahead, Inv, TypeOK, Local, Shape, external, group, process, WorkerEffect
<1>5. chan'[i][p] = Tail(t)
  BY DEF Receive, Ahead, Inv, TypeOK
<1>6. LocalToOne(i, p)
  BY DEF Ahead, OneInstanceInv
<1>7. Held(i, p)' = Held(i, p) /\ SentTo(i, p)' = SentTo(i, p)
  BY <1>4 DEF Held, SentTo
<1>8. Len(Tail(t)) <= QueueSize
  <2>1. Len(Tail(t)) = Len(t) - 1 /\ Len(t) \in Nat
    BY <1>4, HeadTailProperties, LenProperties
  <2> QED
    BY <1>6, <2>1, ConsumerAssumption DEF LocalToOne, Sizes
<1>9. \A x : BatchBefore(p, x) => BatchBefore(p, x)'
  BY CoveredGoesOn
<1>10. CASE Cancelled(i) /\ w = [v EXCEPT !.pc = "exited"]
  <2>1. w.batch = v.batch /\ w.pending = v.pending /\ w.pc = "exited"
    BY <1>4, <1>10 DEF WorkerStates
  <2>2. Committing(v) = 0 /\ Committing(w) = 0
    BY <1>4, <2>1 DEF Committing
  <2>3. Works(w, End(w, c), c)
    <3>1. End(w, c) = End(v, c) /\ End(v, c) \in Int
      BY <1>4, <2>1, EndType DEF End
    <3>2. Works(v, End(v, c), c)
      BY <1>6 DEF LocalToOne
    <3> QED
      BY <1>4, <2>1, <2>2, <3>1, <3>2, WorkGoesOn
  <2>4. Sizes(w, Tail(t))
    BY <1>6, <1>8, <2>1 DEF LocalToOne, Sizes
  <2>5. Cancelled(i)'
    BY <1>4, <1>10 DEF Cancelled
  <2> QED
    BY <1>3, <1>4, <1>5, <1>6, <1>9, <2>1, <2>3, <2>4, <2>5 DEF LocalToOne
<1>11. CASE /\ ~Cancelled(i)
            /\ \/ ~Decodable(p, o) /\ w = [v EXCEPT !.pc = IF v.batch = <<>> THEN "handle" ELSE "bulk",
                                                    !.pending = <<o>>]
               \/ /\ Decodable(p, o)
                  /\ w = [v EXCEPT !.pc = IF Len(v.batch) + 1 < BatchSize THEN "select" ELSE "bulk",
                                   !.batch = Append(v.batch, o)]
  <2> DEFINE m == SentTo(i, p)
  <2>1. owner[p] = i /\ Unbroken(i, p) /\ Len(v.batch) < BatchSize
    BY <1>4, <1>6, <1>11 DEF LocalToOne, HoldsNothing, Sizes
  <2>2. m \in Int
    BY <1>4 DEF SentTo
  <2>3. /\ o = m - Len(t) /\ Run(Tail(t), m) /\ m - Len(Tail(t)) = o + 1 /\ o \in Nat
    <3>1. Run(t, m)
      BY <2>1 DEF Unbroken
    <3>2. t \in Seq(Nat) /\ t # <<>>
      BY <1>4
    <3> HIDE DEF t, m
    <3>3. /\ Head(t) = m - Len(t) /\ Run(Tail(t), m) /\ Head(t) \in Nat
          /\ m - Len(Tail(t)) = (m - Len(t)) + 1
      BY <2>2, <3>1, <3>2, RunMovesUp
    <3> QED
      BY <3>3
  <2>4. Works(v, o, c) /\ First(v, o) <= c
    BY <2>1, <2>3 DEF Unbroken
  <2>5. \/ ~Decodable(p, o) /\ w.batch = v.batch /\ w.pending = <<o>> /\ w.pc \in {"handle", "bulk"}
        \/ /\ Decodable(p, o) /\ w.batch = Append(v.batch, o) /\ w.pending = <<>>
           /\ w.pc = IF Len(v.batch) + 1 < BatchSize THEN "select" ELSE "bulk"
    BY <1>4, <1>11 DEF WorkerStates
  <2>6. /\ Works(w, o + 1, c) /\ First(w, o + 1) <= c
        /\ Len(w.batch) + Len(w.pending) <= BatchSize
        /\ w.pc = "select" => Len(w.batch) < BatchSize
    <3> HIDE DEF o, c, v
    <3> QED
      BY <1>4, <2>1, <2>3, <2>4, <2>5, ReceivedJoins DEF v, c
  <2>7. Works(w, End(w, c), c)
    BY <1>4, <2>3, <2>6, WorkEnds
  <2>8. \A x \in Range(w.batch) : Decodable(p, x)
    <3>1. \A x \in Range(v.batch) : Decodable(p, x)
      BY <1>6 DEF LocalToOne
    <3>2. v.batch \in Seq(Nat)
      BY <1>4, WorkTypes
    <3>3. Range(Append(v.batch, o)) = Range(v.batch) \cup {o}
      BY <2>3, <3>2, RangeOfAppend
    <3> QED
      BY <2>5, <3>1, <3>3
  <2>9. \A x \in Range(w.pending) : Decodable(p, x) \/ BatchBefore(p, x)
    <3>1. BatchBefore(p, o)
      BY <1>4, <1>11, UndecodableMet
    <3>2. Range(<<o>>) = {o}
      BY <2>3 DEF Range
    <3>3. Range(w.pending) \subseteq {o}
      BY <2>5, <3>2, QueuedEmpty
    <3> QED
      BY <3>1, <3>3
  <2>10. Unbroken(i, p)'
    BY <1>3, <1>4, <1>5, <1>7, <2>1, <2>3, <2>6 DEF Unbroken
  <2>11. Sizes(w, Tail(t))
    BY <1>8, <2>6 DEF Sizes
  <2> QED
    BY <1>3, <1>4, <1>5, <1>9, <2>1, <2>7, <2>8, <2>9, <2>10, <2>11 DEF LocalToOne
<1> QED
  BY <1>2, <1>10, <1>11 DEF Receive

(* A step that takes the messages of a worker further keeps its invariant. *)
LEMMA AdvanceKeepsThis ==
  ASSUME Ahead, NEW i \in Instances, NEW p \in Partitions,
         NEW w \in WorkerStates(Offsets(p)), WorkerEffect(i, p, w), Advances(i, p, w),
         UNCHANGED chan, Cancelled(i) => Cancelled(i)'
  PROVE  LocalToOne(i, p)'
<1> DEFINE v == worker[i][p]
           c == committed[p]
           t == chan[i][p]
<1>1. worker'[i][p] = w /\ UNCHANGED <<owner, position, hand>> /\ Shape(w)
  BY WorkerFacts, BecomesThis DEF WorkerEffect, Ahead, group
<1>2. /\ v \in WorkerStates(Offsets(p)) /\ Shape(v) /\ c \in Nat /\ committed'[p] \in Nat
      /\ position[p] \in Nat /\ Len(t) \in Nat
  BY LenProperties DEF Ahead, Inv, TypeOK, Local
<1>3. /\ Len(v.batch) \in Nat /\ Len(v.pending) \in Nat
      /\ Len(w.batch) \in Nat /\ Len(w.pending) \in Nat
  BY <1>2, WorkTypes
<1>4. LocalToOne(i, p)
  BY DEF Ahead, OneInstanceInv
<1>5. Sizes(w, t)
  <2>1. w.pc = "select" => Len(w.batch) = 0
    BY DEF Advances
  <2>2. Len(w.batch) + Len(w.pending) <= Len(v.batch) + Len(v.pending)
    BY DEF Advances
  <2>3. Len(t) <= QueueSize /\ Len(v.batch) + Len(v.pending) <= BatchSize
    BY <1>4 DEF LocalToOne, Sizes
  <2>4. Len(w.batch) + Len(w.pending) <= BatchSize
    <3> HIDE DEF v, t
    <3>1. \A a, b, k, l \in Nat : a + b <= k + l /\ k + l <= BatchSize => a + b <= BatchSize
      BY ConsumerAssumption
    <3> QED
      BY <1>3, <2>2, <2>3, <3>1
  <2>5. w.pc = "select" => Len(w.batch) < BatchSize
    BY <2>1, ConsumerAssumption
  <2> QED
    BY <2>3, <2>4, <2>5 DEF Sizes
<1>6. Works(w, End(w, committed'[p]), committed'[p])
  <2>1. Works(v, End(v, c), c) /\ End(v, c) \in Int
    BY <1>2, <1>4, EndType DEF LocalToOne
  <2>2. Works(w, End(v, c), committed'[p])
    BY <2>1 DEF Advances
  <2> QED
    BY <1>1, <1>2, <2>1, <2>2, WorkEnds
<1>7. /\ \A o \in Range(w.batch) : Decodable(p, o)
      /\ \A o \in Range(w.pending) : Decodable(p, o) \/ BatchBefore(p, o)'
  <2>1. \A x : BatchBefore(p, x) => BatchBefore(p, x)'
    BY CoveredGoesOn
  <2> QED
    BY <1>4, <2>1 DEF LocalToOne, Advances
<1>8. ASSUME ~Cancelled(i)', owner[p] = i
      PROVE  Unbroken(i, p)'
  <2>1. Unbroken(i, p)
    BY <1>4, <1>8 DEF LocalToOne
  <2> DEFINE n == SentTo(i, p) - Len(t)
  <2>2. n \in Int
    <3>1. SentTo(i, p) \in Int
      BY <1>2 DEF SentTo
    <3> HIDE DEF t
    <3> QED
      BY <1>2, <3>1
  <2>3. Held(i, p)' = Held(i, p) /\ SentTo(i, p)' = SentTo(i, p)
    BY <1>1 DEF Held, SentTo
  <2>4. Works(v, n, c) /\ First(v, n) <= c
    BY <2>1 DEF Unbroken
  <2> HIDE DEF n
  <2>5. Works(w, n, committed'[p]) /\ First(w, n) <= committed'[p]
    BY <1>8, <2>2, <2>4 DEF Advances
  <2> QED
    BY <1>1, <2>1, <2>3, <2>5 DEF Unbroken, n
<1>9. ASSUME ~Cancelled(i)', owner[p] # i
      PROVE  HoldsNothing(i, p)'
  <2>1. HoldsNothing(i, p)
    BY <1>4, <1>9 DEF LocalToOne
  <2>2. Len(v.batch) = 0 /\ Len(v.pending) = 0
    BY <2>1 DEF HoldsNothing
  <2>3. Len(w.batch) = 0 /\ Len(w.pending) = 0
    <3>1. Len(w.batch) + Len(w.pending) <= Len(v.batch) + Len(v.pending)
      BY DEF Advances
    <3>2. \A a, b, k, l \in Nat : a + b <= k + l /\ k = 0 /\ l = 0 => a = 0 /\ b = 0
      OBVIOUS
    <3> QED
      BY <1>3, <2>2, <3>1, <3>2
  <2>4. w.batch = <<>> /\ w.pending = <<>>
    BY <1>2, <2>3, WorkTypes, EmptySeq
  <2>5. Held(i, p)' = Held(i, p)
    BY <1>1 DEF Held
  <2> QED
    BY <1>1, <2>1, <2>4, <2>5 DEF HoldsNothing
<1> QED
  BY <1>1, <1>5, <1>6, <1>7, <1>8, <1>9 DEF LocalToOne

(* Every step of a worker keeps the invariant of all workers. *)
LEMMA WorkerKeepsOne ==
  ASSUME Ahead, NEW i \in Instances, NEW p \in Partitions, WorkerStep(i, p), NEW q \in Partitions
  PROVE  LocalToOne(i, q)'
<1>1. PICK w \in WorkerStates(Offsets(p)) :
        /\ WorkerEffect(i, p, w)
        /\ Receive(i, p) \/ (Advances(i, p, w) /\ UNCHANGED chan)
  BY WorkerFacts, StepsOfAWorker, WorkerAdvances DEF WorkerStep, Ahead
<1>2. Cancelled(i) => Cancelled(i)'
  BY WorkerAdvances DEF WorkerStep, Ahead, Receive, process, Cancelled
<1>3. CASE q = p
  BY <1>1, <1>2, <1>3, ReceiveKeepsThis, AdvanceKeepsThis
<1>4. CASE q # p
  <2>1. worker'[i][q] = worker[i][q]
    BY <1>1, <1>4, WorkerFacts, OneWorkerChanges DEF WorkerEffect, Ahead
  <2>2. chan'[i][q] = chan[i][q] /\ committed'[q] = committed[q]
    <3>1. CASE Receive(i, p)
      BY <1>4, <3>1 DEF Receive, external, Ahead, Inv, TypeOK
    <3>2. CASE Advances(i, p, w) /\ UNCHANGED chan
      BY <1>4, <3>2 DEF Advances
    <3> QED
      BY <1>1, <3>1, <3>2
  <2>3. UNCHANGED <<owner, position, hand>>
    BY <1>1 DEF WorkerEffect, group
  <2>4. Held(i, q)' = Held(i, q)
    BY <2>3 DEF Held
  <2> QED
    BY <1>2, <2>1, <2>2, <2>3, <2>4, UntouchedKept
<1> QED
  BY <1>3, <1>4

----------------------------------------------------------------------------
(* Dead letters, and the invariant as a whole. *)

(* What a worker is about to dead-letter has at most a batch missing below. *)
LEMMA DeadLettersKept ==
  ASSUME Ahead, [Next]_vars, NEW p \in Partitions
  PROVE  DeadLettersKnown(p)'
<1>1. DeadLettersKnown(p)
  BY DEF Ahead, OneInstanceInv
<1>2. \A n \in Offsets(p) : Accounted(p, n) => Accounted(p, n)'
  <2>1. dlq \subseteq dlq' /\ \A n : Handled(p, n) => Handled(p, n)'
    BY CoveredGoesOn DEF Ahead, Grows
  <2> QED
    BY <2>1 DEF Accounted
<1>3. ASSUME NEW q \in Offsets(p), ~Decodable(p, q), <<p, q>> \in dlq', <<p, q>> \notin dlq,
             NEW n \in Offsets(p), n < q
      PROVE  Accounted(p, n)'
  <2>1. PICK i \in Instances : /\ worker[i][p].pc = "dlq"
                               /\ q = Head(worker[i][p].pending)
    <3>1. PICK i \in Instances :
            \/ Boot(i) \/ Signal(i) \/ Crash(i) \/ LoopStep(i)
            \/ \E r \in Partitions : Assign(r, i) \/ WorkerStep(i, r)
      BY <1>3 DEF Next, vars
    <3>2. CASE Boot(i) \/ Signal(i) \/ Crash(i) \/ LoopStep(i) \/ \E r \in Partitions : Assign(r, i)
      BY <1>3, <3>2 DEF Boot, Signal, Crash, LoopStep, LoopReturns, Drained, DrainTimeout,
                        CloseReader, Exit, Fetch, Dispatch, Assign, external
    <3>3. ASSUME NEW r \in Partitions, WorkerStep(i, r)
          PROVE  RoutedToDLQ(i, r) \/ DLQFailed(i, r)
      BY <1>3, <3>3 DEF WorkerStep, Receive, ReceiveClosed, Tick, FlushStep, BulkAborted,
           BulkStored, BulkFailed, BulkCommitted, BulkCommitFailed, MessageStep, Refused,
           MessageAborted, MessageStored, MessageFailed, DLQFatal, MessageCommitted,
           MessageCommitFailed, external
    <3>4. ASSUME NEW r \in Partitions, RoutedToDLQ(i, r) \/ DLQFailed(i, r)
          PROVE  worker[i][p].pc = "dlq" /\ q = Head(worker[i][p].pending)
      <4>1. /\ worker[i][r].pc = "dlq"
            /\ dlq' = dlq \/ dlq' = dlq \cup {<<r, Head(worker[i][r].pending)>>}
        BY <3>4 DEF RoutedToDLQ, DLQFailed
      <4>2. <<p, q>> = <<r, Head(worker[i][r].pending)>>
        BY <1>3, <4>1
      <4> QED
        BY <4>1, <4>2
    <3> QED
      BY <3>1, <3>2, <3>3, <3>4
  <2>2. q \in Range(worker[i][p].pending)
    <3>1. worker[i][p].pending # <<>> /\ worker[i][p].pending \in Seq(Offsets(p))
      BY <2>1, WorkerFacts DEF Ahead, Shape
    <3>2. 1 \in DOMAIN worker[i][p].pending
      BY <3>1, LenProperties, EmptySeq
    <3> QED
      BY <2>1, <3>1, <3>2 DEF Range
  <2>3. BatchBefore(p, q)
    BY <1>3, <2>2 DEF Ahead, OneInstanceInv, LocalToOne
  <2>4. q \in Nat /\ n \in Nat
    BY OffsetsAreNumbers
  <2>5. CASE n + BatchSize <= q
    <3>1. n \in Covered(p)
      BY <2>3, <2>5 DEF BatchBefore
    <3>2. Accounted(p, n)
      <4>1. CASE Handled(p, n)
        BY <4>1 DEF Accounted
      <4>2. CASE DroppedBehindFlush(p, n)
        BY <1>1, <4>2 DEF DroppedBehindFlush, DeadLettersKnown
      <4> QED
        BY <3>1, <4>1, <4>2 DEF Covered
    <3> QED
      BY <1>2, <3>2
  <2>6. CASE ~(n + BatchSize <= q)
    <3>1. q > n /\ q - n < BatchSize
      BY <1>3, <2>4, <2>6, ConsumerAssumption
    <3> QED
      BY <1>3, <3>1 DEF Accounted
  <2> QED
    BY <2>5, <2>6
<1> QED
  BY <1>1, <1>2, <1>3 DEF DeadLettersKnown

(* The line of one instance stays a run: one step per action of Next. *)
LEMMA NextKeepsOne ==
  ASSUME OneInstance, Inv, OneInstanceInv, [Next]_vars
  PROVE  OneInstanceInv'
<1>1. Ahead
  BY NextKeepsInv, StepsGrow DEF Ahead
<1>2. \A p \in Partitions : DeadLettersKnown(p)'
  BY <1>1, DeadLettersKept
<1>3. ASSUME NEW j \in Instances, NEW q \in Partitions
      PROVE  LocalToOne(j, q)'
  <2>1. CASE UNCHANGED vars
    <3>1. Held(j, q)' = Held(j, q)
      BY <2>1 DEF vars, Held
    <3> QED
      BY <1>1, <2>1, <3>1, UntouchedKept DEF vars, Cancelled
  <2>2. CASE Next
    <3>1. /\ \/ Boot(j) \/ Signal(j) \/ Crash(j)
             \/ LoopStep(j)
             \/ \E p \in Partitions : Assign(p, j) \/ WorkerStep(j, p)
      BY <2>2 DEF Next, OneInstance
    <3>2. CASE Boot(j) \/ Signal(j)
      <4>1. Held(j, q)' = Held(j, q)
        BY <3>2 DEF Boot, Signal, Held
      <4>2. Cancelled(j) => Cancelled(j)'
        BY <3>2 DEF Boot, Signal, Cancelled
      <4> QED
        BY <1>1, <3>2, <4>1, <4>2, UntouchedKept DEF Boot, Signal, external, group
    <3>3. CASE Crash(j) \/ Exit(j)
      <4>1. Forget(j) /\ UNCHANGED committed
        BY <3>3 DEF Crash, Exit, external
      <4>2. \A p \in Partitions : owner'[p] # j
        <5>1. CASE Crash(j)
          BY <5>1, ConsumerAssumption DEF Crash, LeaveGroup
        <5>2. CASE Exit(j)
          BY <5>2 DEF Exit, group, Inv, Stopping
        <5> QED
          BY <3>3, <5>1, <5>2
      <4> QED
        BY <1>1, <4>1, <4>2, ForgottenHoldsNothing
    <3>4. CASE LoopReturns(j) \/ CloseReader(j)
      <4>1. Cancelled(j)
        BY <3>4 DEF LoopReturns, CloseReader, Inv, Stopping
      <4>2. Cancelled(j)' /\ UNCHANGED <<worker, chan, committed>>
        BY <3>4, <4>1 DEF LoopReturns, CloseReader, external, Cancelled
      <4> QED
        BY <1>1, <4>2, StoppingKept
    <3>5. ASSUME NEW p \in Partitions,
                 Fetch(j, p) \/ Dispatch(j, p) \/ Assign(p, j) \/ WorkerStep(j, p)
          PROVE  LocalToOne(j, q)'
      BY <1>1, <3>5, FetchKeepsOne, DispatchKeepsOne, AssignKeepsOne, WorkerKeepsOne
    <3> QED
      BY <3>1, <3>2, <3>3, <3>4, <3>5 DEF LoopStep, Drained, DrainTimeout
  <2> QED
    BY <2>1, <2>2
<1> QED
  BY <1>2, <1>3 DEF OneInstanceInv

(* Neither crashes nor lost answers nor shutdowns break the run. *)
THEOREM OneInstanceInvariance ==
  ASSUME OneInstance
  PROVE  Spec => []OneInstanceInv
<1>1. Inv /\ OneInstanceInv /\ [Next]_vars => OneInstanceInv'
  BY NextKeepsOne
<1> QED
  BY <1>1, InitOneInstance, Invariance, PTL DEF Spec

----------------------------------------------------------------------------
(* What follows for one instance. *)

(* Backpressure: a live instance reads at most a full channel, a full batch  *)
(* and the message in its hand ahead of what it has committed, whatever      *)
(* commits lose their answers; this bounds what a crash delivers again.      *)
THEOREM FetchedBoundedHolds ==
  ASSUME OneInstance
  PROVE  Spec => []FetchedBounded
<1>1. Inv /\ OneInstanceInv => FetchedBounded
  <2> SUFFICES ASSUME Inv, OneInstanceInv, NEW p \in Partitions, NEW i \in Instances,
                      owner[p] = i, ~Cancelled(i)
               PROVE  position[p] <= committed[p] + QueueSize + BatchSize + 1
    BY DEF FetchedBounded
  <2> DEFINE v == worker[i][p]
             t == chan[i][p]
  <2>1. Unbroken(i, p) /\ Sizes(v, t)
    BY DEF OneInstanceInv, LocalToOne
  <2>2. /\ position[p] \in Nat /\ committed[p] \in Nat
        /\ v \in WorkerStates(Offsets(p)) /\ Len(t) \in Nat
    BY LenProperties DEF Inv, TypeOK
  <2>3. Len(v.batch) \in Nat /\ Len(v.pending) \in Nat
    BY <2>2, WorkTypes
  <2>4. SentTo(i, p) \in Int /\ position[p] <= SentTo(i, p) + 1
    BY <2>2 DEF SentTo
  <2>5. SentTo(i, p) - Len(t) - Len(v.pending) - Len(v.batch) <= committed[p]
    BY <2>1 DEF Unbroken, First
  <2>6. Len(t) <= QueueSize /\ Len(v.batch) + Len(v.pending) <= BatchSize
    BY <2>1 DEF Sizes
  <2> HIDE DEF v, t
  <2>7. \A m \in Int : \A q, b, k, x, y \in Nat :
          /\ x <= m + 1 /\ m - q - k - b <= y /\ q <= QueueSize /\ b + k <= BatchSize
          => x <= y + QueueSize + BatchSize + 1
    BY ConsumerAssumption
  <2> QED
    BY <2>2, <2>3, <2>4, <2>5, <2>6, <2>7
<1> QED
  BY <1>1, Invariance, OneInstanceInvariance, PTL

(* A shutdown loses at most the batch in front of one undecodable message:   *)
(* an offset committed past without being handled lies less than BatchSize   *)
(* before a dead letter.                                                     *)
THEOREM LossWithinOneBatchHolds ==
  ASSUME OneInstance
  PROVE  Spec => []LossWithinOneBatch
<1>1. Inv /\ OneInstanceInv => LossWithinOneBatch
  <2> SUFFICES ASSUME Inv, OneInstanceInv, NEW p \in Partitions, NEW o \in Offsets(p),
                      o < committed[p], ~Handled(p, o)
               PROVE  Accounted(p, o)
    BY DEF LossWithinOneBatch, Accounted
  <2>1. o \in Covered(p)
    BY DEF Inv, Below
  <2>2. DroppedBehindFlush(p, o)
    BY <2>1 DEF Covered
  <2> QED
    BY <2>2 DEF DroppedBehindFlush, OneInstanceInv, DeadLettersKnown
<1> QED
  BY <1>1, Invariance, OneInstanceInvariance, PTL

(* The group's offset of a partition never moves back, not even by a commit  *)
(* that is tried again after its answer was lost.                            *)
THEOREM CommitsNeverRewindHolds ==
  ASSUME OneInstance
  PROVE  Spec => CommitsNeverRewind
<1> DEFINE Forward == \A p \in Partitions : committed'[p] >= committed[p]
<1>1. Inv /\ OneInstanceInv /\ [Next]_vars => [Forward]_vars
  <2> SUFFICES ASSUME Inv, OneInstanceInv, Next, NEW q \in Partitions
               PROVE  committed'[q] >= committed[q]
    OBVIOUS
  <2>1. committed[q] \in Nat
    BY DEF Inv, TypeOK
  <2>2. PICK i \in Instances :
          \/ Boot(i) \/ Signal(i) \/ Crash(i)
          \/ LoopStep(i)
          \/ \E p \in Partitions : Assign(p, i) \/ WorkerStep(i, p)
    BY DEF Next
  <2>3. CASE Boot(i) \/ Signal(i) \/ Crash(i) \/ LoopStep(i) \/ \E p \in Partitions : Assign(p, i)
    BY <2>1, <2>3 DEF Boot, Signal, Crash, LoopStep, LoopReturns, Drained, DrainTimeout,
                      CloseReader, Exit, Fetch, Dispatch, Assign, external
  <2>4. ASSUME NEW p \in Partitions, WorkerStep(i, p)
        PROVE  committed'[q] >= committed[q]
    <3>1. CASE Receive(i, p)
      BY <2>1, <3>1 DEF Receive, external
    <3>2. CASE ~Receive(i, p)
      <4>1. PICK w : Advances(i, p, w)
        BY <2>4, <3>2, WorkerAdvances DEF WorkerStep
      <4>2. CASE q # p
        BY <2>1, <4>1, <4>2 DEF Advances
      <4>3. CASE q = p
        <5> DEFINE n == End(worker[i][p], committed[p])
        <5>1. n \in Int
          BY EndType DEF Inv, TypeOK
        <5>2. Works(worker[i][p], n, committed[p])
          BY DEF OneInstanceInv, LocalToOne
        <5> HIDE DEF n
        <5>3. committed[p] <= committed'[p]
          BY <4>1, <5>1, <5>2 DEF Advances
        <5>4. committed'[p] \in Nat
          BY NextKeepsInv DEF Inv, TypeOK
        <5> QED
          BY <2>1, <4>3, <5>3, <5>4
      <4> QED
        BY <4>2, <4>3
    <3> QED
      BY <3>1, <3>2
  <2> QED
    BY <2>2, <2>3, <2>4
<1> QED
  BY <1>1, Invariance, OneInstanceInvariance, PTL DEF Spec, CommitsNeverRewind

----------------------------------------------------------------------------
(***************************************************************************)
(* Each instance implements Process, whatever the group does: this needs   *)
(* no assumption on how many there are.                                    *)
(***************************************************************************)

(* A process that is down has no goroutines and a fresh context. *)
Asleep ==
  \A i \in Instances : phase[i] = "down" =>
    ctx[i] = "live" /\ \A p \in Partitions : worker[i][p].pc = "absent"

(* A worker's step leaves no process that is down with a worker. *)
LEMMA AsleepKept ==
  ASSUME Inv, Asleep, [Next]_vars
  PROVE  Asleep'
<1>1. /\ phase \in [Instances -> Phases]
      /\ worker \in [Instances -> [Partitions -> WorkerStates(Nat)]]
      /\ ctx \in [Instances -> {"live", "signalled", "fatal"}]
  BY DEF Inv, TypeOK
<1>2. CASE UNCHANGED vars
  BY <1>2 DEF vars, Asleep
<1>3. CASE Next
  <2> PICK i \in Instances :
        \/ Boot(i) \/ Signal(i) \/ Crash(i)
        \/ LoopStep(i)
        \/ \E p \in Partitions : Assign(p, i) \/ WorkerStep(i, p)
    BY <1>3 DEF Next
  <2>1. CASE Boot(i) \/ Signal(i) \/ LoopReturns(i) \/ CloseReader(i)
    BY <1>1, <2>1 DEF Boot, Signal, LoopReturns, CloseReader, Asleep, Cancelled
  <2>2. CASE Crash(i) \/ Exit(i)
    BY <1>1, <2>2 DEF Crash, Exit, Forget, NoWorker, Asleep
  <2>3. ASSUME NEW p \in Partitions, Fetch(i, p) \/ Assign(p, i)
        PROVE  Asleep'
    BY <2>3 DEF Fetch, Assign, process, Asleep
  <2>4. ASSUME NEW p \in Partitions, Dispatch(i, p)
        PROVE  Asleep'
    <3>1. /\ phase[i] = "running" /\ UNCHANGED <<phase, ctx>>
          /\ \A j \in Instances : j # i => worker'[j] = worker[j]
      BY <1>1, <2>4 DEF Dispatch
    <3> QED
      BY <3>1 DEF Asleep
  <2>5. ASSUME NEW p \in Partitions, WorkerStep(i, p)
        PROVE  Asleep'
    <3>1. PICK w \in WorkerStates(Offsets(p)) : WorkerEffect(i, p, w)
      BY <2>5, WorkerFacts, StepsOfAWorker
    <3>2. phase' = phase /\ \A j \in Instances : j # i => worker'[j] = worker[j]
      BY <1>1, <3>1 DEF WorkerEffect, Become
    <3>3. worker[i][p].pc # "absent"
      BY <2>5 DEF WorkerStep, Receive, ReceiveClosed, Tick, FlushStep, MessageStep, BulkAborted,
         BulkStored, BulkFailed, BulkCommitted, BulkCommitFailed, Refused, MessageAborted,
         MessageStored, MessageFailed, RoutedToDLQ, DLQFailed, DLQFatal, MessageCommitted,
         MessageCommitFailed
    <3>4. \A j \in Instances : j # i => ctx'[j] = ctx[j]
      BY <1>1, <2>5 DEF WorkerStep, Receive, ReceiveClosed, Tick, FlushStep, MessageStep,
         BulkAborted, BulkStored, BulkFailed, BulkCommitted, BulkCommitFailed, Refused,
         MessageAborted, MessageStored, MessageFailed, RoutedToDLQ, DLQFailed, DLQFatal,
         MessageCommitted, MessageCommitFailed, process
    <3> QED
      BY <3>2, <3>3, <3>4 DEF Asleep
  <2> QED
    BY <2>1, <2>2, <2>3, <2>4, <2>5 DEF LoopStep, Drained, DrainTimeout
<1> QED
  BY <1>2, <1>3

(* What one step of the group is to each instance. *)
LEMMA StepIsOfProcesses ==
  ASSUME Inv, Asleep, [Next]_vars
  PROVE  [\A j \in Instances : [Seen(j)!Next]_(Seen(j)!vars)]_vars
<1> SUFFICES ASSUME Next, NEW j \in Instances
             PROVE  [Seen(j)!Next]_(Seen(j)!vars)
  OBVIOUS
<1>1. phase \in [Instances -> Phases] /\ ctx \in [Instances -> {"live", "signalled", "fatal"}]
  BY DEF Inv, TypeOK
<1> PICK i \in Instances :
      \/ Boot(i) \/ Signal(i) \/ Crash(i)
      \/ LoopStep(i)
      \/ \E p \in Partitions : Assign(p, i) \/ WorkerStep(i, p)
  BY DEF Next
<1>2. Stopping(i)
  BY DEF Inv
<1> USE DEF Seen!Next, Seen!vars
<1>3. CASE Boot(i)
  BY <1>1, <1>3 DEF Boot, Asleep, Seen!Start
<1>4. CASE Signal(i)
  BY <1>1, <1>4 DEF Signal, Cancelled, Seen!Cancel, Seen!Stops
<1>5. CASE Crash(i)
  BY <1>1, <1>5 DEF Crash, Forget, Seen!Die
<1>6. CASE LoopReturns(i)
  BY <1>1, <1>6 DEF LoopReturns, Cancelled, Seen!StopFetching, Seen!Stops
<1>7. CASE CloseReader(i)
  BY <1>1, <1>7 DEF CloseReader, Seen!Close
<1>8. CASE Exit(i)
  BY <1>1, <1>8 DEF Exit, Forget, Seen!End
<1>9. ASSUME NEW p \in Partitions, Fetch(i, p) \/ Dispatch(i, p) \/ Assign(p, i)
      PROVE  UNCHANGED Seen(j)!vars
  BY <1>9 DEF Fetch, Dispatch, Assign, process
<1>10. ASSUME NEW p \in Partitions, WorkerStep(i, p), ~DLQFatal(i, p)
       PROVE  UNCHANGED Seen(j)!vars
  BY <1>10 DEF WorkerStep, Receive, ReceiveClosed, Tick, FlushStep, MessageStep, BulkAborted,
     BulkStored, BulkFailed, BulkCommitted, BulkCommitFailed, Refused, MessageAborted,
     MessageStored, MessageFailed, RoutedToDLQ, DLQFailed, MessageCommitted, MessageCommitFailed,
     process
<1>11. ASSUME NEW p \in Partitions, DLQFatal(i, p)
       PROVE  [Seen(j)!Next]_(Seen(j)!vars)
  <2>1. worker[i][p].pc = "dlq" /\ UNCHANGED phase
    BY <1>11 DEF DLQFatal
  <2>2. ctx[i] = "live" => phase[i] = "running"
    BY <1>1, <1>2, <2>1 DEF Asleep, Stopping, Cancelled, Phases
  <2> QED
    BY <1>1, <1>11, <2>1, <2>2 DEF DLQFatal, Seen!Cancel, Seen!Stops
<1> QED
  BY <1>3, <1>4, <1>5, <1>6, <1>7, <1>8, <1>9, <1>10, <1>11 DEF LoopStep, Drained, DrainTimeout

(* Every step of the group is a step of each instance's Process, or leaves   *)
(* it alone: a signal or a fatal error cancels a running instance only, a    *)
(* worker left behind by a shutdown never does.                              *)
THEOREM InstancesAreProcessesHolds == Spec => InstancesAreProcesses
<1> DEFINE Stepwise == \A i \in Instances : [Seen(i)!Next]_(Seen(i)!vars)
<1>1. Init => \A i \in Instances : Seen(i)!Init
  BY DEF Init, Seen!Init
<1>2. Init => Asleep
  BY DEF Init, Asleep, NoWorker
<1>3. Inv /\ Asleep /\ [Next]_vars => Asleep'
  BY AsleepKept
<1>4. Inv /\ Asleep /\ [Next]_vars => [Stepwise]_vars
  BY StepIsOfProcesses
<1> QED
  BY <1>1, <1>2, <1>3, <1>4, Invariance, PTL DEF Spec, InstancesAreProcesses
=============================================================================
