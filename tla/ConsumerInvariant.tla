------------------------- MODULE ConsumerInvariant -------------------------
(***************************************************************************)
(* The inductive invariant behind LossOnlyBehindFlush.                     *)
(*                                                                         *)
(* While an instance is not stopping, the offsets it holds of a partition  *)
(* form a line (batch, pending, channel, hand, what the reader delivers    *)
(* next) and nothing is missing in front of any of them: a smaller offset  *)
(* is covered or stands further ahead in the line.  A stopping instance    *)
(* drops messages, so its line has gaps; what it may still commit is       *)
(* therefore pinned down the moment it becomes certain.                    *)
(***************************************************************************)
EXTENDS Consumer, Functions

(* The offsets a commit may leave behind. *)
Covered(p) == {o \in Offsets(p) : Handled(p, o) \/ DroppedBehindFlush(p, o)}

(* Every offset below o is in S. *)
Below(p, o, S) == \A n \in Offsets(p) : n < o => n \in S

(* Every offset below an element of s is in S or an earlier element of s. *)
Queued(p, s, S) ==
  \A k \in DOMAIN s : Below(p, s[k], S \cup {s[j] : j \in 1..(k - 1)})

(***************************************************************************)
(* No offset is missing in a line: what a worker has in its batch and      *)
(* pending, what its channel and the fetch loop's hand hold, and what the  *)
(* reader delivers next, given the covered offsets C.                      *)
(***************************************************************************)
Line(p, C, batch, pending, queue, held, next) ==
  LET B == C \cup Range(batch)
      W == B \cup Range(pending)
      M == W \cup Range(queue)
  IN  /\ Queued(p, batch, C)
      /\ Queued(p, pending, B)
      /\ Queued(p, queue, W)
      /\ \A o \in held : Below(p, o, M)
      /\ \A o \in next : Below(p, o, M \cup held)

Held(i, p) == {o \in Offsets(p) : <<p, o>> \in hand[i]}

(* The offset the reader of instance i delivers next, if p is assigned to it. *)
Upcoming(i, p) == {n \in {position[p]} : owner[p] = i}

InLine(i, p) ==
  Line(p, Covered(p), worker[i][p].batch, worker[i][p].pending, chan[i][p],
       Held(i, p), Upcoming(i, p))

(* The rows of a batch that is being committed are stored, and a decodable   *)
(* message on its way to the DLQ, or any message being committed, has        *)
(* nothing missing below it, whatever became of appCtx in the meantime.      *)
Certain(i, p) ==
  LET w == worker[i][p] IN
  /\ w.pc = "bulkCommit" =>
       \A o \in Range(w.batch) : Handled(p, o) /\ Below(p, o, Covered(p))
  /\ w.pc = "dlq" /\ Decodable(p, Head(w.pending)) =>
       Below(p, Head(w.pending), Covered(p))
  /\ w.pc = "commit" =>
       Handled(p, Head(w.pending)) /\ Below(p, Head(w.pending), Covered(p))

(* What a worker holds at each of its steps. *)
Shape(w) ==
  /\ w.pc \in {"absent", "select"} => w.pending = <<>>
  /\ w.pc = "absent" => w.batch = <<>>
  /\ w.pc \in {"bulk", "bulkCommit"} => w.batch # <<>>
  /\ w.pc \in {"handle", "dlq", "commit"} => w.batch = <<>> /\ w.pending # <<>>

(* Why an appCtx is cancelled, and what a stopping instance has let go of. *)
Stopping(i) ==
  /\ ctx[i] = "signalled" => faults["signal"] > 0
  /\ ctx[i] = "fatal" => ~DLQWriter
  /\ phase[i] \in {"draining", "closed"} => Cancelled(i)
  /\ \A p \in Partitions : owner[p] = i => phase[i] \in {"running", "draining"}
  /\ \A m, n \in hand[i] : m = n

(* What holds of instance i and its worker of partition p. *)
Local(i, p) ==
  /\ Shape(worker[i][p])
  /\ Certain(i, p)
  /\ ~Cancelled(i) => InLine(i, p)

Inv ==
  /\ TypeOK
  /\ faults["signal"] <= MaxFaults["signal"]
  /\ ~DLQWriter => dlq = {}
  /\ \A p \in Partitions : Below(p, committed[p], Covered(p))
  /\ \A i \in Instances : Stopping(i)
  /\ \A i \in Instances, p \in Partitions : Local(i, p)
----------------------------------------------------------------------------
(***************************************************************************)
(* What more is inductive for one instance without rebalances: its line is *)
(* a run of consecutive offsets that starts at the committed one, but for  *)
(* the offsets of a commit whose answer was lost.  FetchedBounded,         *)
(* CommitsNeverRewind and LossWithinOneBatch rest on it.                   *)
(***************************************************************************)

(* s holds the offsets that end just below n. *)
Run(s, n) == \A k \in DOMAIN s : s[k] = n - Len(s) + k - 1

(* Where the work of worker w begins, when it ends just below n. *)
First(w, n) == n - Len(w.pending) - Len(w.batch)

(* Where the work of w ends; nothing to do ends at the committed offset c. *)
End(w, c) ==
  IF w.pending # <<>> THEN w.pending[Len(w.pending)] + 1
  ELSE IF w.batch # <<>> THEN w.batch[Len(w.batch)] + 1
  ELSE c

(* How many offsets the commit worker w is about may have got past already. *)
Committing(w) ==
  CASE w.pc = "bulkCommit" -> Len(w.batch) [] w.pc = "commit" -> 1 [] OTHER -> 0

(* The work of w is a run that ends just below n, and nothing of it is       *)
(* committed, but for the offsets of a commit under way.                     *)
Works(w, n, c) ==
  /\ Run(w.pending, n) /\ Run(w.batch, n - Len(w.pending))
  /\ c <= First(w, n) + Committing(w)

(* A worker stops reading when its batch is full, and a send when the        *)
(* channel is.                                                               *)
Sizes(w, queue) ==
  /\ Len(queue) <= QueueSize
  /\ Len(w.batch) + Len(w.pending) <= BatchSize
  /\ w.pc = "select" => Len(w.batch) < BatchSize

(* Where what the fetch loop has sent to the channels of partition p ends. *)
SentTo(i, p) == IF Held(i, p) = {} THEN position[p] ELSE position[p] - 1

(* The line of a live instance has no gap and begins at the committed offset *)
(* or, when the answer of a commit was lost, below it.                       *)
Unbroken(i, p) ==
  LET n == SentTo(i, p) - Len(chan[i][p]) IN
  /\ Held(i, p) \subseteq {position[p] - 1}
  /\ Run(chan[i][p], SentTo(i, p))
  /\ Works(worker[i][p], n, committed[p])
  /\ First(worker[i][p], n) <= committed[p]

HoldsNothing(i, p) ==
  /\ Held(i, p) = {} /\ chan[i][p] = <<>>
  /\ worker[i][p].batch = <<>> /\ worker[i][p].pending = <<>>

(* Below q only offsets that one batch may hold in front of q are missing. *)
BatchBefore(p, q) == \A n \in Offsets(p) : n + BatchSize <= q => n \in Covered(p)

LocalToOne(i, p) ==
  LET w == worker[i][p] IN
  /\ Sizes(w, chan[i][p])
  /\ \A o \in Range(w.batch) : Decodable(p, o)
  /\ \A o \in Range(w.pending) : Decodable(p, o) \/ BatchBefore(p, o)
  /\ Works(w, End(w, committed[p]), committed[p])
  /\ ~Cancelled(i) => IF owner[p] = i THEN Unbroken(i, p) ELSE HoldsNothing(i, p)

(* Handled, or dropped in the batch in front of an undecodable message. *)
Accounted(p, o) ==
  \/ Handled(p, o)
  \/ \E q \in Offsets(p) : q > o /\ q - o < BatchSize /\ ~Decodable(p, q) /\ <<p, q>> \in dlq

DeadLettersKnown(p) ==
  \A q \in Offsets(p) : ~Decodable(p, q) /\ <<p, q>> \in dlq =>
    \A n \in Offsets(p) : n < q => Accounted(p, n)

OneInstanceInv ==
  /\ \A p \in Partitions : DeadLettersKnown(p)
  /\ \A i \in Instances, p \in Partitions : LocalToOne(i, p)
=============================================================================
