------------------------------- MODULE Ledger -------------------------------
(***************************************************************************)
(* What the processor promises to whoever produces to the topic and reads  *)
(* the table, without saying how: messages of a partition are settled in   *)
(* order, in the table or in the dead letter queue, and the group only     *)
(* acknowledges offsets below which everything is settled.  A restart may  *)
(* settle a message again, and an acknowledgement may move back.           *)
(***************************************************************************)
EXTENDS Topic

VARIABLES db, dlq, committed

Settled(p, o) == (Storable(p, o) /\ Key(p, o) \in db) \/ <<p, o>> \in dlq

(* Everything below offset o is settled, apart from the messages of s. *)
SettledBelow(p, o, s) ==
  \A n \in Offsets(p) : n < o => Settled(p, n) \/ n \in s

Init == db = {} /\ dlq = {} /\ committed = [p \in Partitions |-> 1]

(* A statement stores the rows of a set of messages that leaves no gap. *)
Store(p, s) ==
  /\ \A o \in s : Storable(p, o) /\ SettledBelow(p, o, s)
  /\ db' = db \cup {Key(p, o) : o \in s}
  /\ UNCHANGED <<dlq, committed>>

(* A message that cannot be stored is put aside. *)
PutAside(p, o) ==
  /\ SettledBelow(p, o, {})
  /\ dlq' = dlq \cup {<<p, o>>}
  /\ UNCHANGED <<db, committed>>

Acknowledge(p, o) ==
  /\ SettledBelow(p, o + 1, {})
  /\ committed' = [committed EXCEPT ![p] = o + 1]
  /\ UNCHANGED <<db, dlq>>

Next ==
  \E p \in Partitions :
    \/ \E s \in SUBSET Offsets(p) : Store(p, s)
    \/ \E o \in Offsets(p) : PutAside(p, o) \/ Acknowledge(p, o)

Spec == Init /\ [][Next]_<<db, dlq, committed>>
=============================================================================
