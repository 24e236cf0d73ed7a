---------------------------- MODULE MCConsumer ----------------------------
(***************************************************************************)
(* Small instances of Consumer for TLC: the topics and the fault budgets   *)
(* its configurations choose from.                                         *)
(***************************************************************************)
EXTENDS ConsumerInvariant, TLC

CONSTANTS i1, i2,       \* instances of the group
          p1, p2,       \* partitions
          a, b, c, d    \* keys

Msg(k, x) == [kind |-> k, key |-> x]
Good(x) == Msg("storable", x)
BadRow(x) == Msg("unstorable", x)
Garbage(x) == Msg("undecodable", x)

(* A batch cut short by garbage, twice, and more messages than a channel, a  *)
(* batch and a hand hold together.                                           *)
GarbageLog == p1 :> <<Good(a), Good(b), Garbage(c), Good(d), Garbage(c)>>

(* The row nobody can store fails its batch; garbage waits behind it.        *)
MixedLog == p1 :> <<Good(a), BadRow(b), Garbage(c)>>

(* Two partitions that compete for the fetch loop; garbage and a bad row,    *)
(* each with a good message next to it.                                      *)
TwoLogs == p1 :> <<Garbage(a), Good(b)>> @@ p2 :> <<Good(c), BadRow(d)>>

(* Decodable messages only, one of which is produced twice.                  *)
DecodableLog == p1 :> <<Good(a), BadRow(b), Good(a)>>

(* A last message that nothing but the ticker flushes.                       *)
TailLog == p1 :> <<BadRow(a), Garbage(b), Good(c)>>

Budget(crashes, signals, rebalances) ==
  "crash" :> crashes @@ "signal" :> signals @@ "rebalance" :> rebalances

NoFaults == Budget(0, 0, 0)
OneSignal == Budget(0, 1, 0)
CrashAndSignal == Budget(1, 1, 0)
CrashAndRebalance == Budget(1, 0, 1)
EveryFault == Budget(1, 1, 1)

Symmetry == Permutations(Instances)
=============================================================================
