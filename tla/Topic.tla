------------------------------- MODULE Topic -------------------------------
(***************************************************************************)
(* The Kafka topic the processor consumes, as its code sees it: for every  *)
(* partition an immutable log read through an offset.  A message carries   *)
(* the two facts the consumer's control flow depends on: what parsing and  *)
(* PostgreSQL make of it, and the unique key of the row it would become.   *)
(* Producers are external: a message that is not fetched yet and one that  *)
(* is not produced yet are the same to the consumer, so the log is fixed.  *)
(***************************************************************************)
EXTENDS Naturals, Sequences

CONSTANTS Partitions,   \* the partitions of the topic
          Keys,         \* values of (user_id, type, amount, timestamp)
          Log           \* Log[p][o] is the message of partition p at offset o

(***************************************************************************)
(* "storable"    parsed, validated and accepted by the table               *)
(* "unstorable"  parsed and validated, but refused by PostgreSQL on every  *)
(*               attempt (a timestamp outside its range, for example)      *)
(* "undecodable" refused by json.Unmarshal, ToDomain or Validate           *)
(***************************************************************************)
Kinds == {"storable", "unstorable", "undecodable"}

Message == [kind : Kinds, key : Keys]

ASSUME LogAssumption == Log \in [Partitions -> Seq(Message)]

Offsets(p) == 1..Len(Log[p])

(* parseAndValidateMsg returns a transaction for this message. *)
Decodable(p, o) == Log[p][o].kind # "undecodable"

(* The row of this message satisfies the table's types and checks. *)
Storable(p, o) == Log[p][o].kind = "storable"

Key(p, o) == Log[p][o].key

KeysOf(p, s) == {Key(p, s[k]) : k \in DOMAIN s}

AllDecodable == \A p \in Partitions : \A o \in Offsets(p) : Decodable(p, o)
=============================================================================
