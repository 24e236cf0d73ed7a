------------------------------ MODULE Payload ------------------------------
(***************************************************************************)
(* What becomes of the identity of a transaction on its way from a         *)
(* producer's JSON to a row: TransactionDTO decodes it, money and timeutil *)
(* interpret amount and timestamp, Validate accepts it, Save turns a zero  *)
(* time into NULL and the table's unique key drops what it takes for a     *)
(* repetition.  Messages may be delivered any number of times.             *)
(*                                                                         *)
(* Instants are integers, counted in ticks from 1970; a tick stands for the *)
(* nanosecond of Go, and Micro, Milli, Second and Day for as many of them.  *)
(* Texts without a zone are meant, and read, in UTC.  MoneyParse says what  *)
(* a text amount parses to; here a text holds the amount it spells.         *)
(* History reads the table this one writes.                                 *)
(***************************************************************************)
EXTENDS Integers

CONSTANTS Events,       \* transactions that happened
          Event,        \* Event[e]: its user, type, amount and instant
          Users,        \* users with a positive number; "invalid" stands for any other
          Writes,       \* Writes[e]: the forms its producers may write instant and amount in
          Micro, Milli, Second, Day,  \* ticks of a microsecond, and so on
          MillisAbove,  \* 100000000000 in ParseUnix
          ZeroTime,     \* the instant of time.Time{}
          None          \* no payload, or NULL

(* An instant is written as a number, in one of the layouts or not at all:   *)
(* "nano" is any time of day with a fraction, "datetime" RFC3339 or DateTime *)
(* without one, "date" either of the layouts of a day.                       *)
Numbers == {"seconds", "millis"}
Layouts == {"nano", "datetime", "date"}
TimeForms == Numbers \cup Layouts \cup {"unsupported", "absent"}
AmountForms == {"text", "exponent", "null", "absent"}
Types == {"bet", "win"}

(* What a form counts in. *)
Unit == [seconds |-> Second, millis |-> Milli, nano |-> 1, datetime |-> Second, date |-> Day]

(* Wagers are placed after 1970, the zero time of Go lies long before.       *)
ASSUME PayloadAssumption ==
  /\ {Micro, Milli, Second, Day} \subseteq Nat \ {0}
  /\ \A unit \in {Milli, Second, Day} : unit % Micro = 0
  /\ MillisAbove \in Nat
  /\ None \notin Int
  /\ ZeroTime \in Int /\ ZeroTime < 0
  /\ \A e \in Events : Event[e].instant \in Nat
  /\ Writes \in [Events -> SUBSET (TimeForms \X AmountForms)]
  /\ "invalid" \notin Users

VARIABLES produced,   \* produced[e]: the payload written for event e
          delivered,  \* events whose message has reached the consumer
          table       \* the rows of transactions

payload == <<produced, delivered>>

PayloadInit ==
  /\ produced = [e \in Events |-> None]
  /\ delivered = {}
  /\ table = {}

----------------------------------------------------------------------------
(* The producer, external. *)

(* The instant as far as the form can express it. *)
TimeField(t, form) ==
  IF form \in Numbers \cup Layouts
  THEN [form |-> IF form \in Numbers THEN "number" ELSE form, value |-> t \div Unit[form]]
  ELSE [form |-> form]

AmountField(n, form) == IF form = "text" THEN [form |-> form, value |-> n] ELSE [form |-> form]

Produce(e, timeForm, amountForm) ==
  /\ produced[e] = None
  /\ produced' = [produced EXCEPT ![e] =
       [user |-> Event[e].user, type |-> Event[e].type,
        amount |-> AmountField(Event[e].amount, amountForm),
        time |-> TimeField(Event[e].instant, timeForm),
        written |-> <<timeForm, amountForm>>]]
  /\ UNCHANGED <<delivered, table>>

----------------------------------------------------------------------------
(* timeutil: a time, zero if the text is none; a layout yields what the text *)
(* says, the start of the day or second if that is all.                      *)

(* Mistake: the threshold itself is taken for milliseconds. *)
ParseUnixInclusive(n) == IF n >= MillisAbove THEN n * Milli ELSE n * Second

ParseUnix(n) == IF n > MillisAbove THEN n * Milli ELSE n * Second

Parse(field) ==
  CASE field.form = "number" -> ParseUnix(field.value)
    [] field.form \in Layouts -> field.value * Unit[field.form]
    [] OTHER -> ZeroTime

(* An absent amount fails UnmarshalJSON, null and an exponent fail the parser. *)
AmountParses(field) == field.form = "text"

Transaction(p, time) == [user |-> p.user, type |-> p.type, amount |-> p.amount.value, time |-> time]

(* TransactionDTO.ToDomain; a refused payload is None. *)
ToDomain(p) == IF AmountParses(p.amount) THEN Transaction(p, Parse(p.time)) ELSE None

Validates(t) == t.user \in Users /\ t.amount > 0 /\ t.type \in Types

Accepted(p) == ToDomain(p) # None /\ Validates(ToDomain(p))

(* Mistake: the column is a DATE. *)
StoredAsDate(t) == (t \div Day) * Day

(* The column keeps microseconds, rounded. *)
Stored(t) == ((t + Micro \div 2) \div Micro) * Micro

(* A row is its unique key: NULLS NOT DISTINCT makes NULL a value like any other. *)
Row(t) ==
  [user |-> t.user, type |-> t.type, amount |-> t.amount,
   timestamp |-> IF t.time = ZeroTime THEN None ELSE Stored(t.time)]

(* The consumer gets the message, for the first time or again. *)
Deliver(e) ==
  /\ produced[e] # None
  /\ delivered' = delivered \cup {e}
  /\ table' = table \cup IF Accepted(produced[e]) THEN {Row(ToDomain(produced[e]))} ELSE {}
  /\ UNCHANGED produced

PayloadNext ==
  \E e \in Events :
    \/ \E forms \in Writes[e] : Produce(e, forms[1], forms[2])
    \/ Deliver(e)

PayloadSpec == PayloadInit /\ [][PayloadNext]_<<payload, table>>

----------------------------------------------------------------------------
(* The delivered events the consumer accepted, and their rows. *)
Kept == {e \in delivered : Accepted(produced[e])}

RowOf(e) == Row(ToDomain(produced[e]))

FormOf(e) == produced[e].written[1]

Timeless(e) == FormOf(e) \in {"unsupported", "absent"}

(* The unit of a number is guessed, wrongly for milliseconds before the      *)
(* third of March 1973 and for seconds after the sixteenth of November 5138. *)
Misread(e) ==
  \/ FormOf(e) = "millis" /\ Event[e].instant < (MillisAbove + 1) * Milli
  \/ FormOf(e) = "seconds" /\ Event[e].instant >= (MillisAbove + 1) * Second

Apart(s, t) == IF s < t THEN t - s ELSE s - t

Coarser(a, b) == IF a < b THEN b ELSE a

(* From 1973 to 5138, and beyond where the form is not a number or its unit  *)
(* is the one guessed, an instant reaches the table: a row differs from it   *)
(* by less than the unit it was written in and the microsecond of the column.*)
InstantsSurvive ==
  \A e \in Kept : ~Timeless(e) /\ ~Misread(e) =>
    /\ RowOf(e).timestamp # None
    /\ Apart(RowOf(e).timestamp, Event[e].instant) < Unit[FormOf(e)] + Micro

(* Two transactions of one row agree in user, type and amount and happened   *)
(* within the coarser of the units they were written in (one day, for two    *)
(* dates), unless both came without a time or the unit of one is misread:    *)
(* redelivery is absorbed, and no more merged than the texts leave open.     *)
OnlyRepetitionsMerge ==
  \A e, f \in Kept :
    RowOf(e) = RowOf(f) =>
      /\ Event[e].user = Event[f].user /\ Event[e].type = Event[f].type
      /\ Event[e].amount = Event[f].amount
      /\ \/ Timeless(e) /\ Timeless(f)
         \/ Misread(e) \/ Misread(f)
         \/ /\ ~Timeless(e) /\ ~Timeless(f)
            /\ Apart(Event[e].instant, Event[f].instant)
                 < Coarser(Unit[FormOf(e)], Unit[FormOf(f)]) + Micro
=============================================================================
