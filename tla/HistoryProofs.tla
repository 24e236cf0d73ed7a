--------------------------- MODULE HistoryProofs ---------------------------
(***************************************************************************)
(* Theorems about the way of a transaction from the payload over the table *)
(* to an answer of the API, for any events, spellings, users, clients and  *)
(* order and number of deliveries.                                         *)
(***************************************************************************)
EXTENDS History, FiniteSetTheorems, TLAPS

----------------------------------------------------------------------------
(* Payloads. *)

WrittenAs(e, timeForm, amountForm) ==
  [user |-> Event[e].user, type |-> Event[e].type,
   amount |-> AmountField(Event[e].amount, amountForm),
   time |-> TimeField(Event[e].instant, timeForm),
   written |-> <<timeForm, amountForm>>]

(* What is in the table came through Validate, and the zero time is NULL. *)
IsRow(r) ==
  /\ r = [user |-> r.user, type |-> r.type, amount |-> r.amount, timestamp |-> r.timestamp]
  /\ r.user \in Users /\ r.amount > 0 /\ r.type \in Types
  /\ r.timestamp = None \/ r.timestamp \in Nat

PayloadInv ==
  /\ DOMAIN produced = Events
  /\ \A e \in Events : produced[e] # None =>
       \E timeForm \in TimeForms, amountForm \in AmountForms :
         produced[e] = WrittenAs(e, timeForm, amountForm)
  /\ delivered \subseteq {e \in Events : produced[e] # None}
  /\ IsFiniteSet(table)
  /\ \A r \in table : IsRow(r)

(* The time the consumer reads. *)
ReadTime(e, timeForm) == Parse(TimeField(Event[e].instant, timeForm))

(* A whole number of units above the microsecond is stored as it is.         *)
LEMMA WholeUnits ==
  ASSUME NEW n \in Nat, NEW unit \in {Milli, Second, Day}
  PROVE  n * unit \in Nat /\ Stored(n * unit) = n * unit
<1> DEFINE k == unit \div Micro
           m == n * k
<1>1. Micro \in Nat \ {0} /\ unit \in Nat \ {0} /\ unit % Micro = 0
  BY PayloadAssumption
<1>2. k \in Nat /\ unit = k * Micro
  BY <1>1
<1>3. m \in Nat
  BY <1>2
<1>4. n * unit = m * Micro
  BY <1>1, <1>2
<1> HIDE DEF k, m
<1>5. m * Micro \in Nat
  BY <1>1, <1>3
<1>6. (m * Micro + Micro \div 2) \div Micro = m
  BY <1>1, <1>3
<1> QED BY <1>4, <1>5, <1>6 DEF Stored

(* Any other time is rounded to the nearest microsecond.                     *)
LEMMA Rounds ==
  ASSUME NEW t \in Nat
  PROVE  /\ Stored(t) \in Nat
         /\ Micro \div 2 \in Nat /\ Micro \div 2 < Micro
         /\ Stored(t) <= t + Micro \div 2 /\ t + Micro \div 2 < Stored(t) + Micro
<1> DEFINE h == Micro \div 2
           q == (t + h) \div Micro
<1>1. Micro \in Nat \ {0}
  BY PayloadAssumption
<1>2. h \in Nat /\ h < Micro
  BY <1>1
<1>3. t + h \in Nat
  BY <1>2
<1> HIDE DEF h
<1>4. q \in Nat /\ q * Micro <= t + h /\ t + h < q * Micro + Micro
  BY <1>1, <1>3
<1>5. q * Micro \in Nat
  BY <1>1, <1>4
<1> QED BY <1>2, <1>4, <1>5 DEF Stored, h

(* What is left of an instant written in a unit.                             *)
LEMMA Truncates ==
  ASSUME NEW t \in Nat, NEW unit \in Nat \ {0}
  PROVE  /\ t \div unit \in Nat /\ (t \div unit) * unit \in Nat
         /\ (t \div unit) * unit <= t /\ t < (t \div unit) * unit + unit
<1> DEFINE n == t \div unit
<1>1. n \in Nat /\ n * unit <= t /\ t < n * unit + unit
  OBVIOUS
<1>2. n * unit \in Nat
  BY <1>1
<1> QED BY <1>1, <1>2

LEMMA ReadTimes ==
  ASSUME NEW e \in Events
  PROVE  LET t == Event[e].instant IN
         /\ ReadTime(e, "seconds") = ParseUnix(t \div Second)
         /\ ReadTime(e, "millis") = ParseUnix(t \div Milli)
         /\ ReadTime(e, "nano") = t
         /\ ReadTime(e, "datetime") = (t \div Second) * Second
         /\ ReadTime(e, "date") = (t \div Day) * Day
         /\ ReadTime(e, "unsupported") = ZeroTime /\ ReadTime(e, "absent") = ZeroTime
<1> DEFINE t == Event[e].instant
<1>1. t \in Nat
  BY PayloadAssumption
<1>2. (t \div 1) * 1 = t
  BY <1>1
<1>3. \A form \in Numbers : TimeField(t, form) = [form |-> "number", value |-> t \div Unit[form]]
  BY DEF TimeField
<1>4. \A form \in Layouts : TimeField(t, form) = [form |-> form, value |-> t \div Unit[form]]
  BY DEF TimeField, Layouts, Numbers
<1>5. \A form \in {"unsupported", "absent"} : TimeField(t, form) = [form |-> form]
  BY DEF TimeField, Layouts, Numbers
<1>6. \A form \in Numbers : ReadTime(e, form) = ParseUnix(t \div Unit[form])
  <2>1. \A n : Parse([form |-> "number", value |-> n]) = ParseUnix(n)
    BY DEF Parse, Layouts
  <2> QED BY <1>3, <2>1 DEF ReadTime
<1>7. \A form \in Layouts : ReadTime(e, form) = (t \div Unit[form]) * Unit[form]
  BY <1>4 DEF ReadTime, Parse, Layouts
<1>8. \A form \in {"unsupported", "absent"} : ReadTime(e, form) = ZeroTime
  BY <1>5 DEF ReadTime, Parse, Layouts
<1>9. /\ Unit["seconds"] = Second /\ Unit["millis"] = Milli /\ Unit["nano"] = 1
      /\ Unit["datetime"] = Second /\ Unit["date"] = Day
  BY DEF Unit
<1> QED BY <1>2, <1>6, <1>7, <1>8, <1>9 DEF Numbers, Layouts

(* A time that was read is none or after 1970.                               *)
LEMMA TimesRead ==
  ASSUME NEW e \in Events, NEW form \in TimeForms
  PROVE  ReadTime(e, form) \in Nat \cup {ZeroTime}
<1> DEFINE t == Event[e].instant
<1>1. /\ t \in Nat /\ MillisAbove \in Nat
      /\ Milli \in Nat \ {0} /\ Second \in Nat \ {0} /\ Day \in Nat \ {0}
  BY PayloadAssumption
<1>2. \A n \in Nat : ParseUnix(n) \in Nat
  BY WholeUnits, <1>1 DEF ParseUnix
<1>3. \A unit \in {Milli, Second, Day} : t \div unit \in Nat /\ (t \div unit) * unit \in Nat
  BY <1>1, Truncates
<1> QED BY <1>1, <1>2, <1>3, ReadTimes DEF TimeForms, Numbers, Layouts

LEMMA DomainOf ==
  ASSUME NEW e \in Events, NEW timeForm \in TimeForms, NEW amountForm \in AmountForms
  PROVE  ToDomain(WrittenAs(e, timeForm, amountForm)) =
           IF amountForm = "text"
           THEN [user |-> Event[e].user, type |-> Event[e].type, amount |-> Event[e].amount,
                 time |-> ReadTime(e, timeForm)]
           ELSE None
BY DEF ToDomain, WrittenAs, AmountField, AmountParses, Transaction, ReadTime

LEMMA AcceptedRow ==
  ASSUME PayloadInv, NEW e \in Events, produced[e] # None, Accepted(produced[e])
  PROVE  /\ IsRow(RowOf(e))
         /\ \E timeForm \in TimeForms :
              /\ FormOf(e) = timeForm
              /\ RowOf(e) = [user |-> Event[e].user, type |-> Event[e].type,
                             amount |-> Event[e].amount,
                             timestamp |-> IF ReadTime(e, timeForm) = ZeroTime THEN None
                                           ELSE Stored(ReadTime(e, timeForm))]
<1>1. PICK timeForm \in TimeForms, amountForm \in AmountForms :
        produced[e] = WrittenAs(e, timeForm, amountForm)
  BY DEF PayloadInv
<1>2. FormOf(e) = timeForm
  BY <1>1 DEF WrittenAs, FormOf
<1>3. ToDomain(produced[e]) = [user |-> Event[e].user, type |-> Event[e].type,
                               amount |-> Event[e].amount, time |-> ReadTime(e, timeForm)]
  BY <1>1, DomainOf DEF Accepted
<1>4. Event[e].user \in Users /\ Event[e].amount > 0 /\ Event[e].type \in Types
  BY <1>3 DEF Accepted, Validates
<1>5. RowOf(e) = [user |-> Event[e].user, type |-> Event[e].type, amount |-> Event[e].amount,
                  timestamp |-> IF ReadTime(e, timeForm) = ZeroTime THEN None
                                ELSE Stored(ReadTime(e, timeForm))]
  BY <1>3 DEF RowOf, Row
<1>6. RowOf(e).timestamp = None \/ RowOf(e).timestamp \in Nat
  BY <1>5, TimesRead, Rounds
<1> QED BY <1>2, <1>4, <1>5, <1>6 DEF IsRow

LEMMA PayloadStarts == PayloadInit => PayloadInv
BY FS_EmptySet DEF PayloadInit, PayloadInv

LEMMA PayloadStepKeeps ==
  ASSUME PayloadInv, PayloadNext
  PROVE  PayloadInv' /\ table \subseteq table'
<1>1. ASSUME NEW e \in Events, NEW forms \in Writes[e], Produce(e, forms[1], forms[2])
      PROVE  PayloadInv' /\ table \subseteq table'
  <2>1. forms[1] \in TimeForms /\ forms[2] \in AmountForms
    BY <1>1, PayloadAssumption
  <2>2. /\ produced[e] = None
        /\ produced' = [produced EXCEPT ![e] = WrittenAs(e, forms[1], forms[2])]
        /\ delivered' = delivered /\ table' = table
    BY <1>1 DEF Produce, WrittenAs
  <2> QED BY <2>1, <2>2 DEF PayloadInv, IsRow, WrittenAs
<1>2. ASSUME NEW e \in Events, Deliver(e)
      PROVE  PayloadInv' /\ table \subseteq table'
  <2>1. /\ produced[e] # None /\ produced' = produced
        /\ delivered' = delivered \cup {e}
    BY <1>2 DEF Deliver
  <2>2. CASE Accepted(produced[e])
    <3>1. table' = table \cup {RowOf(e)}
      BY <1>2, <2>2 DEF Deliver, RowOf
    <3>2. IsFiniteSet(table')
      BY <3>1, FS_AddElement DEF PayloadInv
    <3>3. IsRow(RowOf(e))
      BY <2>1, <2>2, AcceptedRow
    <3> QED BY <2>1, <3>1, <3>2, <3>3 DEF PayloadInv, WrittenAs
  <2>3. CASE ~Accepted(produced[e])
    <3>1. table' = table
      BY <1>2, <2>3 DEF Deliver
    <3> QED BY <2>1, <3>1 DEF PayloadInv, WrittenAs
  <2> QED BY <2>2, <2>3
<1> QED BY <1>1, <1>2 DEF PayloadNext

LEMMA PayloadStutters ==
  ASSUME PayloadInv, UNCHANGED <<payload, table>>
  PROVE  PayloadInv' /\ table \subseteq table'
BY DEF payload, PayloadInv, IsRow, WrittenAs

(* Whatever producers write and however often it is delivered, the table     *)
(* holds rows that Validate accepted, and none of a zero time but as NULL.   *)
THEOREM PayloadInvariance == PayloadSpec => []PayloadInv
<1>1. PayloadInv /\ [PayloadNext]_<<payload, table>> => PayloadInv'
  BY PayloadStepKeeps, PayloadStutters
<1> QED BY <1>1, PayloadStarts, PTL DEF PayloadSpec

(* The clients of the API leave payloads and table to producers and consumer. *)
THEOREM HistoryKeepsPayload == Spec => PayloadSpec
<1>1. Init => PayloadInit
  BY DEF Init
<1>2. [Next]_vars => [PayloadNext]_<<payload, table>>
  BY DEF Next, vars, Ask, Refuse, Read, ReadFails, Send
<1> QED BY <1>1, <1>2, PTL DEF Spec, PayloadSpec

----------------------------------------------------------------------------
(* Instants. *)

(* The forms of time an accepted event can have, and what its row shows.     *)
LEMMA KeptRow ==
  ASSUME PayloadInv, NEW e \in Kept
  PROVE  /\ e \in Events /\ Event[e].instant \in Nat /\ FormOf(e) \in TimeForms
         /\ RowOf(e).user = Event[e].user /\ RowOf(e).type = Event[e].type
         /\ RowOf(e).amount = Event[e].amount
         /\ RowOf(e).timestamp = IF ReadTime(e, FormOf(e)) = ZeroTime THEN None
                                  ELSE Stored(ReadTime(e, FormOf(e)))
<1>1. e \in Events /\ produced[e] # None /\ Accepted(produced[e])
  BY DEF Kept, PayloadInv
<1> QED BY <1>1, AcceptedRow, PayloadAssumption

(* Between an instant and its row lies less than the unit it was written in, *)
(* or half a microsecond.                                                    *)
LEMMA NearRow ==
  ASSUME PayloadInv, NEW e \in Kept, ~Timeless(e), ~Misread(e)
  PROVE  LET t == Event[e].instant
             r == RowOf(e).timestamp
             unit == Unit[FormOf(e)]
             half == Micro \div 2
         IN  /\ t \in Nat /\ unit \in Nat \ {0} /\ ReadTime(e, FormOf(e)) # ZeroTime
             /\ r = Stored(ReadTime(e, FormOf(e))) /\ r \in Nat
             /\ Micro \in Nat \ {0} /\ half \in Nat /\ half < Micro
             /\ \/ r <= t /\ t < r + unit
                \/ r <= t + half /\ t + half < r + Micro
<1> DEFINE t == Event[e].instant
           form == FormOf(e)
           half == Micro \div 2
<1>1. /\ e \in Events /\ t \in Nat /\ form \in TimeForms
      /\ RowOf(e).timestamp = IF ReadTime(e, form) = ZeroTime THEN None
                               ELSE Stored(ReadTime(e, form))
  BY KeptRow
<1>2. /\ ZeroTime \in Int /\ ZeroTime < 0 /\ MillisAbove \in Nat /\ Micro \in Nat \ {0}
      /\ Milli \in Nat \ {0} /\ Second \in Nat \ {0} /\ Day \in Nat \ {0}
  BY PayloadAssumption
<1>3. /\ Unit["seconds"] = Second /\ Unit["millis"] = Milli /\ Unit["nano"] = 1
      /\ Unit["datetime"] = Second /\ Unit["date"] = Day
  BY DEF Unit
<1>4. half \in Nat /\ half < Micro
  BY <1>1, Rounds
<1>5. \A unit \in {Milli, Second, Day} :
        LET read == (t \div unit) * unit IN
        t \div unit \in Nat /\ read \in Nat /\ Stored(read) = read
        /\ read <= t /\ t < read + unit
  BY <1>1, <1>2, Truncates, WholeUnits
<1>6. CASE form = "nano"
  <2>1. ReadTime(e, form) = t
    BY <1>1, <1>6, ReadTimes
  <2>2. Stored(t) \in Nat /\ Stored(t) <= t + half /\ t + half < Stored(t) + Micro
    BY <1>1, Rounds
  <2> QED BY <1>1, <1>2, <1>3, <1>4, <1>6, <2>1, <2>2
<1>7. CASE form \in {"seconds", "millis", "datetime", "date"}
  <2> DEFINE unit == Unit[form]
             n == t \div unit
  <2>1. unit \in {Milli, Second, Day}
    BY <1>3, <1>7
  <2>2. ReadTime(e, form) = n * unit
    <3>1. CASE form = "seconds"
      <4>1. n <= MillisAbove
        <5>1. t < (MillisAbove + 1) * Second
          <6>1. (MillisAbove + 1) * Second \in Int
            BY <1>2
          <6>2. ~(t >= (MillisAbove + 1) * Second)
            BY <3>1 DEF Misread
          <6> QED BY <1>1, <6>1, <6>2
        <5>2. n * Second <= t /\ n \in Nat
          BY <1>3, <1>5, <3>1
        <5>3. ASSUME n >= MillisAbove + 1 PROVE FALSE
          <6>1. n * Second >= (MillisAbove + 1) * Second
            BY <1>2, <5>2, <5>3
          <6>2. n * Second \in Int /\ (MillisAbove + 1) * Second \in Int
            BY <1>2, <5>2
          <6> HIDE DEF n
          <6> QED BY <1>1, <5>1, <5>2, <6>1, <6>2
        <5> QED BY <1>2, <5>2, <5>3
      <4> QED BY <1>1, <1>2, <1>3, <1>5, <3>1, <4>1, ReadTimes DEF ParseUnix
    <3>2. CASE form = "millis"
      <4>1. n > MillisAbove
        <5>1. t >= (MillisAbove + 1) * Milli
          BY <1>1, <1>2, <3>2 DEF Misread
        <5>2. t < n * Milli + Milli /\ n \in Nat
          BY <1>3, <1>5, <3>2
        <5>3. ASSUME n <= MillisAbove PROVE FALSE
          <6>1. (n + 1) * Milli <= (MillisAbove + 1) * Milli
            BY <1>2, <5>2, <5>3
          <6>2. n * Milli + Milli = (n + 1) * Milli
            BY <1>2, <5>2
          <6>3. (n + 1) * Milli \in Int /\ (MillisAbove + 1) * Milli \in Int
            BY <1>2, <5>2
          <6> HIDE DEF n
          <6> QED BY <1>1, <5>1, <5>2, <6>1, <6>2, <6>3
        <5> QED BY <1>2, <5>2, <5>3
      <4> QED BY <1>1, <1>2, <1>3, <1>5, <3>2, <4>1, ReadTimes DEF ParseUnix
    <3>3. CASE form \in {"datetime", "date"}
      BY <1>1, <1>3, <3>3, ReadTimes
    <3> QED BY <1>7, <3>1, <3>2, <3>3
  <2>3. /\ n * unit \in Nat /\ Stored(n * unit) = n * unit
        /\ n * unit <= t /\ t < n * unit + unit
    BY <1>5, <2>1
  <2>4. unit \in Nat \ {0}
    BY <1>2, <2>1
  <2> HIDE DEF unit, n
  <2> QED BY <1>1, <1>2, <1>4, <2>2, <2>3, <2>4 DEF unit
<1> QED BY <1>1, <1>6, <1>7 DEF Timeless, TimeForms, Numbers, Layouts

(* A legible instant reaches the table, as far as its form expresses it: the *)
(* guess at the unit is never off by a factor between 1973 and 5138.         *)
THEOREM InstantsSurviveHolds == PayloadSpec => []InstantsSurvive
<1>1. ASSUME PayloadInv, NEW e \in Kept, ~Timeless(e), ~Misread(e)
      PROVE  /\ RowOf(e).timestamp # None
             /\ Apart(RowOf(e).timestamp, Event[e].instant) < Unit[FormOf(e)] + Micro
  <2> DEFINE t == Event[e].instant
             r == RowOf(e).timestamp
             unit == Unit[FormOf(e)]
             half == Micro \div 2
  <2>1. /\ t \in Nat /\ unit \in Nat \ {0} /\ r \in Nat
        /\ Micro \in Nat \ {0} /\ half \in Nat /\ half < Micro
        /\ \/ r <= t /\ t < r + unit
           \/ r <= t + half /\ t + half < r + Micro
    BY <1>1, NearRow
  <2>2. r # None
    BY <2>1, PayloadAssumption
  <2> HIDE DEF t, r, unit, half
  <2>3. Apart(r, t) < unit + Micro
    BY <2>1 DEF Apart
  <2> QED BY <2>2, <2>3 DEF t, r, unit
<1>2. PayloadInv => InstantsSurvive
  BY <1>1 DEF InstantsSurvive
<1> QED BY <1>2, PayloadInvariance, PTL

(* Redelivery is absorbed by the unique key, and what differs in user, type, *)
(* amount, or in the instant by more than the texts leave open, is not       *)
(* merged.                                                                   *)
THEOREM OnlyRepetitionsMergeHolds == PayloadSpec => []OnlyRepetitionsMerge
<1>1. ASSUME PayloadInv, NEW e \in Kept, NEW f \in Kept, RowOf(e) = RowOf(f)
      PROVE  /\ Event[e].user = Event[f].user /\ Event[e].type = Event[f].type
             /\ Event[e].amount = Event[f].amount
             /\ \/ Timeless(e) /\ Timeless(f)
                \/ Misread(e) \/ Misread(f)
                \/ /\ ~Timeless(e) /\ ~Timeless(f)
                   /\ Apart(Event[e].instant, Event[f].instant)
                        < Coarser(Unit[FormOf(e)], Unit[FormOf(f)]) + Micro
  <2>1. /\ Event[e].user = Event[f].user /\ Event[e].type = Event[f].type
        /\ Event[e].amount = Event[f].amount
    BY <1>1, KeptRow
  <2>2. \A g \in Kept : Timeless(g) => RowOf(g).timestamp = None
    BY <1>1, KeptRow, ReadTimes DEF Timeless
  <2>3. \A g \in Kept : ~Timeless(g) /\ ~Misread(g) => RowOf(g).timestamp # None
    BY <1>1, NearRow, PayloadAssumption
  <2>4. ASSUME ~Timeless(e), ~Timeless(f), ~Misread(e), ~Misread(f)
        PROVE  Apart(Event[e].instant, Event[f].instant)
                 < Coarser(Unit[FormOf(e)], Unit[FormOf(f)]) + Micro
    <3> DEFINE s == Event[e].instant
               t == Event[f].instant
               r == RowOf(e).timestamp
               a == Unit[FormOf(e)]
               b == Unit[FormOf(f)]
               half == Micro \div 2
    <3>1. /\ s \in Nat /\ a \in Nat \ {0} /\ r \in Nat
          /\ Micro \in Nat \ {0} /\ half \in Nat /\ half < Micro
          /\ \/ r <= s /\ s < r + a
             \/ r <= s + half /\ s + half < r + Micro
      BY <1>1, <2>4, NearRow
    <3>2. /\ t \in Nat /\ b \in Nat \ {0}
          /\ \/ r <= t /\ t < r + b
             \/ r <= t + half /\ t + half < r + Micro
      BY <1>1, <2>4, NearRow
    <3> HIDE DEF s, t, r, a, b, half
    <3>3. Apart(s, t) < Coarser(a, b) + Micro
      BY <3>1, <3>2 DEF Apart, Coarser
    <3> QED BY <3>3 DEF s, t, a, b
  <2>5. (Timeless(e) <=> Timeless(f)) \/ Misread(e) \/ Misread(f)
    BY <1>1, <2>2, <2>3
  <2> QED BY <2>1, <2>4, <2>5
<1>2. PayloadInv => OnlyRepetitionsMerge
  BY <1>1 DEF OnlyRepetitionsMerge
<1> QED BY <1>2, PayloadInvariance, PTL

----------------------------------------------------------------------------
(* Answers. *)

LEMMA AppendsSecond ==
  ASSUME NEW a, NEW b
  PROVE  LET s == Append(<<a>>, b) IN DOMAIN s = {1, 2} /\ s[1] = a /\ s[2] = b
<1>1. <<a>> \in Seq({a, b}) /\ Len(<<a>>) = 1 /\ <<a>>[1] = a
  OBVIOUS
<1>2. Append(<<a>>, b) \in Seq({a, b}) /\ Len(Append(<<a>>, b)) = 2
  BY <1>1
<1>3. Append(<<a>>, b)[1] = a /\ Append(<<a>>, b)[2] = b
  BY <1>1
<1>4. DOMAIN Append(<<a>>, b) = 1 .. 2
  BY <1>2
<1> QED BY <1>3, <1>4

(* The statement selects what is asked for, whichever filters are given. *)
LEMMA SelectsAsked ==
  ASSUME PayloadInv, NEW params \in Params
  PROVE  Selected(Statement(params.user, params.type)) = Asked(params, table)
<1> DEFINE u == params.user
           t == params.type
           q == Statement(u, t)
<1>1. \A r \in table : r["user"] = r.user /\ r["type"] = r.type
  BY DEF PayloadInv, IsRow
<1>2. CASE u = Nothing /\ t = Nothing
  <2>1. q.conditions = <<>>
    BY <1>2 DEF Statement, WithCondition
  <2> QED BY <1>2, <2>1 DEF Selected, Asked
<1>3. CASE u # Nothing /\ t = Nothing
  <2>1. q.args = <<u>> /\ q.conditions = <<[column |-> "user", arg |-> 1]>>
    BY <1>3 DEF Statement, WithCondition
  <2>2. Selected(q) = {r \in table : r["user"] = u}
    BY <2>1 DEF Selected
  <2> QED BY <1>1, <1>3, <2>2 DEF Asked
<1>4. CASE u = Nothing /\ t # Nothing
  <2>1. q.args = <<t>> /\ q.conditions = <<[column |-> "type", arg |-> 1]>>
    BY <1>4 DEF Statement, WithCondition
  <2>2. Selected(q) = {r \in table : r["type"] = t}
    BY <2>1 DEF Selected
  <2> QED BY <1>1, <1>4, <2>2 DEF Asked
<1>5. CASE u # Nothing /\ t # Nothing
  <2> DEFINE first == WithCondition([args |-> <<>>, conditions |-> <<>>], "user", u)
  <2>1. first.args = <<u>> /\ first.conditions = <<[column |-> "user", arg |-> 1]>>
    BY <1>5 DEF WithCondition
  <2>2. /\ q.args = Append(first.args, t)
        /\ q.conditions = Append(first.conditions,
                                 [column |-> "type", arg |-> Len(first.args) + 1])
    BY <1>5 DEF Statement, WithCondition
  <2>3. \A a, b : LET s == Append(<<a>>, b) IN DOMAIN s = {1, 2} /\ s[1] = a /\ s[2] = b
    BY AppendsSecond
  <2> HIDE DEF first, u, t, q
  <2>4. Len(first.args) + 1 = 2
    BY <2>1
  <2>5. /\ DOMAIN q.conditions = {1, 2} /\ q.args[1] = u /\ q.args[2] = t
        /\ q.conditions[1] = [column |-> "user", arg |-> 1]
        /\ q.conditions[2] = [column |-> "type", arg |-> 2]
    BY <2>1, <2>2, <2>3, <2>4
  <2>6. Selected(q) = {r \in table : r["user"] = u /\ r["type"] = t}
    BY <2>5 DEF Selected
  <2> QED BY <1>1, <1>5, <2>6 DEF Asked, u, t, q
<1> QED BY <1>2, <1>3, <1>4, <1>5

(* An enumeration of a finite set has every element once. *)
LEMMA Enumerates ==
  ASSUME NEW S, IsFiniteSet(S), NEW rows \in SetToSeqs(S)
  PROVE  Range(rows) = S /\ IsInjective(rows) /\ DOMAIN rows = 1 .. Cardinality(S)
<1> DEFINE D == 1 .. Cardinality(S)
<1>1. rows \in [D -> S] /\ IsInjective(rows)
  BY DEF SetToSeqs, IsInjective
<1>2. Cardinality(S) \in Nat
  BY FS_CardinalityType
<1>3. IsFiniteSet(D) /\ Cardinality(D) = Cardinality(S)
  BY <1>2, FS_Interval
<1>4. rows \in Surjection(D, S)
  BY <1>1, <1>3, FS_Injection DEF Injection
<1> QED BY <1>1, <1>4 DEF Surjection, Range

Respond(rows) == [k \in DOMAIN rows |-> Response(rows[k])]

(* Rows that answer c's request: all that match and were there when it came  *)
(* in, none that does not match or is not there, newest first.               *)
Answer(c, rows) ==
  /\ Range(rows) \subseteq Asked(request[c], table)
  /\ Asked(request[c], before[c]) \subseteq Range(rows)
  /\ IsInjective(rows) /\ InOrder(rows)
  /\ \E n \in Nat : DOMAIN rows = 1 .. n

ClientInv ==
  /\ request \in [Clients -> Params]
  /\ DOMAIN status = Clients /\ DOMAIN result = Clients /\ DOMAIN before = Clients
  /\ \A c \in Clients :
       /\ before[c] \subseteq table
       /\ status[c] = "read" => ~Illegal(request[c]) /\ Answer(c, result[c])
       /\ status[c] = "200" =>
            ~Illegal(request[c]) /\ \E rows : Answer(c, rows) /\ result[c] = Respond(rows)

LEMMA ClientsStart == Init => ClientInv
BY DEF Init, ClientInv, Params

(* Rows inserted beside a request take nothing from its answer. *)
LEMMA InsertsKeepAnswers ==
  ASSUME ClientInv, PayloadInv, table \subseteq table', UNCHANGED api
  PROVE  ClientInv'
<1>1. request' = request /\ status' = status /\ result' = result /\ before' = before
  BY DEF api
<1>2. ASSUME NEW c \in Clients, NEW rows, Answer(c, rows)
      PROVE  Answer(c, rows)'
  BY <1>1, <1>2 DEF Answer, Asked
<1> QED BY <1>1, <1>2 DEF ClientInv

(* A step of one client leaves the others alone. *)
LEMMA OthersKeep ==
  ASSUME ClientInv, NEW c \in Clients, NEW d \in Clients \ {c},
         table' = table, request'[d] = request[d], status'[d] = status[d],
         result'[d] = result[d], before'[d] = before[d]
  PROVE  /\ before'[d] \subseteq table'
         /\ status'[d] = "read" => ~Illegal(request'[d]) /\ Answer(d, result[d])'
         /\ status'[d] = "200" =>
              ~Illegal(request'[d]) /\ \E rows : Answer(d, rows)' /\ result'[d] = Respond(rows)
<1>1. ASSUME NEW rows, Answer(d, rows)
      PROVE  Answer(d, rows)'
  BY <1>1 DEF Answer
<1> QED BY <1>1 DEF ClientInv, Answer

LEMMA ClientStepKeeps ==
  ASSUME ClientInv, PayloadInv, NEW c \in Clients,
         (\E params \in Params : Ask(c, params)) \/ Refuse(c) \/ Read(c) \/ ReadFails(c) \/ Send(c)
  PROVE  ClientInv'
<1>1. /\ table' = table
      /\ request' \in [Clients -> Params]
      /\ DOMAIN status' = Clients /\ DOMAIN result' = Clients /\ DOMAIN before' = Clients
      /\ \A d \in Clients \ {c} :
           /\ request'[d] = request[d] /\ status'[d] = status[d]
           /\ result'[d] = result[d] /\ before'[d] = before[d]
  BY DEF ClientInv, Ask, Refuse, Read, ReadFails, Send
<1>2. /\ before'[c] \subseteq table'
      /\ status'[c] = "read" => ~Illegal(request'[c]) /\ Answer(c, result[c])'
      /\ status'[c] = "200" =>
           ~Illegal(request'[c]) /\ \E rows : Answer(c, rows)' /\ result'[c] = Respond(rows)
  <2>1. CASE \E params \in Params : Ask(c, params)
    BY <2>1 DEF Ask, ClientInv
  <2>2. CASE Refuse(c) \/ ReadFails(c)
    BY <2>2 DEF Refuse, ReadFails, ClientInv
  <2>3. CASE Read(c)
    <3> DEFINE asked == Asked(request[c], table)
    <3>1. asked = Selected(Statement(request[c].user, request[c].type))
      BY SelectsAsked DEF ClientInv
    <3>2. PICK rows \in SetToSeqs(asked) :
            InOrder(rows) /\ result' = [result EXCEPT ![c] = rows]
      BY <2>3, <3>1 DEF Read
    <3>3. IsFiniteSet(asked)
      BY FS_Subset DEF PayloadInv, Asked
    <3>4. Range(rows) = asked /\ IsInjective(rows) /\ DOMAIN rows = 1 .. Cardinality(asked)
      BY <3>3, Enumerates
    <3>5. Cardinality(asked) \in Nat
      BY <3>3, FS_CardinalityType
    <3>6. Asked(request[c], before[c]) \subseteq asked
      BY DEF ClientInv, Asked
    <3> HIDE DEF asked
    <3>7. /\ ~Illegal(request[c]) /\ request' = request /\ before' = before
          /\ status' = [status EXCEPT ![c] = "read"] /\ result'[c] = rows
      BY <2>3, <3>2 DEF Read, ClientInv
    <3>8. Answer(c, rows)
      BY <3>2, <3>4, <3>5, <3>6 DEF Answer, asked
    <3>9. Answer(c, result[c])'
      BY <1>1, <3>7, <3>8 DEF Answer
    <3> QED BY <1>1, <3>7, <3>9 DEF ClientInv
  <2>4. CASE Send(c)
    <3>1. /\ ~Illegal(request[c]) /\ Answer(c, result[c])
          /\ request' = request /\ before' = before
          /\ status'[c] = "200" /\ result'[c] = Respond(result[c])
      BY <2>4 DEF Send, ClientInv, Respond
    <3>2. Answer(c, result[c]) => \E rows : Answer(c, rows)' /\ result'[c] = Respond(rows)
      BY <1>1, <3>1 DEF Answer
    <3> QED BY <1>1, <3>1, <3>2 DEF ClientInv
  <2> QED BY <2>1, <2>2, <2>3, <2>4
<1>3. ASSUME NEW d \in Clients \ {c}
      PROVE  /\ before'[d] \subseteq table'
             /\ status'[d] = "read" => ~Illegal(request'[d]) /\ Answer(d, result[d])'
             /\ status'[d] = "200" =>
                  ~Illegal(request'[d]) /\ \E rows : Answer(d, rows)' /\ result'[d] = Respond(rows)
  BY <1>1, OthersKeep
<1> QED BY <1>1, <1>2, <1>3 DEF ClientInv

(* Between the read and the end of the answer, and while rows are inserted,  *)
(* what a client gets stays an answer to its request.                        *)
THEOREM ClientInvariance == Spec => []ClientInv
<1>1. ASSUME ClientInv, PayloadInv, [Next]_vars PROVE ClientInv'
  <2>1. CASE PayloadNext /\ UNCHANGED api
    BY <1>1, <2>1, PayloadStepKeeps, InsertsKeepAnswers
  <2>2. CASE UNCHANGED vars
    BY <1>1, <2>2, InsertsKeepAnswers DEF vars
  <2> QED BY <1>1, <2>1, <2>2, ClientStepKeeps DEF Next
<1>2. Spec => []PayloadInv
  BY PayloadInvariance, HistoryKeepsPayload, PTL
<1> QED BY <1>1, <1>2, ClientsStart, PTL DEF Spec

(* Two rows that differ differ in what a client sees of them. *)
LEMMA ResponsesDiffer ==
  ASSUME NEW q, NEW r, IsRow(q), IsRow(r), Response(q) = Response(r)
  PROVE  q = r
<1>1. /\ q.user = r.user /\ q.type = r.type /\ q.amount = r.amount
      /\ (IF q.timestamp = None THEN ZeroTime ELSE q.timestamp) =
         (IF r.timestamp = None THEN ZeroTime ELSE r.timestamp)
  BY DEF Response
<1>2. q.timestamp = r.timestamp
  BY <1>1, PayloadAssumption DEF IsRow
<1> QED BY <1>1, <1>2 DEF IsRow

(* An answer holds every matching row that was there when the request came   *)
(* in, none twice, and no other, for any table, clients and inserts beside.  *)
THEOREM AnswersAreCompleteHolds == Spec => []AnswersAreComplete
<1>1. ASSUME ClientInv, PayloadInv, NEW c \in Clients, status[c] = "200"
      PROVE  /\ ~Illegal(request[c])
             /\ Responses(Asked(request[c], before[c])) \subseteq Sent(c)
             /\ Sent(c) \subseteq Responses(Asked(request[c], table))
             /\ IsInjective(result[c])
  <2>1. PICK rows : Answer(c, rows) /\ result[c] = Respond(rows)
    BY <1>1 DEF ClientInv
  <2>2. Sent(c) = Responses(Range(rows))
    BY <2>1 DEF Sent, Respond, Responses, Range
  <2>3. \A k \in DOMAIN rows : IsRow(rows[k])
    BY <1>1, <2>1 DEF Answer, Range, Asked, PayloadInv
  <2>4. IsInjective(result[c])
    BY <2>1, <2>3, ResponsesDiffer DEF Answer, Respond, IsInjective
  <2> QED BY <1>1, <2>1, <2>2, <2>4 DEF ClientInv, Answer, Responses
<1>2. ClientInv /\ PayloadInv => AnswersAreComplete
  BY <1>1 DEF AnswersAreComplete
<1> QED BY <1>2, ClientInvariance, PayloadInvariance, HistoryKeepsPayload, PTL

(* What a client sees is newest first by the times it sees, rows without a   *)
(* time last.                                                                *)
THEOREM NewestFirstHolds == Spec => []NewestFirst
<1>1. ASSUME ClientInv, PayloadInv, NEW c \in Clients, status[c] = "200",
             NEW j \in DOMAIN result[c], NEW k \in DOMAIN result[c], j < k
      PROVE  result[c][j].timestamp >= result[c][k].timestamp
  <2>1. PICK rows : Answer(c, rows) /\ result[c] = Respond(rows)
    BY <1>1 DEF ClientInv
  <2>2. /\ j \in DOMAIN rows /\ k \in DOMAIN rows
        /\ result[c][j] = Response(rows[j]) /\ result[c][k] = Response(rows[k])
    BY <2>1 DEF Respond
  <2>3. ~Precedes(rows[k], rows[j])
    BY <1>1, <2>1, <2>2 DEF Answer, InOrder
  <2>4. \A l \in DOMAIN rows : rows[l].timestamp = None \/ rows[l].timestamp \in Nat
    BY <1>1, <2>1 DEF Answer, Range, Asked, PayloadInv, IsRow
  <2> QED BY <2>2, <2>3, <2>4, PayloadAssumption DEF Response, Precedes
<1>2. ClientInv /\ PayloadInv => NewestFirst
  BY <1>1 DEF NewestFirst
<1> QED BY <1>2, ClientInvariance, PayloadInvariance, HistoryKeepsPayload, PTL
=============================================================================
