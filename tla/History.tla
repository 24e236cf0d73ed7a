------------------------------ MODULE History ------------------------------
(***************************************************************************)
(* GET /transactions: from the query parameters to the JSON of the answer, *)
(* through PostgresRepo.Get and the SQL it puts together, while the        *)
(* processor inserts the rows of Payload.  One statement reads one         *)
(* snapshot of the table; the rest of a handler runs beside inserts and    *)
(* other handlers.                                                         *)
(***************************************************************************)
EXTENDS Payload, SequencesExt

CONSTANTS Clients,  \* each asks one request after the other
          Nothing   \* an empty parameter, an argument not given

(* A parameter is empty, legal or not; 0 and negative users are not legal.   *)
Params == [user : Users \cup {Nothing, "invalid"}, type : Types \cup {Nothing, "invalid"}]

ASSUME HistoryAssumption == Nothing \notin Users \cup Types \cup {"invalid"}

VARIABLES request,  \* request[c]: the parameters of c's request
          status,   \* status[c]: "idle", "serving" or the status answered
          result,   \* result[c]: the transactions read, later the JSON array
          before    \* before[c]: history, the table when c's request came in

api == <<request, status, result, before>>
vars == <<payload, table, api>>

Answered == {"200", "400", "500"}

Init ==
  /\ PayloadInit
  /\ request = [c \in Clients |-> [user |-> Nothing, type |-> Nothing]]
  /\ status = [c \in Clients |-> "idle"]
  /\ result = [c \in Clients |-> <<>>]
  /\ before = [c \in Clients |-> {}]

Ask(c, params) ==
  /\ status[c] \in {"idle"} \cup Answered
  /\ request' = [request EXCEPT ![c] = params]
  /\ status' = [status EXCEPT ![c] = "serving"]
  /\ result' = [result EXCEPT ![c] = <<>>]
  /\ before' = [before EXCEPT ![c] = table]
  /\ UNCHANGED <<payload, table>>

----------------------------------------------------------------------------
(* Get: the statement is a list of conditions that refer to the arguments by *)
(* their number.                                                             *)

(* Mistake: every condition refers to the first argument. *)
WithConditionOnFirst(q, column, value) ==
  IF value = Nothing THEN q
  ELSE [args |-> Append(q.args, value),
        conditions |-> Append(q.conditions, [column |-> column, arg |-> 1])]

(* A filter that is asked for adds an argument and a condition on it. *)
WithCondition(q, column, value) ==
  IF value = Nothing THEN q
  ELSE [args |-> Append(q.args, value),
        conditions |-> Append(q.conditions, [column |-> column, arg |-> Len(q.args) + 1])]

Statement(user, type) ==
  WithCondition(WithCondition([args |-> <<>>, conditions |-> <<>>], "user", user), "type", type)

Selected(q) ==
  {r \in table : \A k \in DOMAIN q.conditions :
                   r[q.conditions[k].column] = q.args[q.conditions[k].arg]}

(* Mistake: ORDER BY without NULLS LAST, which puts NULL first. *)
PrecedesNullsFirst(a, b) ==
  \/ a.timestamp = None /\ b.timestamp # None
  \/ b.timestamp # None /\ a.timestamp # None /\ a.timestamp > b.timestamp

(* ORDER BY timestamp DESC NULLS LAST; what ties comes in any order. *)
Precedes(a, b) ==
  /\ a.timestamp # None
  /\ b.timestamp = None \/ a.timestamp > b.timestamp

InOrder(s) == \A j, k \in DOMAIN s : j < k => ~Precedes(s[k], s[j])

----------------------------------------------------------------------------
(* GetTransactions. *)

Illegal(params) == params.user = "invalid" \/ params.type = "invalid"

Serving(c) == status[c] = "serving"

(* A parameter is refused before anything is read. *)
Refuse(c) ==
  /\ Serving(c) /\ Illegal(request[c])
  /\ status' = [status EXCEPT ![c] = "400"]
  /\ UNCHANGED <<payload, table, request, result, before>>

(* Get returns the rows it has scanned. *)
Read(c) ==
  /\ Serving(c) /\ ~Illegal(request[c])
  /\ \E rows \in SetToSeqs(Selected(Statement(request[c].user, request[c].type))) :
       /\ InOrder(rows)
       /\ result' = [result EXCEPT ![c] = rows]
  /\ status' = [status EXCEPT ![c] = "read"]
  /\ UNCHANGED <<payload, table, request, before>>

(* The query, a scan or the iteration fails: nothing read so far is sent. *)
ReadFails(c) ==
  /\ Serving(c) /\ ~Illegal(request[c])
  /\ status' = [status EXCEPT ![c] = "500"]
  /\ UNCHANGED <<payload, table, request, result, before>>

(* NewTransactionResponse: a row without timestamp shows the zero time.      *)
Response(r) ==
  [user_id |-> r.user, transaction_type |-> r.type, amount |-> r.amount,
   timestamp |-> IF r.timestamp = None THEN ZeroTime ELSE r.timestamp]

(* The answer is encoded row by row. *)
Send(c) ==
  /\ status[c] = "read"
  /\ result' = [result EXCEPT ![c] = [k \in DOMAIN result[c] |-> Response(result[c][k])]]
  /\ status' = [status EXCEPT ![c] = "200"]
  /\ UNCHANGED <<payload, table, request, before>>

Next ==
  \/ PayloadNext /\ UNCHANGED api
  \/ \E c \in Clients :
       \/ \E params \in Params : Ask(c, params)
       \/ Refuse(c) \/ Read(c) \/ ReadFails(c) \/ Send(c)

Spec == Init /\ [][Next]_vars

----------------------------------------------------------------------------
(* The rows of a table that a request asks for, without any SQL. *)
Asked(params, rows) ==
  {r \in rows : params.user \in {Nothing, r.user} /\ params.type \in {Nothing, r.type}}

Sent(c) == {result[c][k] : k \in DOMAIN result[c]}

Responses(rows) == {Response(r) : r \in rows}

(* An answer holds every row asked for that was there when the request came  *)
(* in, no row that does not match or is not there when it is sent, and none  *)
(* twice: another user's transactions never show, and inserts beside the     *)
(* request neither hide nor repeat any.  An illegal request gets nothing.    *)
AnswersAreComplete ==
  \A c \in Clients : status[c] = "200" =>
    /\ ~Illegal(request[c])
    /\ Responses(Asked(request[c], before[c])) \subseteq Sent(c)
    /\ Sent(c) \subseteq Responses(Asked(request[c], table))
    /\ IsInjective(result[c])

(* What a client sees is newest first by the times it sees: the zero time of *)
(* rows without one does not come before any other.                          *)
NewestFirst ==
  \A c \in Clients : status[c] = "200" =>
    \A j, k \in DOMAIN result[c] : j < k => result[c][j].timestamp >= result[c][k].timestamp
=============================================================================
