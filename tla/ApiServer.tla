----------------------------- MODULE ApiServer -----------------------------
(***************************************************************************)
(* One life of the API process (cmd/api, internal/app/api.go): the HTTP    *)
(* server, its handlers of GET /transactions, the connection pool they     *)
(* share, and Run, which closes that pool on its way out.                  *)
(*                                                                         *)
(* A handler waits for a connection of the pool and holds it during its    *)
(* query.  sql.DB.Close turns away whoever waits for a connection and      *)
(* lets a query that has one finish.  ErrServerClosed is left out: the     *)
(* server only returns it after Shutdown, when Run reads its channel no    *)
(* more.                                                                   *)
(***************************************************************************)
EXTENDS Naturals, FiniteSets

CONSTANTS Requests,     \* HTTP requests clients may send
          MaxOpenConns  \* poolCfg.MaxOpenConns after NewPostgresRepo

ASSUME PoolAssumption == MaxOpenConns \in Nat \ {0}

VARIABLES
  listener,   \* "none" before ListenAndServe, "open", or "gone"
  serverErr,  \* serverErrCh: the listen error Run has not read yet
  ctx,        \* the signal context: "live" or "cancelled"
  run,        \* how far Run is: "select", "shutdown", "returned"; "exited": main is done
  outcome,    \* how Run got to closeResources
  pool,       \* the sql.DB: "open" or "closed"
  handler     \* handler[r]: what became of request r

vars == <<listener, serverErr, ctx, run, outcome, pool, handler>>

Served == {"200", "400", "500"}
Active == {"parsing", "waiting", "querying"}

(* "turnedAway": answered 500 because the pool was closed; "cut": the process exited. *)
HandlerStates == {"unsent"} \cup Active \cup Served \cup {"turnedAway", "cut"}

Init ==
  /\ listener = "none" /\ serverErr = FALSE
  /\ ctx = "live" /\ run = "select" /\ outcome = "none"
  /\ pool = "open"
  /\ handler = [r \in Requests |-> "unsent"]

Busy == {r \in Requests : handler[r] \in Active}
Connections == {r \in Requests : handler[r] = "querying"}

server == <<listener, serverErr>>
app == <<ctx, run, outcome, pool>>

Handle(r, from, to) ==
  /\ run # "exited" /\ handler[r] = from
  /\ handler' = [handler EXCEPT ![r] = to]
  /\ UNCHANGED <<server, app>>

----------------------------------------------------------------------------
(* The goroutine of ListenAndServe. *)

Listen ==
  /\ listener = "none" /\ run = "select"
  /\ listener' = "open"
  /\ UNCHANGED <<serverErr, app, handler>>

(* The port cannot be bound, or the open listener fails for good. *)
ListenFails ==
  /\ listener # "gone" /\ run = "select"
  /\ listener' = "gone" /\ serverErr' = TRUE
  /\ UNCHANGED <<app, handler>>

(* Shutdown leaves no idle connection behind and ends keep-alive. *)
KeptAlive ==
  /\ run # "shutdown" /\ outcome \in {"none", "error"}
  /\ \E r \in Requests : handler[r] \in Served \cup {"turnedAway"}

(* A request comes in over a new connection, or one that was kept alive. *)
Accept(r) == (listener = "open" \/ KeptAlive) /\ Handle(r, "unsent", "parsing")

----------------------------------------------------------------------------
(* GetTransactions, down to PostgresRepo.Get. *)

(* user_id or transaction_type is not valid. *)
Reject(r) == Handle(r, "parsing", "400")

(* QueryContext asks for a connection. *)
Query(r) == Handle(r, "parsing", IF pool = "open" THEN "waiting" ELSE "turnedAway")

(* Mistake: the pool opens one connection more than it may. *)
ConnectBeyondMax(r) ==
  /\ pool = "open" /\ Cardinality(Connections) <= MaxOpenConns
  /\ Handle(r, "waiting", "querying")

(* A connection is free, or may be opened. *)
Connect(r) ==
  /\ pool = "open" /\ Cardinality(Connections) < MaxOpenConns
  /\ Handle(r, "waiting", "querying")

(* The rows are read and sent. *)
Answer(r) == Handle(r, "querying", "200")

(* Every error of the driver is an internal_error to Classify; so is a       *)
(* request whose client has gone while it waits or queries.                  *)
Fail(r) == Handle(r, "waiting", "500") \/ Handle(r, "querying", "500")

----------------------------------------------------------------------------
(* Run and main. *)

(* SIGINT or SIGTERM. *)
Signal ==
  /\ ctx = "live" /\ run # "exited"
  /\ ctx' = "cancelled"
  /\ UNCHANGED <<server, run, outcome, pool, handler>>

(* closeResources, after which Run returns. *)
CloseResources(how) ==
  /\ run' = "returned" /\ outcome' = how /\ pool' = "closed"
  /\ handler' = [r \in Requests |-> IF handler[r] = "waiting" THEN "turnedAway" ELSE handler[r]]
  /\ UNCHANGED ctx

ServerFailed ==
  /\ run = "select" /\ serverErr
  /\ serverErr' = FALSE
  /\ CloseResources("error")
  /\ UNCHANGED listener

(* Shutdown closes the listener and waits for the handlers ... *)
Shutdown ==
  /\ run = "select" /\ ctx = "cancelled"
  /\ run' = "shutdown" /\ listener' = "gone"
  /\ UNCHANGED <<serverErr, ctx, outcome, pool, handler>>

(* Mistake: the resources are closed as soon as the listener is. *)
DrainedAtOnce == run = "shutdown" /\ CloseResources("drained") /\ UNCHANGED server

(* ... until they are done ... *)
Drained == run = "shutdown" /\ Busy = {} /\ CloseResources("drained") /\ UNCHANGED server

(* Mistake: Shutdown is given a context without a timeout. *)
ShutdownTimeoutNever == FALSE

(* ... or DefaultShutdownTimeout has passed. *)
ShutdownTimeout == run = "shutdown" /\ Busy # {} /\ CloseResources("timeout") /\ UNCHANGED server

Exit ==
  /\ run = "returned"
  /\ run' = "exited" /\ listener' = "gone"
  /\ handler' = [r \in Requests |-> IF r \in Busy THEN "cut" ELSE handler[r]]
  /\ UNCHANGED <<serverErr, ctx, outcome, pool>>

Next ==
  \/ Listen \/ ListenFails
  \/ \E r \in Requests :
       Accept(r) \/ Reject(r) \/ Query(r) \/ Connect(r) \/ Answer(r) \/ Fail(r)
  \/ Signal \/ ServerFailed \/ Shutdown \/ Drained \/ ShutdownTimeout \/ Exit

Spec == Init /\ [][Next]_vars

(* The goroutine of Run is scheduled, and its timer fires; handlers may hang. *)
FairSpec ==
  Spec /\ WF_vars(ServerFailed) /\ WF_vars(Shutdown)
       /\ WF_vars(Drained) /\ WF_vars(ShutdownTimeout) /\ WF_vars(Exit)

----------------------------------------------------------------------------

(* Every variable has its type, and the pool keeps to its limit. *)
TypeOK ==
  /\ listener \in {"none", "open", "gone"}
  /\ serverErr \in BOOLEAN
  /\ ctx \in {"live", "cancelled"}
  /\ run \in {"select", "shutdown", "returned", "exited"}
  /\ outcome \in {"none", "drained", "timeout", "error"}
  /\ pool \in {"open", "closed"}
  /\ handler \in [Requests -> HandlerStates]
  /\ Cardinality(Connections) <= MaxOpenConns

(* A stop in which Shutdown saw its handlers out does no request any harm:   *)
(* none finds the pool closed under it and none is cut off by the exit.      *)
GracefulStopIsHarmless ==
  (\E r \in Requests : handler[r] \in {"turnedAway", "cut"}) => outcome \in {"timeout", "error"}

(* The comment on Run: it waits for ctx or a listen error, then performs a   *)
(* graceful Shutdown and closes resources.  So a request only finds the pool *)
(* closed when Shutdown has waited for it in vain.                           *)
ShutdownBeforeClose ==
  (\E r \in Requests : handler[r] = "turnedAway") => outcome = "timeout"

(* Signalled or failed, the process is gone in the end, hung handlers or not. *)
StopsInTheEnd == ctx = "cancelled" \/ serverErr ~> run = "exited"
=============================================================================
