-------------------------- MODULE ApiServerProofs --------------------------
(***************************************************************************)
(* Proofs about ApiServer: its types and the limit of the pool, and that a *)
(* graceful stop harms no request, for any set of requests and any limit.  *)
(***************************************************************************)
EXTENDS ApiServer, FiniteSetTheorems, TLAPS

(* How far Run is, what became of the pool and how it got there agree; from  *)
(* Shutdown on there is no listener, and after a drained Shutdown no handler *)
(* either, for nothing can start one.                                        *)
StopKnown ==
  /\ outcome = "none" <=> run \in {"select", "shutdown"}
  /\ pool = "closed" <=> run \in {"returned", "exited"}
  /\ run = "shutdown" \/ outcome \in {"drained", "timeout"} => listener = "gone"
  /\ outcome = "drained" => Busy = {}

Inv ==
  /\ TypeOK /\ IsFiniteSet(Connections)
  /\ StopKnown
  /\ GracefulStopIsHarmless

LEMMA InvariantAtStart == Init => Inv
<1> SUFFICES ASSUME Init
             PROVE  Inv
  OBVIOUS
<1>1. Connections = {}
  BY DEF Init, Connections
<1>2. IsFiniteSet(Connections) /\ Cardinality(Connections) <= MaxOpenConns
  BY <1>1, FS_EmptySet, PoolAssumption
<1>3. TypeOK
  BY <1>2 DEF Init, TypeOK, HandlerStates
<1>4. StopKnown
  BY DEF Init, StopKnown
<1>5. GracefulStopIsHarmless
  BY DEF Init, GracefulStopIsHarmless
<1> QED
  BY <1>2, <1>3, <1>4, <1>5 DEF Inv

(* Where no handler gets a connection the pool stays within its limit. *)
LEMMA PoolShrinks ==
  ASSUME Inv, Connections' \subseteq Connections
  PROVE  IsFiniteSet(Connections)' /\ Cardinality(Connections)' <= MaxOpenConns
<1>1. IsFiniteSet(Connections') /\ Cardinality(Connections') <= Cardinality(Connections)
  BY FS_Subset DEF Inv
<1>2. Cardinality(Connections') \in Nat /\ Cardinality(Connections) \in Nat
  BY <1>1, FS_CardinalityType DEF Inv
<1> QED
  BY <1>1, <1>2, PoolAssumption DEF Inv, TypeOK

(* Only Connect hands out a connection, and only below the limit. *)
LEMMA PoolLimited ==
  ASSUME Inv, [Next]_vars
  PROVE  IsFiniteSet(Connections)' /\ Cardinality(Connections)' <= MaxOpenConns
<1>1. CASE \E r \in Requests : Connect(r)
  <2>1. PICK r \in Requests : Connect(r)
    BY <1>1
  <2>2. Connections' = Connections \cup {r} /\ r \notin Connections
    BY <2>1 DEF Connect, Handle, Connections, Inv, TypeOK
  <2>3. IsFiniteSet(Connections') /\ Cardinality(Connections') = Cardinality(Connections) + 1
    BY <2>2, FS_AddElement DEF Inv
  <2>4. Cardinality(Connections) \in Nat /\ Cardinality(Connections) < MaxOpenConns
    BY <2>1, FS_CardinalityType DEF Inv, Connect
  <2> QED
    BY <2>3, <2>4, PoolAssumption
<1>2. CASE ~\E r \in Requests : Connect(r)
  <2>1. Connections' \subseteq Connections
    <3>1. CASE \E r \in Requests : Accept(r) \/ Reject(r) \/ Query(r) \/ Answer(r) \/ Fail(r)
      BY <3>1 DEF Accept, Reject, Query, Answer, Fail, Handle, Connections, Inv, TypeOK
    <3>2. CASE ServerFailed \/ Drained \/ ShutdownTimeout \/ Exit
      BY <3>2 DEF ServerFailed, Drained, ShutdownTimeout, CloseResources, Exit, Connections,
         Inv, TypeOK
    <3>3. CASE handler' = handler
      BY <3>3 DEF Connections
    <3> QED
      BY <1>2, <3>1, <3>2, <3>3 DEF Next, vars, Listen, ListenFails, Signal, Shutdown
  <2> QED
    BY <2>1, PoolShrinks
<1> QED
  BY <1>1, <1>2

(* A handler's step: Run, the listener and the pool stay as they are.  After *)
(* a drained Shutdown, which left no handler and no listener, none starts,   *)
(* and a handler is only turned away where the pool was closed under it.     *)
LEMMA HandlerStep ==
  ASSUME Inv, NEW r \in Requests,
         Accept(r) \/ Reject(r) \/ Query(r) \/ Connect(r) \/ Answer(r) \/ Fail(r)
  PROVE  /\ UNCHANGED <<listener, serverErr, ctx, run, outcome, pool>>
         /\ handler' \in [Requests -> HandlerStates]
         /\ StopKnown' /\ GracefulStopIsHarmless'
<1>1. UNCHANGED <<listener, serverErr, ctx, run, outcome, pool>>
  BY DEF Accept, Reject, Query, Connect, Answer, Fail, Handle, server, app
<1>2. handler' \in [Requests -> HandlerStates]
  BY DEF Inv, TypeOK, HandlerStates, Served, Active, Accept, Reject, Query, Connect, Answer,
     Fail, Handle
<1>3. outcome # "drained"
  <2> SUFFICES ASSUME outcome = "drained"
               PROVE  FALSE
    OBVIOUS
  <2>1. r \notin Busy /\ listener = "gone"
    BY DEF Inv, StopKnown
  <2>2. Accept(r)
    BY <2>1 DEF Busy, Active, Reject, Query, Connect, Answer, Fail, Handle
  <2> QED
    BY <2>1, <2>2 DEF Accept, KeptAlive
<1>4. StopKnown'
  BY <1>1, <1>3 DEF Inv, StopKnown
<1>5. GracefulStopIsHarmless'
  <2>1. CASE handler'[r] = "turnedAway"
    <3>1. pool # "open" /\ run # "exited"
      BY <2>1 DEF Inv, TypeOK, Accept, Reject, Query, Connect, Answer, Fail, Handle
    <3>2. outcome \in {"timeout", "error"}
      BY <3>1, <1>3 DEF Inv, TypeOK, StopKnown
    <3> QED
      BY <3>2, <1>1 DEF GracefulStopIsHarmless
  <2>2. CASE handler'[r] # "turnedAway"
    <3>1. handler'[r] # "cut" /\ \A q \in Requests \ {r} : handler'[q] = handler[q]
      BY DEF Inv, TypeOK, Accept, Reject, Query, Connect, Answer, Fail, Handle
    <3> QED
      BY <2>2, <3>1, <1>1 DEF Inv, GracefulStopIsHarmless
  <2> QED
    BY <2>1, <2>2
<1> QED
  BY <1>1, <1>2, <1>4, <1>5

(* Run closes the pool, by one of its three ways: only where Shutdown has    *)
(* seen every handler out nobody waits for a connection.                     *)
LEMMA CloseStep ==
  ASSUME Inv, ServerFailed \/ Drained \/ ShutdownTimeout
  PROVE  /\ UNCHANGED <<listener, ctx>> /\ serverErr' \in BOOLEAN
         /\ run' = "returned" /\ pool' = "closed"
         /\ outcome' \in {"drained", "timeout", "error"}
         /\ handler' \in [Requests -> HandlerStates]
         /\ StopKnown' /\ GracefulStopIsHarmless'
<1>1. /\ UNCHANGED <<listener, ctx>> /\ serverErr' \in BOOLEAN
      /\ run' = "returned" /\ pool' = "closed"
      /\ outcome' \in {"drained", "timeout", "error"}
  BY DEF Inv, TypeOK, ServerFailed, Drained, ShutdownTimeout, CloseResources, server
<1>2. handler' = [r \in Requests |-> IF handler[r] = "waiting" THEN "turnedAway" ELSE handler[r]]
  BY DEF ServerFailed, Drained, ShutdownTimeout, CloseResources
<1>3. handler' \in [Requests -> HandlerStates]
  BY <1>2 DEF Inv, TypeOK, HandlerStates
<1>4. outcome' = "drained" => Busy = {} /\ run = "shutdown"
  BY DEF ServerFailed, Drained, ShutdownTimeout, CloseResources
<1>5. outcome' = "drained" => Busy' = {}
  BY <1>2, <1>4 DEF Busy, Active
<1>6. outcome' = "timeout" => run = "shutdown"
  BY DEF ServerFailed, Drained, ShutdownTimeout, CloseResources
<1>7. StopKnown'
  BY <1>1, <1>4, <1>5, <1>6 DEF Inv, StopKnown
<1>8. GracefulStopIsHarmless'
  <2>1. CASE outcome' = "drained"
    <3>1. outcome = "none" /\ handler' = handler
      BY <2>1, <1>2, <1>4 DEF Inv, TypeOK, StopKnown, Busy, Active
    <3> QED
      BY <3>1 DEF Inv, GracefulStopIsHarmless
  <2>2. CASE outcome' # "drained"
    BY <2>2, <1>1 DEF GracefulStopIsHarmless
  <2> QED
    BY <2>1, <2>2
<1> QED
  BY <1>1, <1>3, <1>7, <1>8

(* The process exits: whoever is still busy is cut off, and after a drained  *)
(* Shutdown nobody is.                                                       *)
LEMMA ExitStep ==
  ASSUME Inv, Exit
  PROVE  /\ UNCHANGED <<serverErr, ctx, outcome, pool>>
         /\ run' = "exited" /\ listener' = "gone"
         /\ handler' \in [Requests -> HandlerStates]
         /\ StopKnown' /\ GracefulStopIsHarmless'
<1>1. /\ UNCHANGED <<serverErr, ctx, outcome, pool>>
      /\ run = "returned" /\ run' = "exited" /\ listener' = "gone"
      /\ handler' = [r \in Requests |-> IF r \in Busy THEN "cut" ELSE handler[r]]
  BY DEF Exit
<1>2. handler' \in [Requests -> HandlerStates] /\ Busy' = {}
  BY <1>1 DEF Inv, TypeOK, HandlerStates, Busy, Active
<1>3. StopKnown'
  BY <1>1, <1>2 DEF Inv, StopKnown
<1>4. GracefulStopIsHarmless'
  <2>1. CASE outcome = "drained"
    <3>1. handler' = handler
      BY <2>1, <1>1 DEF Inv, TypeOK, StopKnown
    <3> QED
      BY <3>1, <1>1 DEF Inv, GracefulStopIsHarmless
  <2>2. CASE outcome # "drained"
    BY <2>2, <1>1 DEF Inv, TypeOK, StopKnown, GracefulStopIsHarmless
  <2> QED
    BY <2>1, <2>2
<1> QED
  BY <1>1, <1>2, <1>3, <1>4

(* Nothing happens to a handler: the listener's steps, the signal, Shutdown. *)
LEMMA QuietStep ==
  ASSUME Inv, Listen \/ ListenFails \/ Signal \/ Shutdown \/ UNCHANGED vars
  PROVE  /\ UNCHANGED <<outcome, pool, handler>>
         /\ listener' \in {"none", "open", "gone"} /\ serverErr' \in BOOLEAN
         /\ ctx' \in {"live", "cancelled"}
         /\ run' \in {"select", "shutdown", "returned", "exited"}
         /\ StopKnown' /\ GracefulStopIsHarmless'
<1>1. /\ UNCHANGED <<outcome, pool, handler>>
      /\ listener' \in {"none", "open", "gone"} /\ serverErr' \in BOOLEAN
      /\ ctx' \in {"live", "cancelled"}
      /\ run' \in {"select", "shutdown", "returned", "exited"}
  BY DEF Inv, TypeOK, Listen, ListenFails, Signal, Shutdown, vars, app, server
<1>2. Busy' = Busy
  BY <1>1 DEF Busy
<1>3. \/ run' = run /\ listener = "gone" /\ listener' = "gone"
      \/ run' = run /\ UNCHANGED listener
      \/ run = "select" /\ run' = "select"
      \/ run = "select" /\ run' = "shutdown" /\ listener' = "gone"
  BY DEF Listen, ListenFails, Signal, Shutdown, vars, app, server
<1>4. StopKnown'
  BY <1>1, <1>2, <1>3 DEF Inv, StopKnown
<1>5. GracefulStopIsHarmless'
  BY <1>1 DEF Inv, GracefulStopIsHarmless
<1> QED
  BY <1>1, <1>4, <1>5

LEMMA InvariantStep == Inv /\ [Next]_vars => Inv'
<1> SUFFICES ASSUME Inv, [Next]_vars
             PROVE  Inv'
  OBVIOUS
<1>1. IsFiniteSet(Connections)' /\ Cardinality(Connections)' <= MaxOpenConns
  BY PoolLimited
<1>2. ASSUME NEW r \in Requests,
             Accept(r) \/ Reject(r) \/ Query(r) \/ Connect(r) \/ Answer(r) \/ Fail(r)
      PROVE  Inv'
  BY <1>1, <1>2, HandlerStep DEF Inv, TypeOK
<1>3. CASE ServerFailed \/ Drained \/ ShutdownTimeout
  BY <1>1, <1>3, CloseStep DEF Inv, TypeOK
<1>4. CASE Exit
  BY <1>1, <1>4, ExitStep DEF Inv, TypeOK
<1>5. CASE Listen \/ ListenFails \/ Signal \/ Shutdown \/ UNCHANGED vars
  BY <1>1, <1>5, QuietStep DEF Inv, TypeOK
<1>6. CASE \E r \in Requests :
             Accept(r) \/ Reject(r) \/ Query(r) \/ Connect(r) \/ Answer(r) \/ Fail(r)
  <2>1. PICK r \in Requests :
               Accept(r) \/ Reject(r) \/ Query(r) \/ Connect(r) \/ Answer(r) \/ Fail(r)
    BY <1>6
  <2> QED
    BY <2>1, <1>2
<1> QED
  BY <1>3, <1>4, <1>5, <1>6 DEF Next

(* The inductive invariant holds in every reachable state.                   *)
THEOREM Invariance == Spec => []Inv
<1>1. Inv /\ UNCHANGED vars => Inv'
  BY InvariantStep
<1> QED
  BY InvariantAtStart, InvariantStep, PTL DEF Spec

(* Types, and the limit of the pool (MaxOpenConns of postgresql.go), however *)
(* many requests come in.                                                    *)
THEOREM TypeCorrectness == Spec => []TypeOK
<1>1. Inv => TypeOK
  BY DEF Inv
<1> QED
  BY Invariance, <1>1, PTL

(* Run of api.go: after a Shutdown that has seen its handlers out no request *)
(* was turned away by the closed pool or cut off by the exit.                *)
THEOREM GracefulStop == Spec => []GracefulStopIsHarmless
<1>1. Inv => GracefulStopIsHarmless
  BY DEF Inv
<1> QED
  BY Invariance, <1>1, PTL
=============================================================================
