------------------------------ MODULE Process ------------------------------
(***************************************************************************)
(* What a supervisor may rely on about one processor: it works until it is *)
(* told to stop, by a signal or by an error of its own, then winds down    *)
(* and goes down.  Consumer and Lifecycle both implement this.             *)
(***************************************************************************)
VARIABLES phase,  \* "down", "running", "draining" or "closed"
          ctx     \* "live", or why the context of Start is cancelled

vars == <<phase, ctx>>

Stops == {"signalled", "fatal"}

Init == phase = "down" /\ ctx = "live"

(* A signal may have come before Start is reached. *)
Start ==
  /\ phase = "down"
  /\ phase' = "running"
  /\ ctx' \in {"live", "signalled"}

Cancel ==
  /\ phase = "running" /\ ctx = "live"
  /\ ctx' \in Stops
  /\ UNCHANGED phase

StopFetching ==
  /\ phase = "running" /\ ctx \in Stops
  /\ phase' = "draining"
  /\ UNCHANGED ctx

Close ==
  /\ phase = "draining"
  /\ phase' = "closed"
  /\ UNCHANGED ctx

End ==
  /\ phase = "closed"
  /\ phase' = "down" /\ ctx' = "live"

(* Killed, in whatever phase. *)
Die == phase # "down" /\ phase' = "down" /\ ctx' = "live"

Next == Start \/ Cancel \/ StopFetching \/ Close \/ End \/ Die

Spec == Init /\ [][Next]_vars /\ WF_vars(StopFetching) /\ WF_vars(Close) /\ WF_vars(End)
=============================================================================
