----------------------------- MODULE MCHistory -----------------------------
(***************************************************************************)
(* A small instance of History for TLC: one client beside the payloads of  *)
(* four events.                                                            *)
(***************************************************************************)
EXTENDS History, TLC

CONSTANTS c1,             \* a client
          u1, u2,         \* users
          e1, e2, e3, e4  \* events

Happened(user, type, amount, instant) ==
  [user |-> user, type |-> type, amount |-> amount, instant |-> instant]

(* Two bets of one user at one instant, a win of another user next to it, a  *)
(* negative amount.                                                          *)
Wagers ==
  e1 :> Happened(u1, "bet", 5, 80) @@ e2 :> Happened(u1, "bet", 6, 80)
    @@ e3 :> Happened(u2, "win", 5, 83) @@ e4 :> Happened(u1, "win", -5, 80)

(* Times that agree, differ or are missing, and payloads that are refused.   *)
Spellings ==
  e1 :> {"seconds", "nano", "date", "absent"} \X {"text"}
    @@ e2 :> {<<"millis", "text">>, <<"unsupported", "text">>, <<"nano", "exponent">>}
    @@ e3 :> {<<"nano", "text">>, <<"absent", "text">>, <<"millis", "null">>}
    @@ e4 :> {<<"millis", "text">>, <<"nano", "absent">>}

YearOne == -50
=============================================================================
