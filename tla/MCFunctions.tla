---------------------------- MODULE MCFunctions ----------------------------
(***************************************************************************)
(* Small instances of amounts, delays, settings and payloads, components   *)
(* that share no state with each other, for TLC.  Each runs while the      *)
(* others stand at a beginning, so that their states add up instead of     *)
(* multiplying.                                                            *)
(***************************************************************************)
EXTENDS MoneyParse, Backoff, Settings, Payload, TLC

CONSTANTS w1, w2,                      \* partition workers
          c1, c2,                      \* callers of NewConfig
          u1, u2,                      \* users
          e1, e2, e3, e4, e5, e6, e7   \* events

SettingValues == {-1, 0, 7, 8}

(* In ticks 6, one that wraps to a negative number, one that wraps to 2.     *)
Jitters == {3, 600, 1014}

(* The file holds the topic and the environment what is said.                *)
Surroundings(said) ==
  /\ env = said
  /\ file = [n \in Names |-> IF n = "Topic" THEN 7 ELSE Unset]
  /\ SettingsInit

NoSettings == Surroundings([n \in Names |-> Unset])

OneSetting == \E s \in Names, v \in Values \cup {Malformed} :
                Surroundings([n \in Names |-> IF n = s THEN v ELSE Unset])

----------------------------------------------------------------------------
(* Instants stand on both sides of the threshold between seconds and         *)
(* milliseconds, which is 44 ticks as milliseconds and 88 as seconds, and    *)
(* within a day of 40.                                                       *)
Happened(user, type, amount, instant) ==
  [user |-> user, type |-> type, amount |-> amount, instant |-> instant]

(* Equal bets of one user twice on one day and once the day before, the      *)
(* second at an instant that seconds do not reach; next to the first a bet   *)
(* of another user, one of another amount, a win, and a negative amount.     *)
Wagers ==
  e1 :> Happened(u1, "bet", 5, 83) @@ e2 :> Happened(u1, "bet", 5, 90)
    @@ e3 :> Happened(u1, "bet", 5, 45) @@ e4 :> Happened(u2, "bet", 5, 83)
    @@ e5 :> Happened(u1, "bet", 6, 83) @@ e6 :> Happened(u1, "win", 5, 83)
    @@ e7 :> Happened(u1, "bet", -5, 83)

(* Every way to write an instant and every way to write an amount.           *)
Spellings ==
  e1 :> TimeForms \X {"text"}
    @@ e2 :> TimeForms \X {"text"}
    @@ e3 :> {<<"millis", "text">>, <<"date", "text">>, <<"datetime", "null">>}
    @@ e4 :> {<<"date", "text">>, <<"date", "exponent">>}
    @@ e5 :> {<<"date", "text">>, <<"date", "absent">>}
    @@ e6 :> {<<"date", "text">>} @@ e7 :> {<<"date", "text">>}

YearOne == -50

----------------------------------------------------------------------------
vars == <<raw, backoff, settings, payload, table>>

Rested == BackoffInit /\ RetryJitterMs = 3

Init ==
  /\ MoneyInit /\ PayloadInit
  /\ \/ BackoffInit /\ NoSettings
     \/ Rested /\ OneSetting

Next ==
  \/ /\ Rested /\ NoSettings /\ PayloadInit
     /\ MoneyNext /\ UNCHANGED <<backoff, settings, payload, table>>
  \/ /\ MoneyInit /\ NoSettings /\ PayloadInit
     /\ BackoffNext /\ UNCHANGED <<raw, settings, payload, table>>
  \/ /\ MoneyInit /\ Rested /\ PayloadInit
     /\ SettingsNext /\ UNCHANGED <<raw, backoff, payload, table>>
  \/ /\ MoneyInit /\ Rested /\ NoSettings
     /\ PayloadNext /\ UNCHANGED <<raw, backoff, settings>>

Spec == Init /\ [][Next]_vars
=============================================================================
