------------------------------- MODULE Int64 -------------------------------
(***************************************************************************)
(* Go's int64, whose range a model scales down to MaxInt: arithmetic wraps *)
(* around.                                                                 *)
(***************************************************************************)
EXTENDS Integers

CONSTANT MaxInt  \* math.MaxInt64

ASSUME Int64Assumption == MaxInt \in Nat

MinInt == -MaxInt - 1

Wrap(n) == ((n - MinInt) % (2 * (MaxInt + 1))) + MinInt
=============================================================================
