----------------------------- MODULE MoneyParse -----------------------------
(***************************************************************************)
(* ParseToMinorUnits of pkg/money: from the characters of an amount to     *)
(* minor units in int64.  The state is a trimmed amount as it is typed,    *)
(* one character after the other.                                          *)
(***************************************************************************)
EXTENDS Int64, SequencesExt

CONSTANTS Digits,   \* the digits amounts are made of
          MaxChars  \* bound on the length of an amount

(* Dividing int64's limits by 100 truncates both to the same magnitude; the  *)
(* decimals are padded with a zero.                                          *)
ASSUME MoneyAssumption ==
  /\ "0" \in Digits
  /\ Digits \subseteq {"0", "1", "2", "3", "4", "5", "6", "7", "8", "9"}
  /\ MaxInt % 100 # 99
  /\ MaxChars \in Nat

VARIABLE raw

Signs == {"+", "-"}
Chars == Digits \cup Signs \cup {".", "other"}

MoneyInit == raw = <<>>

Type(ch) ==
  /\ Len(raw) < MaxChars
  /\ raw' = Append(raw, ch)

MoneyNext == \E ch \in Chars : Type(ch)

MoneySpec == MoneyInit /\ [][MoneyNext]_raw

----------------------------------------------------------------------------
(* An outcome is a value or the name of an error. *)
Value(n) == [ok |-> TRUE, value |-> n]
Error(e) == [ok |-> FALSE, error |-> e]

IsDigits(s) == s # <<>> /\ \A k \in DOMAIN s : s[k] \in Digits

Numerals == <<"0", "1", "2", "3", "4", "5", "6", "7", "8", "9">>

DigitValue(d) == (CHOOSE k \in DOMAIN Numerals : Numerals[k] = d) - 1

WithDigit(n, d) == 10 * n + DigitValue(d)

(* The number a sequence of digits spells. *)
Spelled(s) == FoldLeft(WithDigit, 0, s)

Unsigned(s) == IF s # <<>> /\ s[1] \in Signs THEN Tail(s) ELSE s

(* External: strconv.ParseInt with base 10, which takes one sign of its own. *)
ParseInt(s) ==
  LET body == Unsigned(s)
      n == IF s[1] = "-" THEN -Spelled(body) ELSE Spelled(body)
  IN
  IF s # <<>> /\ IsDigits(body)
  THEN IF n \in MinInt..MaxInt THEN Value(n) ELSE Error("range")
  ELSE Error("syntax")

(* One digit counts tens, none counts as zero. *)
PadFraction(s) ==
  CASE Len(s) = 0 -> <<"0", "0">>
    [] Len(s) = 1 -> Append(s, "0")
    [] OTHER -> s

(* Mistake: the sum is not checked against the largest amount. *)
JoinUnchecked(sign, int, frac) ==
  LET base == Wrap(int * 100) IN
  IF int > MaxInt \div 100 \/ int < -(MaxInt \div 100)
  THEN Error("ErrAmountOverflow")
  ELSE Value(Wrap(sign * Wrap(base + frac)))

(* The overflow checks, in wrapping arithmetic, then the signed sum. *)
Join(sign, int, frac) ==
  LET base == Wrap(int * 100) IN
  IF \/ int > MaxInt \div 100 \/ int < -(MaxInt \div 100)
     \/ base > Wrap(MaxInt - frac)
  THEN Error("ErrAmountOverflow")
  ELSE Value(Wrap(sign * Wrap(base + frac)))

(* Mistake: digits behind the second decimal are dropped, not refused. *)
ParseDecimalTruncates(sign, whole, decimals) ==
  LET int == ParseInt(whole)
      frac == ParseInt(PadFraction(SubSeq(decimals, 1, IF Len(decimals) > 2 THEN 2 ELSE Len(decimals))))
  IN
  IF ~int.ok THEN Error("ErrInvalidAmount")
  ELSE IF ~frac.ok THEN Error("ErrInvalidDecimalPart")
  ELSE Join(sign, int.value, frac.value)

(* The parts on both sides of the point, each by ParseInt. *)
ParseDecimal(sign, whole, decimals) ==
  LET int == ParseInt(whole)
      frac == ParseInt(PadFraction(decimals))
  IN
  IF ~int.ok THEN Error("ErrInvalidAmount")
  ELSE IF Len(decimals) > 2 THEN Error("ErrTooManyDecimals")
  ELSE IF ~frac.ok THEN Error("ErrInvalidDecimalPart")
  ELSE Join(sign, int.value, frac.value)

Points(s) == {k \in DOMAIN s : s[k] = "."}

(* strings.Split at the point has exactly two parts, the first not empty. *)
ParsePointed(sign, s) ==
  IF \E k \in Points(s) : Points(s) = {k} /\ k > 1
  THEN LET k == CHOOSE j \in Points(s) : TRUE IN
       ParseDecimal(sign, SubSeq(s, 1, k - 1), SubSeq(s, k + 1, Len(s)))
  ELSE Error("ErrInvalidAmount")

(* Without a point ParseInt alone decides; with one, a sign is cut off first. *)
ParseToMinorUnits(s) ==
  IF s = <<>> THEN Error("ErrEmptyAmount")
  ELSE IF Points(s) = {}
  THEN IF ParseInt(s).ok THEN ParseInt(s) ELSE Error("ErrInvalidAmount")
  ELSE ParsePointed(IF s[1] = "-" THEN -1 ELSE 1, Unsigned(s))

----------------------------------------------------------------------------
(* The reference: what an amount means. *)

(* [sign] digits [. up to two digits]. *)
WellFormed(s) ==
  LET body == Unsigned(s) IN
  \/ IsDigits(body)
  \/ \E k \in DOMAIN body :
       /\ body[k] = "."
       /\ IsDigits(SubSeq(body, 1, k - 1))
       /\ Len(body) - k <= 2
       /\ \A j \in k+1..Len(body) : body[j] \in Digits

(* A well-formed amount in minor units: what its digits spell, the point     *)
(* left out, times ten for each decimal that is not there.  An amount        *)
(* without a point already is in minor units.                                *)
Meaning(s) ==
  LET body == Unsigned(s)
      point == CHOOSE k \in Points(body) : TRUE
      decimals == SubSeq(body, point + 1, Len(body))
  IN
  (IF s[1] = "-" THEN -1 ELSE 1) *
  (IF Points(body) = {} THEN Spelled(body)
   ELSE <<100, 10, 1>>[Len(decimals) + 1] * Spelled(SubSeq(body, 1, point - 1) \o decimals))

(* Every amount in one of the supported formats is parsed to its value, and  *)
(* refused only if the value is beyond int64; the smallest int64 has no      *)
(* decimal form.                                                             *)
SupportedAmountsParsed ==
  WellFormed(raw) =>
    LET least == IF Points(raw) = {} THEN MinInt ELSE -MaxInt IN
    IF Meaning(raw) \in least..MaxInt
    THEN ParseToMinorUnits(raw) = Value(Meaning(raw))
    ELSE ~ParseToMinorUnits(raw).ok

(* Beyond the supported formats a stray sign in front of the digits or of    *)
(* the decimals is all that slips through, and only in an amount with a      *)
(* point: take away the sign behind the first sign and the one behind the    *)
(* point, and the amount is well-formed.                                     *)
StraySign(s, k) == k \in 2..Len(s) /\ s[k] \in Signs /\ s[k - 1] \in Signs \cup {"."}

WithoutStraySign(s, k) == IF StraySign(s, k) THEN RemoveAt(s, k) ELSE s

OnlyStraySignsSlipThrough ==
  ParseToMinorUnits(raw).ok =>
    IF Points(raw) = {} THEN WellFormed(raw)
    ELSE \E p \in Points(raw) : WellFormed(WithoutStraySign(WithoutStraySign(raw, p + 1), 2))
=============================================================================
