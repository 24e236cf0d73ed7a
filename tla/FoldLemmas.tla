----------------------------- MODULE FoldLemmas -----------------------------
(***************************************************************************)
(* Induction and recursion in the form the proofs about data use them.     *)
(* The induction theorems of the library are about an operator, here they  *)
(* are about a set, which stands for any predicate as {n \in Nat : P(n)}.  *)
(***************************************************************************)
EXTENDS Integers, FiniteSetsExt, WellFoundedInduction, TLAPS

(* The numbers are well-ordered. *)
LEMMA LeastNumber ==
  ASSUME NEW S \in SUBSET Nat, S # {}
  PROVE  \E m \in S : \A n \in S : m <= n
<1> DEFINE Less == {ss \in Nat \X Nat : ss[1] < ss[2]}
<1>1. IsWellFoundedOn(Less, Nat)
  BY NatLessThanWellFounded DEF OpToRel
<1>2. PICK m \in S : \A n \in S : <<n, m>> \notin Less
  <2> HIDE DEF Less
  <2> QED BY <1>1, WFMin
<1>3. ASSUME NEW n \in S PROVE m <= n
  <2>1. n < m => <<n, m>> \in Less
    OBVIOUS
  <2> QED BY <1>2, <2>1
<1> QED BY <1>3

(* A set with 0 and the successor of each of its numbers has all of them. *)
LEMMA Induction ==
  ASSUME NEW S, 0 \in S, \A n \in Nat : n \in S => n + 1 \in S
  PROVE  \A n \in Nat : n \in S
<1> DEFINE Rest == Nat \ S
<1> SUFFICES ASSUME Rest # {} PROVE FALSE
  OBVIOUS
<1>1. PICK m \in Rest : \A n \in Rest : m <= n
  <2>1. Rest \in SUBSET Nat
    OBVIOUS
  <2> HIDE DEF Rest
  <2> QED BY <2>1, LeastNumber
<1>2. m # 0 /\ m - 1 \in Nat
  OBVIOUS
<1>3. m - 1 \in S
  BY <1>1, <1>2
<1> QED BY <1>1, <1>2, <1>3

(* h folds g over the subsets of 1..n, the largest index first. *)
Folds(h, n, T, base, g) ==
  /\ h \in [SUBSET (1..n) -> T]
  /\ h[{}] = base
  /\ \A s \in SUBSET (1..n) : s # {} =>
       Max(s) \in s /\ h[s] = g[<<Max(s), h[s \ {Max(s)}]>>]

(* The recursion of a fold defines a function. *)
LEMMA FoldDefined ==
  ASSUME NEW n \in Nat, NEW T, NEW base \in T, NEW g \in [Nat \X T -> T]
  PROVE  \E h : Folds(h, n, T, base, g)
<1> DEFINE Last(h, s) == Max(s) \in s /\ h[s] = g[<<Max(s), h[s \ {Max(s)}]>>]
           Fold(m, h) ==
             /\ h \in [SUBSET (1..m) -> T]
             /\ h[{}] = base
             /\ \A s \in SUBSET (1..m) : s # {} => Last(h, s)
           S == {m \in Nat : \E h : Fold(m, h)}
<1>1. 0 \in S
  <2> DEFINE h == [s \in SUBSET (1..0) |-> base]
  <2>1. \A s \in SUBSET (1..0) : s = {}
    OBVIOUS
  <2>2. h \in [SUBSET (1..0) -> T] /\ h[{}] = base
    OBVIOUS
  <2>3. Fold(0, h)
    <3> HIDE DEF h, Last
    <3> QED BY <2>1, <2>2
  <2> HIDE DEF Fold, h
  <2> QED BY <2>3
<1>2. ASSUME NEW m \in Nat, m \in S
      PROVE  m + 1 \in S
  <2>1. PICK f : Fold(m, f)
    BY <1>2
  <2> DEFINE h == [s \in SUBSET (1..(m + 1)) |->
                    IF m + 1 \in s THEN g[<<m + 1, f[s \ {m + 1}]>>] ELSE f[s]]
  <2>2. \A s \in SUBSET (1..(m + 1)) :
          /\ s \ {m + 1} \in SUBSET (1..m)
          /\ m + 1 \notin s => s \in SUBSET (1..m)
    OBVIOUS
  <2>3. h \in [SUBSET (1..(m + 1)) -> T] /\ h[{}] = base
    BY <2>1, <2>2
  <2>4. ASSUME NEW s \in SUBSET (1..(m + 1)), m + 1 \in s
        PROVE  Last(h, s)
    <3>1. Max(s) = m + 1
      <4>1. \A x \in s : (\A y \in s : x >= y) <=> x = m + 1
        BY <2>4
      <4> HIDE DEF h
      <4> QED BY <2>4, <4>1, Zenon DEF Max
    <3>2. h[s \ {m + 1}] = f[s \ {m + 1}]
      BY <2>2
    <3> QED BY <2>4, <3>1, <3>2
  <2>5. ASSUME NEW s \in SUBSET (1..(m + 1)), m + 1 \notin s, s # {}
        PROVE  Last(h, s)
    <3>1. s \in SUBSET (1..m) /\ s \ {Max(s)} \in SUBSET (1..m)
      BY <2>2, <2>5
    <3>2. h[s] = f[s] /\ h[s \ {Max(s)}] = f[s \ {Max(s)}]
      BY <2>5, <3>1
    <3> QED BY <2>1, <2>5, <3>1, <3>2
  <2>6. Fold(m + 1, h)
    <3> HIDE DEF h, Last
    <3> QED BY <2>3, <2>4, <2>5
  <2>7. \E k : Fold(m + 1, k)
    <3> HIDE DEF h, Fold
    <3> QED BY <2>6
  <2> HIDE DEF Fold
  <2> QED BY <2>7
<1>3. n \in S
  <2> HIDE DEF S
  <2> QED BY <1>1, <1>2, Induction
<1> QED BY <1>3 DEF Folds

(* A fold over 1..k starts with k and goes on over 1..(k - 1). *)
LEMMA FoldStep ==
  ASSUME NEW n \in Nat, NEW k \in 1..n
  PROVE  /\ 1..k # {} /\ 1..k \in SUBSET (1..n)
         /\ Max(1..k) = k /\ (1..k) \ {k} = 1..(k - 1)
<1>1. \A x \in 1..k : (\A y \in 1..k : x >= y) <=> x = k
  OBVIOUS
<1>2. k \in 1..k
  OBVIOUS
<1>3. Max(1..k) = k
  <2> DEFINE s == 1..k
  <2> HIDE DEF s
  <2>1. Max(s) = k
    BY <1>1, <1>2, Zenon DEF Max, s
  <2> QED BY <2>1 DEF s
<1> QED BY <1>3
=============================================================================
