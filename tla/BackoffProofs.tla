---------------------------- MODULE BackoffProofs ----------------------------
(***************************************************************************)
(* Induction over the natural numbers, and with it what the schedule of    *)
(* Backoff computes, for any initial delay and any cap.                    *)
(*                                                                         *)
(* The library's induction rules take an operator as a parameter and       *)
(* cannot be cited here; its rule that a well-founded relation has minimal *)
(* elements takes a set.  From that follow, in this order: a non-empty set *)
(* of numbers has a least element, a set of numbers closed under successor *)
(* is Nat, and the recursive function Doubled exists.                      *)
(***************************************************************************)
EXTENDS Backoff, WellFoundedInduction, TLAPS

\* A non-empty set of natural numbers has a least element.
LEMMA LeastNat ==
  ASSUME NEW T \in SUBSET Nat, T # {}
  PROVE  \E n \in T : \A m \in T : n <= m
<1> DEFINE R == OpToRel(<, Nat)
<1>1. IsWellFoundedOn(R, Nat)
  BY NatLessThanWellFounded
<1>2. \E x \in T : \A y \in T : ~ (<<y, x>> \in R)
  <2> HIDE DEF R
  <2> QED BY <1>1, WFMin
<1>3. \A x, y \in Nat : <<y, x>> \in R <=> y < x
  BY DEF OpToRel
<1> HIDE DEF R
<1>4. PICK x \in T : \A y \in T : ~ (<<y, x>> \in R)
  BY <1>2
<1>5. \A y \in T : x <= y
  <2>1. TAKE y \in T
  <2>2. x \in Nat /\ y \in Nat
    OBVIOUS
  <2>3. ~ (y < x)
    BY <1>3, <1>4, <2>2
  <2>4. QED
    BY <2>2, <2>3
<1>6. QED
  BY <1>5

\* Induction: a set of natural numbers with 0 that is closed under successor is Nat.
LEMMA SetInduction ==
  ASSUME NEW S \in SUBSET Nat, 0 \in S, \A n \in S : n + 1 \in S
  PROVE  S = Nat
<1> DEFINE T == Nat \ S
<1>1. SUFFICES ASSUME T # {} PROVE FALSE
  OBVIOUS
<1>2. PICK n \in T : \A m \in T : n <= m
  <2> HIDE DEF T
  <2>1. T \in SUBSET Nat BY DEF T
  <2> QED BY LeastNat, <1>1, <2>1
<1>3. n # 0 /\ n - 1 \in S
  BY <1>2
<1>4. QED BY <1>2, <1>3

-----------------------------------------------------------------------------
\* Doubled up to n: functions that double from InitialDelay on.
Doubles(g, n) ==
  /\ g \in [0..n -> Nat]
  /\ g[0] = InitialDelay
  /\ \A m \in 0..n : m # n => g[m + 1] = 2 * g[m]

LEMMA DoublesExists == \A n \in Nat : \E g : Doubles(g, n)
<1> DEFINE S == {n \in Nat : \E g : Doubles(g, n)}
<1>1. 0 \in S
  <2>1. Doubles([m \in 0..0 |-> InitialDelay], 0)
    BY DelayAssumption DEF Doubles
  <2>2. QED
    BY <2>1
<1>2. ASSUME NEW n \in S
      PROVE  n + 1 \in S
  <2>1. PICK g : Doubles(g, n)
    OBVIOUS
  <2>2. n \in Nat
    OBVIOUS
  <2> DEFINE h == [m \in 0..(n + 1) |-> IF m = n + 1 THEN 2 * g[n] ELSE g[m]]
  <2>3. h \in [0..(n + 1) -> Nat]
    BY <2>1, <2>2 DEF Doubles
  <2>4. h[0] = InitialDelay
    BY <2>1, <2>2 DEF Doubles
  <2>5. \A m \in 0..(n + 1) : m # n + 1 => h[m + 1] = 2 * h[m]
    <3>1. TAKE m \in 0..(n + 1)
    <3>2. HAVE m # n + 1
    <3>3. m \in 0..n /\ m + 1 \in 0..(n + 1) /\ m # n + 1
      BY <2>2, <3>2
    <3>4. h[m] = g[m]
      BY <3>3
    <3>5. CASE m = n
      BY <3>3, <3>4, <3>5
    <3>6. CASE m # n
      <4>1. h[m + 1] = g[m + 1]
        BY <2>2, <3>3, <3>6
      <4>2. QED
        BY <2>1, <3>3, <3>4, <3>6, <4>1 DEF Doubles
    <3>7. QED
      BY <3>5, <3>6
  <2>6. Doubles(h, n + 1)
    BY <2>3, <2>4, <2>5 DEF Doubles
  <2>7. QED
    BY <2>2, <2>6
<1>3. S \in SUBSET Nat
  OBVIOUS
<1>4. S = Nat
  <2> HIDE DEF S
  <2> QED
    BY <1>1, <1>2, <1>3, SetInduction
<1>5. QED
  BY <1>4

LEMMA DoublesAgree ==
  ASSUME NEW n \in Nat, NEW g, Doubles(g, n), NEW k \in Nat, NEW h, Doubles(h, k)
  PROVE  \A m \in Nat : m <= n /\ m <= k => g[m] = h[m]
<1> DEFINE S == {m \in Nat : m <= n /\ m <= k => g[m] = h[m]}
<1>1. 0 \in S
  BY DEF Doubles
<1>2. ASSUME NEW m \in S
      PROVE  m + 1 \in S
  <2>1. SUFFICES ASSUME m + 1 <= n, m + 1 <= k
                 PROVE  g[m + 1] = h[m + 1]
    OBVIOUS
  <2>2. m \in 0..n /\ m # n /\ m \in 0..k /\ m # k
    BY <2>1
  <2>3. g[m] = h[m]
    BY <2>2
  <2>4. QED
    BY <2>2, <2>3 DEF Doubles
<1>3. S \in SUBSET Nat
  OBVIOUS
<1>4. S = Nat
  <2> HIDE DEF S
  <2> QED
    BY <1>1, <1>2, <1>3, SetInduction
<1>5. QED
  BY <1>4

\* The recursive definition of Doubled has a value, and that value satisfies it.
LEMMA DoubledDef ==
  /\ Doubled \in [Nat -> Nat]
  /\ Doubled[0] = InitialDelay
  /\ \A n \in Nat : Doubled[n + 1] = 2 * Doubled[n]
<1> DEFINE Pick(n) == CHOOSE g : Doubles(g, n)
           F == [n \in Nat |-> Pick(n)[n]]
<1>1. \A n \in Nat : Doubles(Pick(n), n)
  BY DoublesExists
<1> HIDE DEF Pick
<1>2. \A n \in Nat : Pick(n)[n] \in Nat
  BY <1>1 DEF Doubles
<1>3. F \in [Nat -> Nat] /\ F[0] = InitialDelay
  BY <1>1, <1>2 DEF Doubles
<1>4. \A n \in Nat : F[n + 1] = 2 * F[n]
  <2>1. TAKE n \in Nat
  <2>2. Doubles(Pick(n + 1), n + 1) /\ Doubles(Pick(n), n)
    BY <1>1
  <2>3. Pick(n + 1)[n + 1] = 2 * Pick(n + 1)[n]
    <3>1. n \in 0..(n + 1) /\ n # n + 1
      OBVIOUS
    <3>2. QED
      BY <2>2, <3>1 DEF Doubles
  <2>4. Pick(n + 1)[n] = Pick(n)[n]
    BY <2>2, DoublesAgree
  <2>5. QED
    BY <2>3, <2>4
<1> HIDE DEF F
<1>5. F = [n \in Nat |-> IF n = 0 THEN InitialDelay ELSE 2 * F[n - 1]]
  <2>1. \A n \in Nat : F[n] = IF n = 0 THEN InitialDelay ELSE 2 * F[n - 1]
    <3>1. TAKE n \in Nat
    <3>2. CASE n = 0
      BY <1>3, <3>2
    <3>3. CASE n # 0
      <4>1. n - 1 \in Nat /\ (n - 1) + 1 = n
        BY <3>3
      <4>2. QED
        BY <1>4, <3>3, <4>1
    <3>4. QED
      BY <3>2, <3>3
  <2>2. QED
    BY <1>3, <2>1
<1>6. Doubled = [n \in Nat |-> IF n = 0 THEN InitialDelay ELSE 2 * Doubled[n - 1]]
  BY <1>5 DEF Doubled
<1>7. Doubled[0] = InitialDelay
  BY <1>6
<1>8. \A n \in Nat : Doubled[n + 1] = 2 * Doubled[n]
  BY <1>6, <1>7
<1> DEFINE S == {n \in Nat : Doubled[n] \in Nat}
<1>9. S = Nat
  <2>1. 0 \in S
    BY <1>7, DelayAssumption
  <2>2. ASSUME NEW n \in S PROVE n + 1 \in S
    BY <1>8
  <2>3. S \in SUBSET Nat
    OBVIOUS
  <2> HIDE DEF S
  <2>4. QED
    BY <2>1, <2>2, <2>3, SetInduction
<1>10. Doubled \in [Nat -> Nat]
  BY <1>6, <1>9
<1>11. QED
  BY <1>10, <1>6, <1>7, <1>8, <1>9

\* The first sleep keeps the pace.
LEMMA PaceStarts == KeepsPace(InitialDelay, 0)
BY DoubledDef, DelayAssumption DEF KeepsPace

\* One doubling keeps pace with a count that grows by at most one: backoff.rs never falls
\* behind, whatever the initial delay and the cap.
THEOREM PaceKept ==
  ASSUME NEW d \in Nat, NEW n \in Nat, NEW k \in Nat, KeepsPace(d, n), k = n \/ k = n + 1
  PROVE  NextDelay(d) \in Nat /\ KeepsPace(NextDelay(d), k)
<1>1. /\ Doubled[n] \in Nat /\ Doubled[n + 1] = 2 * Doubled[n]
  BY DoubledDef
<1>2. CASE d = CapDelay
  BY <1>1, <1>2, DelayAssumption DEF KeepsPace, NextDelay
<1>3. CASE d >= Doubled[n]
  BY <1>1, <1>3, DelayAssumption DEF KeepsPace, NextDelay
<1>4. QED
  BY <1>2, <1>3 DEF KeepsPace
=============================================================================
