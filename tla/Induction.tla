------------------------------ MODULE Induction ------------------------------
(***************************************************************************)
(* Induction over the natural numbers, stated for sets: it needs no        *)
(* operator as a parameter. The library's theorem that finite sets are     *)
(* well-founded under inclusion gives a least element to a set of numbers. *)
(***************************************************************************)
EXTENDS Integers, FiniteSetTheorems, TLAPS

\* A set of numbers that is not empty has a least one.
LEMMA LeastNatural ==
    ASSUME NEW T \in SUBSET Nat, T # {}
    PROVE  \E x \in T : \A y \in T : ~(y < x)
  <1> DEFINE Below == {0..x : x \in T}
  <1> DEFINE Order == StrictSubsetOrdering(Nat)
  <1>1. IsWellFoundedOn(Order, FiniteSubsetsOf(Nat))
    BY FS_StrictSubsetOrderingWellFounded
  <1>2. Below \subseteq FiniteSubsetsOf(Nat)
    <2> SUFFICES ASSUME NEW x \in T PROVE 0..x \in FiniteSubsetsOf(Nat)
      OBVIOUS
    <2>1. IsFiniteSet(0..x)
      BY FS_Interval
    <2> QED
      BY <2>1 DEF FiniteSubsetsOf
  <1>3. Below # {}
    OBVIOUS
  <1>4. PICK B \in Below : \A C \in Below : ~(<<C, B>> \in Order)
    <2> HIDE DEF Below, Order
    <2> QED
      BY <1>1, <1>2, <1>3, WFMin
  <1>5. PICK x \in T : B = 0..x
    OBVIOUS
  <1>6. ASSUME NEW y \in T, y < x
        PROVE  FALSE
    <2>1. x \in 0..x /\ x \notin 0..y
      BY <1>6
    <2>2. 0..y \subseteq 0..x /\ 0..y # 0..x
      BY <1>6, <2>1
    <2>3. <<0..y, B>> \in Order
      BY <2>2, <1>5 DEF StrictSubsetOrdering
    <2> QED
      BY <2>3, <1>4
  <1> QED
    BY <1>6

\* A set with 0 in it, and with every number also the next, has them all.
LEMMA NaturalInduction ==
    ASSUME NEW S, 0 \in S, \A n \in Nat : n \in S => n + 1 \in S
    PROVE  Nat \subseteq S
  <1> DEFINE Rest == Nat \ S
  <1> SUFFICES ASSUME Rest # {} PROVE FALSE
    OBVIOUS
  <1>1. PICK x \in Rest : \A y \in Rest : ~(y < x)
    BY LeastNatural
  <1>2. x - 1 \in Nat /\ x - 1 < x
    BY <1>1
  <1>3. x - 1 \in S
    BY <1>1, <1>2
  <1> QED
    BY <1>1, <1>2, <1>3

\* The same up to a bound.
LEMMA BoundedInduction ==
    ASSUME NEW n \in Nat, NEW S, 0 \in S, \A i \in 0..(n - 1) : i \in S => i + 1 \in S
    PROVE  0..n \subseteq S
  <1> DEFINE T == {i \in Nat : i <= n => i \in S}
  <1>1. 0 \in T
    OBVIOUS
  <1>2. \A i \in Nat : i \in T => i + 1 \in T
    OBVIOUS
  <1> HIDE DEF T
  <1>3. Nat \subseteq T
    BY <1>1, <1>2, NaturalInduction
  <1> QED
    BY <1>3 DEF T

\* A function can be defined by recursion on the numbers up to n, where each
\* step is a function on the set of the values.
LEMMA BoundedRecursion ==
    ASSUME NEW X, NEW base \in X, NEW n \in Nat, NEW step \in [1..n -> [X -> X]]
    PROVE  \E f \in [0..n -> X] : f[0] = base /\ \A i \in 1..n : f[i] = step[i][f[i - 1]]
  <1> DEFINE Upto(f, m) == f[0] = base /\ \A i \in 1..m : f[i] = step[i][f[i - 1]]
             S == {m \in 0..n : \E f \in [0..m -> X] : Upto(f, m)}
  <1>1. 0 \in S
    <2> DEFINE g == [i \in 0..0 |-> base]
    <2>1. g \in [0..0 -> X] /\ g[0] = base
      OBVIOUS
    <2>2. \A i \in 1..0 : g[i] = step[i][g[i - 1]]
      OBVIOUS
    <2> HIDE DEF g
    <2>3. Upto(g, 0)
      BY <2>1, <2>2
    <2> QED
      BY <2>1, <2>3
  <1>2. ASSUME NEW m \in 0..(n - 1), m \in S
        PROVE  m + 1 \in S
    <2>1. PICK g \in [0..m -> X] : Upto(g, m)
      BY <1>2
    <2> DEFINE h == [i \in 0..(m + 1) |-> IF i <= m THEN g[i] ELSE step[m + 1][g[m]]]
    <2>2. h \in [0..(m + 1) -> X]
      <3>1. m + 1 \in 1..n /\ g[m] \in X
        OBVIOUS
      <3>2. step[m + 1][g[m]] \in X
        BY <3>1
      <3> QED
        BY <3>2
    <2>3. ASSUME NEW i \in 1..(m + 1)
          PROVE  h[i] = step[i][h[i - 1]]
      <3>1. CASE i <= m
        BY <2>1, <3>1
      <3>2. CASE i = m + 1
        BY <3>2
      <3> QED
        BY <3>1, <3>2
    <2>4. h[0] = base
      BY <2>1
    <2>5. Upto(h, m + 1)
      BY <2>3, <2>4
    <2> HIDE DEF h
    <2> QED
      BY <2>2, <2>5
  <1> HIDE DEF S
  <1>3. 0..n \subseteq S
    BY <1>1, <1>2, BoundedInduction
  <1>4. n \in S
    BY <1>3
  <1> QED
    BY <1>4 DEF S

=============================================================================
