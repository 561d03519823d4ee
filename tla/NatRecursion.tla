----------------------------- MODULE NatRecursion -----------------------------
(***************************************************************************)
(* Induction and recursion over the natural numbers in a form that takes   *)
(* sets and functions only.  The order of finite sets by inclusion is well *)
(* founded; a set of numbers without one of them would give a chain of     *)
(* intervals without an end.                                               *)
(***************************************************************************)
EXTENDS Integers, FiniteSetTheorems, TLAPS

(* A set that has 0, and with a number the next, has them all. *)
LEMMA NatSetInduction ==
  ASSUME NEW S, 0 \in S, \A n \in Nat : n \in S => n + 1 \in S
  PROVE  \A n \in Nat : n \in S
<1> SUFFICES ASSUME NEW n \in Nat, n \notin S PROVE FALSE OBVIOUS
<1> DEFINE R == StrictSubsetOrdering(Nat)
           F == FiniteSubsetsOf(Nat)
           U == {0..m : m \in Nat \ S}
<1>1. U \subseteq F /\ U # {}
  <2>1. \A m \in Nat : 0..m \in F
    <3> TAKE m \in Nat
    <3>1. IsFiniteSet(0..m) BY FS_Interval
    <3>2. 0..m \subseteq Nat OBVIOUS
    <3> QED BY <3>1, <3>2 DEF FiniteSubsetsOf
  <2> HIDE DEF F
  <2> QED BY <2>1
<1>2. \E x \in U : \A y \in U : ~(<<y, x>> \in R)
  <2>1. IsWellFoundedOn(R, F) BY FS_StrictSubsetOrderingWellFounded
  <2> HIDE DEF R, F, U
  <2> QED BY <1>1, <2>1, WFMin
<1>3. PICK m \in Nat \ S : \A y \in U : ~(<<y, 0..m>> \in R) BY <1>2
<1>4. m # 0 /\ m - 1 \in Nat \ S BY <1>3
<1>5. 0..(m - 1) \in U BY <1>4
<1>6. <<0..(m - 1), 0..m>> \in R
  <2>1. 0..(m - 1) \subseteq 0..m /\ m \in 0..m /\ m \notin 0..(m - 1) BY <1>4
  <2>2. 0..(m - 1) \in SUBSET Nat /\ 0..m \in SUBSET Nat BY <1>4
  <2> QED BY <2>1, <2>2 DEF StrictSubsetOrdering
<1> QED BY <1>3, <1>5, <1>6

(* A loop of N rounds over values of T has a course: step[n] is what round *)
(* n makes of the value before it.                                         *)
LEMMA RecursionOnNat ==
  \A T : \A base \in T : \A N \in Nat : \A step \in [1..N -> [T -> T]] :
    \E f \in [0..N -> T] : f[0] = base /\ \A n \in 1..N : f[n] = step[n][f[n - 1]]
<1> SUFFICES ASSUME NEW T, NEW base \in T, NEW N \in Nat, NEW step \in [1..N -> [T -> T]]
             PROVE  \E f \in [0..N -> T] :
                      f[0] = base /\ \A n \in 1..N : f[n] = step[n][f[n - 1]]
  OBVIOUS
<1> DEFINE Good(n) ==
             \E g \in [0..n -> T] : g[0] = base /\ \A k \in 1..n : g[k] = step[k][g[k - 1]]
           S == {n \in Nat : n <= N => Good(n)}
<1>1. 0 \in S
  <2> DEFINE g == [k \in 0..0 |-> base]
  <2>1. g \in [0..0 -> T] /\ g[0] = base OBVIOUS
  <2> HIDE DEF g
  <2>2. Good(0) BY <2>1
  <2> QED BY <2>2
<1>2. ASSUME NEW n \in Nat, n \in S PROVE n + 1 \in S
  <2> SUFFICES ASSUME n + 1 <= N PROVE Good(n + 1) OBVIOUS
  <2>1. PICK g \in [0..n -> T] : g[0] = base /\ \A k \in 1..n : g[k] = step[k][g[k - 1]]
    BY <1>2
  <2> DEFINE h == [k \in 0..(n + 1) |-> IF k = n + 1 THEN step[k][g[n]] ELSE g[k]]
  <2>2. h \in [0..(n + 1) -> T]
    <3>1. step[n + 1][g[n]] \in T OBVIOUS
    <3> QED BY <3>1
  <2>3. h[0] = base BY <2>1
  <2>4. ASSUME NEW k \in 1..n+1 PROVE h[k] = step[k][h[k - 1]]
    <3>1. CASE k = n + 1
      <4>1. h[n] = g[n] /\ h[n + 1] = step[n + 1][g[n]] OBVIOUS
      <4> QED BY <3>1, <4>1
    <3>2. CASE k \in 1..n
      <4>1. h[k] = g[k] /\ h[k - 1] = g[k - 1] BY <3>2
      <4> QED BY <2>1, <3>2, <4>1
    <3> QED BY <3>1, <3>2
  <2> HIDE DEF h
  <2> QED BY <2>2, <2>3, <2>4
<1> HIDE DEF S
<1>3. \A n \in Nat : n \in S BY <1>1, <1>2, NatSetInduction
<1> QED BY <1>3 DEF S
=============================================================================
