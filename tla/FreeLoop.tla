------------------------------- MODULE FreeLoop -------------------------------
(***************************************************************************)
(* The loop "for bc.freeUnsafe() {}" of BagsCache.Set, round by round, to  *)
(* compare with the operator Freed that BagsCache.tla uses in its place.   *)
(* Every round reads the clock anew.  The inputs of the loop are the       *)
(* caches BagsCacheSpec can reach.                                         *)
(***************************************************************************)
EXTENDS BagsCacheSpec

(* Faulty variant of FreeRound: the entry with the latest stamp is taken.  *)
FreeRoundNewest(S, a) ==
  IF Cardinality(S) > MaxCacheEntries
  THEN {S \ {v} : v \in {x \in S : a[x] > 0 /\ \A y \in S : a[y] >= a[x]}}
  ELSE {}

(* One call of freeUnsafe on the entries S of ages a: the sets it may      *)
(* leave.  None when it returns false.                                     *)
FreeRound(S, a) ==
  IF Cardinality(S) > MaxCacheEntries
  THEN {S \ {v} : v \in {x \in S : a[x] > 0 /\ \A y \in S : a[y] <= a[x]}}
  ELSE {}

Later(a, n) == [x \in Bags |-> a[x] + n]

(* The loop, its states the pairs <<entries left, clock ticks spent>>.     *)
(* Every call reads the clock, which may have ticked once more: Again,     *)
(* what a call that removes an entry makes of the states C; Done, what the *)
(* call that removes none ends with.                                       *)
Again(a, C) ==
  UNION {{<<T, c[2] + d>> : T \in FreeRound(c[1], Later(a, c[2] + d))}
         : c \in C, d \in ClockSteps}
Done(a, C) ==
  UNION {{<<c[1], c[2] + d>> :
            d \in {e \in ClockSteps : FreeRound(c[1], Later(a, c[2] + e)) = {}}}
         : c \in C}

(* Its states after each number of rounds, how it may end, and whether it  *)
(* must: no call removes an entry after as many rounds as there were       *)
(* entries.                                                                *)
Course(S, a) ==
  LET after[k \in 0..Cardinality(S)] ==
        IF k = 0 THEN {<<S, 0>>} ELSE Again(a, after[k - 1])
  IN after
LoopEnds(S, a) == UNION {Done(a, Course(S, a)[k]) : k \in 0..Cardinality(S)}
LoopStops(S, a) == Again(a, Course(S, a)[Cardinality(S)]) = {}

(* The entries Freed lets the loop leave of S when it saw n ticks in all. *)
Kept(S, a, n) == {S \ V : V \in {W \in SUBSET S : Freed(W, S, Later(a, n))}}

(* When b is stored, the loop may leave a set of entries, having seen the  *)
(* clock tick or not, exactly when Freed allows it for a moved or an       *)
(* unmoved clock: more than one tick changes nothing.  And the loop always *)
(* ends (freeUnsafe, called until it returns false).                       *)
FreedIsTheLoop ==
  \A b \in Bags, d \in ClockSteps :
    LET S == Cached \cup {b}
        a == [x \in Bags |-> IF x \in Cached \ {b} THEN age[x] + d ELSE 0]
        ends == LoopEnds(S, a)
    IN /\ LoopStops(S, a)
       /\ {e[1] : e \in {f \in ends : f[2] = 0}}
            = (IF 0 \in ClockSteps THEN Kept(S, a, 0) ELSE {})
       /\ {e[1] : e \in {f \in ends : f[2] > 0}} = Kept(S, a, 1)
=============================================================================
