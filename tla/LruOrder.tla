------------------------------- MODULE LruOrder -------------------------------
(***************************************************************************)
(* What an LRU cache of bags promises, told by the order in which the bags *)
(* it holds were used.  Bags used in one instant of the clock rank equal.  *)
(***************************************************************************)
EXTENDS Naturals, FiniteSets

CONSTANTS Bags, Limit, NoBag

VARIABLES
  held,    \* the bags held
  newer,   \* the pairs of them of which the first was used after the second
  used     \* the bag used last, or NoBag

lruVars == <<held, newer, used>>

Newest == {x \in held : \A y \in held : <<y, x>> \notin newer}

(* The orders there may be when b has been used: the other bags stay as    *)
(* they were, and b comes before them all, or before all but the newest.   *)
Touched(b) ==
  LET rest == held \ {b}
  IN {(newer \cap (rest \X rest)) \cup ({b} \X older) : older \in {rest, rest \ Newest}}

(* A bag that is held is used. *)
Use(b) ==
  /\ b \in held
  /\ newer' \in Touched(b)
  /\ used' = b
  /\ UNCHANGED held

(* A bag is stored and bags are given up for it: the oldest, and as many   *)
(* as are over the limit.  Only bags that were all used in one instant, and *)
(* after all those given up, may be left over the limit.                   *)
Store(b) ==
  \E order \in Touched(b), kept \in SUBSET (held \cup {b}) :
    LET out == (held \cup {b}) \ kept
    IN /\ \A v \in out, x \in kept : <<v, x>> \notin order
       /\ out # {} => Cardinality(kept) >= Limit
       /\ \/ Cardinality(kept) <= Limit
          \/ \A x \in kept : /\ \A y \in kept : <<x, y>> \notin order
                             /\ \A v \in out : <<x, v>> \in order
       /\ held' = kept
       /\ newer' = order \cap (kept \X kept)
       /\ used' = b

Forget == held' = {} /\ newer' = {} /\ used' = NoBag

LruInit == held = {} /\ newer = {} /\ used = NoBag
LruNext == Forget \/ \E b \in Bags : Use(b) \/ Store(b)
LruSpec == LruInit /\ [][LruNext]_lruVars
=============================================================================
