-------------------------------- MODULE TtlMap --------------------------------
(***************************************************************************)
(* What a cache with a time to live promises: a stored value can be read   *)
(* until it is dropped, replaced or TTL has passed since it was stored,    *)
(* and not later.  Reading does not prolong its life.                      *)
(***************************************************************************)
EXTENDS Integers

CONSTANTS Keys, Values, NoValue, TTL

VARIABLES
  view,   \* view[k]: what a reader finds, NoValue if nothing
  left,   \* left[k]: how long it will still be found
  out     \* what the last read found

ttlVars == <<view, left, out>>

TtlInit ==
  /\ view = [k \in Keys |-> NoValue]
  /\ left = [k \in Keys |-> 0]
  /\ out = NoValue

Put(k, v) ==
  /\ view' = [view EXCEPT ![k] = v]
  /\ left' = [left EXCEPT ![k] = TTL]
  /\ UNCHANGED out

Look(k) == out' = view[k] /\ UNCHANGED <<view, left>>

Take(k) ==
  /\ out' = view[k]
  /\ view' = [view EXCEPT ![k] = NoValue]
  /\ left' = [left EXCEPT ![k] = 0]

Pass ==
  /\ view' = [k \in Keys |-> IF left[k] = 0 THEN NoValue ELSE view[k]]
  /\ left' = [k \in Keys |-> IF left[k] = 0 THEN 0 ELSE left[k] - 1]
  /\ UNCHANGED out

TtlNext ==
  \/ \E k \in Keys, v \in Values : Put(k, v)
  \/ \E k \in Keys : Look(k) \/ Take(k)
  \/ Pass

TtlSpec == TtlInit /\ [][TtlNext]_ttlVars
=============================================================================
