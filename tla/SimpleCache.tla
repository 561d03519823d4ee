----------------------------- MODULE SimpleCache -----------------------------
(***************************************************************************)
(* The TTL map pkg/cache/simple.go.  An expired item stays in the map      *)
(* until a Get or Release of its key or the periodic cleanup removes it.   *)
(*                                                                         *)
(* An item's expiryTime is kept as the time left until it: TTL when it is  *)
(* stored, 0 at the expiry time itself, when it is still served            *)
(* (now.After is strict), -1 at any later time.                            *)
(***************************************************************************)
EXTENDS Integers

CONSTANTS
  Keys, Values,
  NoValue,   \* "not in the map"
  TTL        \* SimpleCache.ttl, in ticks of the clock

ASSUME SimpleCacheAssumption ==
  /\ NoValue \notin Values
  /\ TTL \in Nat

VARIABLE items

NoItem == [value |-> NoValue, left |-> -1]
ItemsTypeOK == items \in [Keys -> [value : Values \cup {NoValue}, left : -1..TTL]]
ItemsInit == items = [k \in Keys |-> NoItem]

Present(k) == items[k].value # NoValue
Fresh(k) == items[k].left >= 0

-----------------------------------------------------------------------------
Set(k, v) == items' = [items EXCEPT ![k] = [value |-> v, left |-> TTL]]

(* Get and its faulty variant, which renews what it finds. *)
GetRenewing(k) ==
  items' = IF Fresh(k) THEN [items EXCEPT ![k].left = TTL]
                       ELSE [items EXCEPT ![k] = NoItem]
Get(k) == items' = IF Fresh(k) THEN items ELSE [items EXCEPT ![k] = NoItem]

Release(k) == items' = [items EXCEPT ![k] = NoItem]

(* One round of the cleanup goroutine.  Faulty variant: it only looks at   *)
(* what a reader could still find.                                         *)
CleanupNothing == items' = items
Cleanup == items' = [k \in Keys |-> IF Fresh(k) THEN items[k] ELSE NoItem]

(* The clock advances by one tick. *)
Elapse ==
  items' = [k \in Keys |-> IF Fresh(k) THEN [items[k] EXCEPT !.left = @ - 1]
                                       ELSE items[k]]

=============================================================================
