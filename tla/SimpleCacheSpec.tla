--------------------------- MODULE SimpleCacheSpec ---------------------------
(***************************************************************************)
(* The TTL map of SimpleCache.tla on its own, any caller reading and       *)
(* writing any key, next to its cleanup goroutine; and the map with a time *)
(* to live, TtlMap, that it implements.                                    *)
(***************************************************************************)
EXTENDS SimpleCache

VARIABLE out   \* what the last Get or Release returned

scVars == <<items, out>>

Found(k) == IF Fresh(k) THEN items[k].value ELSE NoValue

SCInit == ItemsInit /\ out = NoValue

SCNext ==
  \/ \E k \in Keys, v \in Values : Set(k, v) /\ UNCHANGED out
  \/ \E k \in Keys : Get(k) /\ out' = Found(k)
  \/ \E k \in Keys : Release(k) /\ out' = Found(k)
  \/ Cleanup /\ UNCHANGED out
  \/ Elapse /\ UNCHANGED out

(* The cleanup goroutine runs whenever its ticker fires. *)
SCSpec == SCInit /\ [][SCNext]_scVars /\ WF_scVars(Cleanup /\ UNCHANGED out)

-----------------------------------------------------------------------------
(* A reader sees a map with a time to live: deleting expired items late,   *)
(* on access or in the background, cannot be told from deleting them at    *)
(* once (Get, Release, cleanup).                                           *)
Map == INSTANCE TtlMap
         WITH view <- [k \in Keys |-> Found(k)],
              left <- [k \in Keys |-> IF Fresh(k) THEN items[k].left ELSE 0]
ImplementsTtlMap == Map!TtlSpec

(* An expired item does not stay in memory for ever, whether or not its    *)
(* key is asked for again (cleanup).                                       *)
ExpiredAreCollected ==
  \A k \in Keys : (Present(k) /\ ~Fresh(k)) ~> ~(Present(k) /\ ~Fresh(k))
=============================================================================
