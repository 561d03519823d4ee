--------------------------- MODULE SimpleCacheProofs ---------------------------
(***************************************************************************)
(* The TTL cache implements the map with a time to live, for every set of  *)
(* keys and values and every TTL.                                          *)
(***************************************************************************)
EXTENDS SimpleCacheSpec, TLAPS

SCTypeOK == ItemsTypeOK /\ out \in Values \cup {NoValue}

Entry == [value : Values \cup {NoValue}, left : -1..TTL]

LEMMA NoItemTyped == NoItem \in Entry /\ NoItem.left = -1
  BY SimpleCacheAssumption DEF NoItem, Entry

LEMMA TypeStep ==
  ASSUME SCTypeOK, [SCNext]_scVars
  PROVE  SCTypeOK'
<1> USE DEF SCTypeOK, ItemsTypeOK
<1>0. items \in [Keys -> Entry] BY DEF Entry
<1>1. \A k \in Keys : items[k] \in Entry /\ Found(k) \in Values \cup {NoValue}
  BY <1>0 DEF Entry, Found
<1>2. CASE UNCHANGED scVars BY <1>2 DEF scVars
<1>3. ASSUME NEW k \in Keys, NEW v \in Values, Set(k, v), UNCHANGED out
      PROVE  SCTypeOK'
  <2>1. [value |-> v, left |-> TTL] \in Entry BY SimpleCacheAssumption DEF Entry
  <2> QED BY <1>0, <1>3, <2>1 DEF Set, Entry
<1>4. ASSUME NEW k \in Keys, Get(k), out' = Found(k) PROVE SCTypeOK'
  BY <1>0, <1>1, <1>4, NoItemTyped DEF Get, Entry
<1>5. ASSUME NEW k \in Keys, Release(k), out' = Found(k) PROVE SCTypeOK'
  BY <1>0, <1>1, <1>5, NoItemTyped DEF Release, Entry
<1>6. CASE Cleanup /\ UNCHANGED out
  BY <1>0, <1>6, NoItemTyped DEF Cleanup, Entry
<1>7. CASE Elapse /\ UNCHANGED out
  <2>1. ASSUME NEW k \in Keys, Fresh(k) PROVE [items[k] EXCEPT !.left = @ - 1] \in Entry
    BY <1>1, <2>1, SimpleCacheAssumption DEF Fresh, Entry
  <2> QED BY <1>0, <1>7, <2>1 DEF Elapse, Entry
<1> QED BY <1>2, <1>3, <1>4, <1>5, <1>6, <1>7 DEF SCNext

LEMMA TypeInit == ASSUME SCInit PROVE SCTypeOK
  BY NoItemTyped DEF SCInit, ItemsInit, SCTypeOK, ItemsTypeOK, Entry

THEOREM CacheTyped == SCSpec => []SCTypeOK
  BY TypeInit, TypeStep, PTL DEF SCSpec

-----------------------------------------------------------------------------

(* The map is told by what each key shows. *)
LEMMA MapInit == ASSUME SCInit PROVE Map!TtlInit
  BY NoItemTyped DEF SCInit, ItemsInit, Map!TtlInit, Found, Fresh, NoItem

(* Every operation of the cache is one of the map; the cleanup is none. *)
LEMMA MapStep ==
  ASSUME SCTypeOK, [SCNext]_scVars
  PROVE  [Map!TtlNext]_(Map!ttlVars)
<1> USE DEF SCTypeOK, ItemsTypeOK
<1>0. items \in [Keys -> Entry] BY DEF Entry
<1>1. \A k \in Keys : items[k].left \in -1..TTL BY <1>0 DEF Entry
<1>2. CASE UNCHANGED scVars
  BY <1>2 DEF scVars, Map!ttlVars, Found, Fresh
<1>3. ASSUME NEW k \in Keys, NEW v \in Values, Set(k, v), UNCHANGED out
      PROVE  Map!TtlNext
  <2>1. /\ items'[k] = [value |-> v, left |-> TTL]
        /\ \A x \in Keys \ {k} : items'[x] = items[x]
    BY <1>0, <1>3 DEF Set
  <2>2. /\ Found(k)' = v /\ Fresh(k)' /\ items'[k].left = TTL
        /\ \A x \in Keys \ {k} :
             Found(x)' = Found(x) /\ Fresh(x)' = Fresh(x) /\ items'[x].left = items[x].left
    BY <2>1, SimpleCacheAssumption DEF Found, Fresh
  <2>3. Map!Put(k, v)
    BY <1>3, <2>2 DEF Map!Put
  <2> QED BY <2>3 DEF Map!TtlNext
<1>4. ASSUME NEW k \in Keys, Get(k), out' = Found(k) PROVE Map!TtlNext
  <2>1. \A x \in Keys : Found(x)' = Found(x) /\ Fresh(x)' = Fresh(x)
                        /\ (Fresh(x) => items'[x] = items[x])
    BY <1>0, <1>1, <1>4, NoItemTyped DEF Get, Found, Fresh
  <2>2. Map!Look(k)
    BY <1>4, <2>1 DEF Map!Look
  <2> QED BY <2>2 DEF Map!TtlNext
<1>5. ASSUME NEW k \in Keys, Release(k), out' = Found(k) PROVE Map!TtlNext
  <2>1. /\ items'[k] = NoItem
        /\ \A x \in Keys \ {k} : items'[x] = items[x]
    BY <1>0, <1>5 DEF Release
  <2>2. /\ Found(k)' = NoValue /\ ~Fresh(k)'
        /\ \A x \in Keys \ {k} :
             Found(x)' = Found(x) /\ Fresh(x)' = Fresh(x) /\ items'[x].left = items[x].left
    BY <2>1, NoItemTyped DEF Found, Fresh
  <2>3. Map!Take(k)
    BY <1>5, <2>2 DEF Map!Take
  <2> QED BY <2>3 DEF Map!TtlNext
<1>6. CASE Cleanup /\ UNCHANGED out
  <2>1. \A x \in Keys : Found(x)' = Found(x) /\ Fresh(x)' = Fresh(x)
                        /\ (Fresh(x) => items'[x] = items[x])
    BY <1>0, <1>1, <1>6, NoItemTyped DEF Cleanup, Found, Fresh
  <2> QED BY <1>6, <2>1 DEF Map!ttlVars
<1>7. CASE Elapse /\ UNCHANGED out
  <2>1. ASSUME NEW x \in Keys
        PROVE  /\ Found(x)' = IF items[x].left = 0 THEN NoValue ELSE Found(x)
               /\ (IF Fresh(x) THEN items[x].left ELSE 0)' =
                    IF (IF Fresh(x) THEN items[x].left ELSE 0) = 0 THEN 0
                    ELSE (IF Fresh(x) THEN items[x].left ELSE 0) - 1
    <3>1. CASE Fresh(x)
      <4>1. items'[x] = [items[x] EXCEPT !.left = @ - 1] BY <1>7, <3>1 DEF Elapse
      <4>2. items'[x].left = items[x].left - 1 /\ items'[x].value = items[x].value
        BY <1>0, <4>1 DEF Entry
      <4> QED BY <1>1, <3>1, <4>2 DEF Found, Fresh
    <3>2. CASE ~Fresh(x)
      <4>1. items'[x] = items[x] BY <1>7, <3>2 DEF Elapse
      <4> QED BY <1>1, <3>2, <4>1 DEF Found, Fresh
    <3> QED BY <3>1, <3>2
  <2>2. \A x \in Keys : ~Fresh(x) => Found(x) = NoValue BY DEF Found
  <2>3. Map!Pass BY <1>7, <2>1, <2>2 DEF Map!Pass
  <2> QED BY <2>3 DEF Map!TtlNext
<1> QED BY <1>2, <1>3, <1>4, <1>5, <1>6, <1>7 DEF SCNext

(* A reader cannot tell late deletion from deletion at once (Get, Release, *)
(* cleanup).                                                               *)
THEOREM CacheImplementsTtlMap == SCSpec => ImplementsTtlMap
<1>1. SCSpec => []SCTypeOK BY CacheTyped
<1>2. SCInit => Map!TtlInit BY MapInit
<1>3. SCTypeOK /\ [SCNext]_scVars => [Map!TtlNext]_(Map!ttlVars) BY MapStep
<1> QED BY <1>1, <1>2, <1>3, PTL DEF SCSpec, ImplementsTtlMap, Map!TtlSpec
=============================================================================
