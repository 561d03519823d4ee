---------------------------- MODULE BagsCacheSpec ----------------------------
(***************************************************************************)
(* The cache of opened bags on its own, under a caller that starts a       *)
(* torrent, opens its downloader and stores it, for a bag that is cached   *)
(* or not; and the LRU order it implements.                                *)
(***************************************************************************)
EXTENDS BagsCache

VARIABLE used    \* the bag Get found or Set stored last: what a caller saw

specVars == <<cache, age, run, dl, used>>

Open(t) ==
  /\ \A b \in Bags : cache[b] # t
  /\ run[t] # "running"
  /\ run' = [run EXCEPT ![t] = "running"]
  /\ dl' = [dl EXCEPT ![t] = "open"]
  /\ UNCHANGED <<cache, age, used>>

CacheNext ==
  \/ \E b \in Bags : GetHit(b) /\ used' = b
  \/ \E t \in Torrents : Open(t)
  \/ \E b \in Bags, t \in Torrents :
       /\ run[t] = "running" /\ dl[t] = "open"
       /\ \A x \in Bags : cache[x] # t
       /\ Set(b, t)
       /\ used' = b
  \/ Clear /\ used' = NoBag

SpecInit == CacheInit /\ used = NoBag

CacheSpec == SpecInit /\ [][CacheNext]_specVars

-----------------------------------------------------------------------------
(* The cache keeps an LRU order: no entry is newer than the bag a caller   *)
(* just found or stored, the entries that go are those used longest ago,   *)
(* down to the limit exactly.  It holds more than MaxCacheEntries after a  *)
(* Set only if all its entries carry one stamp, for freeUnsafe removes     *)
(* none that is not strictly older than the instant it reads (Get, Set,    *)
(* freeUnsafe, Clear).                                                     *)
Newer == {e \in Cached \X Cached : age[e[1]] < age[e[2]]}

Lru == INSTANCE LruOrder WITH held <- Cached, newer <- Newer, Limit <- MaxCacheEntries
ImplementsLru == Lru!LruSpec
=============================================================================
