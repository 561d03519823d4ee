------------------------------ MODULE BagsCache ------------------------------
(***************************************************************************)
(* The in-memory LRU of opened remote bags                                 *)
(* (pkg/clients/remote-ton-storage/cache.go).                              *)
(*                                                                         *)
(* An entry holds a torrent and its downloader.  The two are created and   *)
(* torn down together, so one identity t \in Torrents stands for both:     *)
(* run[t] is what Start and Stop did to the torrent, dl[t] what            *)
(* CreateDownloader and Close did to the downloader.                       *)
(*                                                                         *)
(* The code only compares stamps, so lastUsed is kept as a rank: 0 for an  *)
(* entry stamped at the instant last read from the clock, a higher number  *)
(* for an older stamp.  ClockSteps says whether time.Now() may return the  *)
(* same instant twice: {1} never does, {0, 1} is a coarse clock.           *)
(***************************************************************************)
EXTENDS Naturals, FiniteSets

CONSTANTS
  Bags,             \* bag ids, in the lower-case form the cache keys on
  Torrents,         \* identities of torrent/downloader pairs
  NoTorrent,        \* "no entry"
  NoBag,            \* "no bag"
  MaxCacheEntries,  \* BagsCacheConfig.MaxCacheEntries
  ClockSteps        \* possible advances of the clock between two readings

ASSUME CacheAssumption ==
  /\ IsFiniteSet(Bags)
  /\ NoTorrent \notin Torrents
  /\ NoBag \notin Bags
  /\ MaxCacheEntries \in Nat \ {0}
  /\ ClockSteps \in {{1}, {0, 1}}

VARIABLES
  cache,   \* cache[b]: the torrent cached for bag b, or NoTorrent
  age,     \* age[b]: rank of entry b's stamp, latest first (0 when not cached)
  run,     \* run[t]: "none" | "new" | "running" | "stopped"
  dl       \* dl[t]: "none" | "open" | "closed"

cacheVars == <<cache, age, run, dl>>

CacheTypeOK ==
  /\ cache \in [Bags -> Torrents \cup {NoTorrent}]
  /\ age \in [Bags -> Nat]
  /\ run \in [Torrents -> {"none", "new", "running", "stopped"}]
  /\ dl \in [Torrents -> {"none", "open", "closed"}]

Cached == {b \in Bags : cache[b] # NoTorrent}

CacheInit ==
  /\ cache = [b \in Bags |-> NoTorrent]
  /\ age = [b \in Bags |-> 0]
  /\ run = [t \in Torrents |-> "none"]
  /\ dl = [t \in Torrents |-> "none"]

-----------------------------------------------------------------------------
(* Ages renumbered so that only the order of the stamps is kept. *)
Ranked(a) ==
  [x \in Bags |-> Cardinality({y \in Bags : 0 < a[y] /\ a[y] <= a[x]})]

(* Get under the mutex, entry found: the entry is stamped and returned.    *)
(* The faulty variant forgets the stamp.                                   *)
GetHitUnstamped(b) ==
  /\ b \in Cached
  /\ UNCHANGED cacheVars
GetHit(b) ==
  /\ b \in Cached
  /\ \E d \in ClockSteps :
       age' = Ranked([x \in Bags |-> IF x \in Cached \ {b} THEN age[x] + d ELSE 0])
  /\ UNCHANGED <<cache, run, dl>>

(* Get under the mutex, no entry: nothing changes. *)
GetMiss(b) ==
  /\ b \notin Cached
  /\ UNCHANGED cacheVars

-----------------------------------------------------------------------------
(***************************************************************************)
(* What the loop "for bc.freeUnsafe() {}" may remove, V, from the entries  *)
(* `have` with ages `a`.  Each round removes one entry whose stamp lies    *)
(* before the current instant and not after any other's (map order breaks  *)
(* ties); the loop runs while the cache is over its limit and such an      *)
(* entry exists.  Module FreeLoop checks this against the loop itself.     *)
(* Faulty variant: >= for > in the limit.                                  *)
(***************************************************************************)
Evictable(V, have, a) ==
  V \subseteq have /\ \A v \in V : a[v] > 0 /\ \A k \in have \ V : a[k] <= a[v]

FreedOneTooMany(V, have, a) ==
  /\ Evictable(V, have, a)
  /\ V # {} => Cardinality(have \ V) >= MaxCacheEntries - 1
  /\ Cardinality(have \ V) < MaxCacheEntries \/ \A k \in have \ V : a[k] = 0
Freed(V, have, a) ==
  /\ Evictable(V, have, a)
  /\ V # {} => Cardinality(have \ V) >= MaxCacheEntries
  /\ \/ Cardinality(have \ V) <= MaxCacheEntries
     \/ \A k \in have \ V : a[k] = 0

(* What freeUnsafe does to the torrents and downloaders it takes out, and  *)
(* the delete that follows.  Faulty variants: the downloader stays open;   *)
(* the entry stays in the map.                                             *)
TearDownTorrents(gone) ==
  /\ run' = [t \in Torrents |-> IF t \in gone THEN "stopped" ELSE run[t]]
  /\ dl' = dl
TearDown(gone) ==
  /\ run' = [t \in Torrents |-> IF t \in gone THEN "stopped" ELSE run[t]]
  /\ dl' = [t \in Torrents |-> IF t \in gone THEN "closed" ELSE dl[t]]

KeptAll(c, V) == c
Without(c, V) == [b \in Bags |-> IF b \in V THEN NoTorrent ELSE c[b]]

(* Set: stamp and store the entry, then free.  An entry already stored for *)
(* b is overwritten as is.                                                 *)
Set(b, t) ==
  \E d1, d2 \in ClockSteps, V \in SUBSET Bags :
    LET stored == [cache EXCEPT ![b] = t]
        a == [x \in Bags |-> IF x = b THEN d2
                             ELSE IF x \in Cached THEN age[x] + d1 + d2 ELSE 0]
    IN /\ Freed(V, Cached \cup {b}, a)
       /\ TearDown({stored[v] : v \in V})
       /\ cache' = Without(stored, V)
       /\ age' = Ranked([x \in Bags |-> IF x \in V THEN 0 ELSE a[x]])

(* Clear: close every downloader and forget the entries.  The torrents are *)
(* not stopped.  Nothing in the program calls it.                          *)
Clear ==
  /\ dl' = [t \in Torrents |-> IF \E b \in Cached : cache[b] = t
                                 THEN "closed" ELSE dl[t]]
  /\ cache' = [b \in Bags |-> NoTorrent]
  /\ age' = [b \in Bags |-> 0]
  /\ UNCHANGED run
==============================================================================
