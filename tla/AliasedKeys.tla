----------------------------- MODULE AliasedKeys -----------------------------
(***************************************************************************)
(* The cache of opened bags keyed by the strings the handlers really pass. *)
(*                                                                         *)
(* A handler takes the bag id as strings.ToLower(c.Params("bagid")).       *)
(* Params returns a view of the path buffer of the request's context, and  *)
(* the context is used again for a later request (fiber.New() without      *)
(* Immutable).  ToLower copies an id with a capital digit and returns any  *)
(* other as it is.  The key the cache keeps is then the view, whose text   *)
(* changes with the buffer, in a slot of the map that does not.            *)
(*                                                                         *)
(* BagsCache and RemoteClient take ids as values: they describe the client *)
(* for keys that are copies (Capitals = {TRUE} here).  Requests reach the  *)
(* cache one at a time and no two readings of the clock agree: that is     *)
(* enough for what this module shows.  Ids are taken to differ in the bits *)
(* of the hash a look-up compares.                                         *)
(***************************************************************************)
EXTENDS Naturals, SequencesExt

CONSTANTS
  Bags, NoBag,
  Contexts, NoContext,  \* request contexts, each with its path buffer
  MaxCacheEntries,
  Capitals              \* may an id hold a capital digit?  subset of BOOLEAN

VARIABLES
  buffer,   \* buffer[c]: the bag id in the path buffer of context c
  entries,  \* the entries, the one used last first
  setter    \* the context whose request is inside Set, or NoContext

vars == <<buffer, entries, setter>>

(* An entry: the bag it was stored for, hence its slot, and the context    *)
(* whose buffer holds its key, or NoContext when the key is a copy.        *)
Entry == [home : Bags, at : Contexts \cup {NoContext}]

Init ==
  /\ buffer = [c \in Contexts |-> NoBag]
  /\ entries = <<>>
  /\ setter = NoContext

(* The text of entry e's key when the buffers are `buf`, and the positions *)
(* of the entries a look-up of b can find: same slot and same text.        *)
KeyText(e, buf) == IF e.at = NoContext THEN e.home ELSE buf[e.at]
Found(b, buf) ==
  {i \in DOMAIN entries : entries[i].home = b /\ KeyText(entries[i], buf) = b}

(* The key a request in context c stores for b. *)
KeyOf(c, b, capital) == [home |-> b, at |-> IF capital THEN NoContext ELSE c]

-----------------------------------------------------------------------------
(* A request for b that does not reach this cache: its path goes into the  *)
(* buffer of a context that is free.                                       *)
Visit(c, b) ==
  /\ c # setter
  /\ buffer' = [buffer EXCEPT ![c] = b]
  /\ UNCHANGED <<entries, setter>>

(* A request that finds its bag: the entry is stamped. *)
FetchCached(c, b) ==
  /\ setter = NoContext
  /\ buffer' = [buffer EXCEPT ![c] = b]
  /\ \E i \in Found(b, buffer') :
       entries' = <<entries[i]>> \o RemoveAt(entries, i)
  /\ UNCHANGED setter

(* A request that does not: it opens the bag and enters Set, which stores  *)
(* the entry.                                                              *)
FetchNew(c, b) ==
  /\ setter = NoContext
  /\ buffer' = [buffer EXCEPT ![c] = b]
  /\ Found(b, buffer') = {}
  /\ \E capital \in Capitals : entries' = <<KeyOf(c, b, capital)>> \o entries
  /\ setter' = c

(* One call of freeUnsafe inside Set: it looks for the oldest entry's key  *)
(* and deletes it, which does nothing when no entry is found under it.     *)
Evict ==
  /\ setter # NoContext
  /\ Len(entries) > MaxCacheEntries
  /\ LET key == KeyText(Last(entries), buffer)
     IN IF Found(key, buffer) = {}
        THEN UNCHANGED entries
        ELSE \E i \in Found(key, buffer) : entries' = RemoveAt(entries, i)
  /\ UNCHANGED <<buffer, setter>>

SetReturns ==
  /\ setter # NoContext
  /\ Len(entries) <= MaxCacheEntries
  /\ setter' = NoContext
  /\ UNCHANGED <<buffer, entries>>

Next ==
  \/ \E c \in Contexts, b \in Bags :
       Visit(c, b) \/ FetchCached(c, b) \/ FetchNew(c, b)
  \/ Evict
  \/ SetReturns

(* The loop of Set runs on, so fast that it misses no text a buffer shows  *)
(* again and again; nothing obliges anyone to send requests.               *)
Spec == Init /\ [][Next]_vars /\ SF_vars(Evict) /\ SF_vars(SetReturns)

-----------------------------------------------------------------------------
(* The configured maximum of cached torrents holds, but for the moment an  *)
(* eviction takes, and the loop of Set ends (Set, freeUnsafe;              *)
(* REMOTE_TON_STORAGE_CACHE_MAX_ENTRIES).                                  *)
LimitIsRestored == []<>(Len(entries) <= MaxCacheEntries)
=============================================================================
