----------------------------- MODULE RemoteClient -----------------------------
(***************************************************************************)
(* The remote TON storage client (pkg/clients/remote-ton-storage/client.go *)
(* and virtualStorage.go) under concurrent requests: getTorrent with its   *)
(* two cache checks around a per-bag mutex, the steps that open a torrent, *)
(* and the use ListFiles and StreamFile make of the result.                *)
(*                                                                         *)
(* Each p \in Procs is a request handler's goroutine.  The clock, the LRU  *)
(* and what is done to torrents are in BagsCache.  Torrents is a finite    *)
(* pool: an identity nobody refers to any more may be given to a new       *)
(* torrent.  A bag id is a value here, as it is when every key is a copy   *)
(* of its own; module AliasedKeys shows what the cache does otherwise.     *)
(***************************************************************************)
EXTENDS BagsCache

CONSTANTS
  Procs,    \* goroutines that call the client
  NoProc    \* "unlocked"

ASSUME ClientAssumption == NoProc \notin Procs

VARIABLES
  pc,     \* pc[p]: the step of getTorrent, ListFiles or StreamFile p is at
  bag,    \* bag[p]: the argument bagID, NoBag outside the client
  held,   \* held[p]: the torrent p has created or been given
  lock,   \* lock[b]: who holds downloadingBagLocks[b]
  store,  \* store[b]: VirtualStorage.torrents, by BagID
  tbag    \* tbag[t]: Torrent.BagID

clientVars == <<pc, bag, held, lock, store, tbag>>
vars == <<cacheVars, clientVars>>

Steps == {"idle", "lookup", "wait", "recheck", "start", "connect",
          "publish", "unlock", "use"}
Locked == {"recheck", "start", "connect", "publish", "unlock"}
Building == {"start", "connect", "publish"}

TypeOK ==
  /\ CacheTypeOK
  /\ pc \in [Procs -> Steps]
  /\ bag \in [Procs -> Bags \cup {NoBag}]
  /\ held \in [Procs -> Torrents \cup {NoTorrent}]
  /\ lock \in [Bags -> Procs \cup {NoProc}]
  /\ store \in [Bags -> Torrents \cup {NoTorrent}]
  /\ tbag \in [Torrents -> Bags \cup {NoBag}]

Init ==
  /\ CacheInit
  /\ pc = [p \in Procs |-> "idle"]
  /\ bag = [p \in Procs |-> NoBag]
  /\ held = [p \in Procs |-> NoTorrent]
  /\ lock = [b \in Bags |-> NoProc]
  /\ store = [b \in Bags |-> NoTorrent]
  /\ tbag = [t \in Torrents |-> NoBag]

Goto(p, step) == pc' = [pc EXCEPT ![p] = step]

-----------------------------------------------------------------------------
(* A request enters the client. *)
Call(p, b) ==
  /\ pc[p] = "idle"
  /\ Goto(p, "lookup")
  /\ bag' = [bag EXCEPT ![p] = b]
  /\ UNCHANGED <<cacheVars, held, lock, store, tbag>>

(* First cache check, no lock held. *)
FirstHit(p) ==
  /\ pc[p] = "lookup"
  /\ GetHit(bag[p])
  /\ held' = [held EXCEPT ![p] = cache[bag[p]]]
  /\ Goto(p, "use")
  /\ UNCHANGED <<bag, lock, store, tbag>>

FirstMiss(p) ==
  /\ pc[p] = "lookup"
  /\ GetMiss(bag[p])
  /\ Goto(p, "wait")
  /\ UNCHANGED <<bag, held, lock, store, tbag>>

(* getBagLock and lock.Lock(): a bag's mutex is made once and kept.        *)
(* Faulty variant: every call gets a mutex of its own.                     *)
AcquireOwnLock(p) ==
  /\ pc[p] = "wait"
  /\ lock' = [lock EXCEPT ![bag[p]] = p]
  /\ Goto(p, "recheck")
  /\ UNCHANGED <<cacheVars, bag, held, store, tbag>>
AcquireLock(p) ==
  /\ pc[p] = "wait"
  /\ lock[bag[p]] = NoProc
  /\ lock' = [lock EXCEPT ![bag[p]] = p]
  /\ Goto(p, "recheck")
  /\ UNCHANGED <<cacheVars, bag, held, store, tbag>>

(* Second cache check, under the lock. *)
SecondHit(p) ==
  /\ pc[p] = "recheck"
  /\ GetHit(bag[p])
  /\ held' = [held EXCEPT ![p] = cache[bag[p]]]
  /\ Goto(p, "unlock")
  /\ UNCHANGED <<bag, lock, store, tbag>>

-----------------------------------------------------------------------------
Unused ==
  {t \in Torrents : /\ run[t] # "running"
                    /\ \A b \in Bags : cache[b] # t /\ store[b] # t
                    /\ \A p \in Procs : held[p] # t}

(* NewTorrent and its BagID, under a fresh identity.  The identities       *)
(* nobody refers to go back to the pool.                                   *)
NewTorrent(p) ==
  /\ Unused # {}
  /\ LET t == CHOOSE u \in Unused : TRUE
         Created(f, new, none) ==
           [u \in Torrents |-> IF u = t THEN new ELSE IF u \in Unused THEN none ELSE f[u]]
     IN /\ run' = Created(run, "new", "none")
        /\ dl' = Created(dl, "none", "none")
        /\ tbag' = Created(tbag, bag[p], NoBag)
        /\ held' = [held EXCEPT ![p] = t]
  /\ Goto(p, "start")
  /\ UNCHANGED <<cache, age, bag, lock>>

(* The bag's entry in the virtual storage, through which peers find it. *)
SetTorrent(b, t) == store' = [store EXCEPT ![b] = t]

(* Second cache check failed: a new torrent is created and registered.     *)
(* Faulty variants: no second check; no SetTorrent.                        *)
CreateUnchecked(p) ==
  /\ pc[p] = "recheck"
  /\ NewTorrent(p)
  /\ SetTorrent(bag[p], held'[p])
CreateUnregistered(p) ==
  /\ pc[p] = "recheck"
  /\ bag[p] \notin Cached
  /\ NewTorrent(p)
  /\ store' = store
CreateTorrent(p) ==
  /\ pc[p] = "recheck"
  /\ bag[p] \notin Cached
  /\ NewTorrent(p)
  /\ SetTorrent(bag[p], held'[p])

StartTorrent(p) ==
  /\ pc[p] = "start"
  /\ run' = [run EXCEPT ![held[p]] = "running"]
  /\ Goto(p, "connect")
  /\ UNCHANGED <<cache, age, dl, bag, held, lock, store, tbag>>

(* The error paths: stop the torrent and leave through the deferred        *)
(* Unlock.  No path closes a downloader.  Faulty variant: a return that    *)
(* skips the Unlock.                                                       *)
GiveUpLocked(p) ==
  /\ run' = [run EXCEPT ![held[p]] = "stopped"]
  /\ held' = [held EXCEPT ![p] = NoTorrent]
  /\ bag' = [bag EXCEPT ![p] = NoBag]
  /\ Goto(p, "idle")
  /\ UNCHANGED <<cache, age, dl, lock, store, tbag>>
GiveUp(p) ==
  /\ run' = [run EXCEPT ![held[p]] = "stopped"]
  /\ held' = [held EXCEPT ![p] = NoTorrent]
  /\ Goto(p, "unlock")
  /\ UNCHANGED <<cache, age, dl, bag, lock, store, tbag>>

StartFails(p) == pc[p] = "start" /\ GiveUp(p)

(* CreateDownloader returns an error: ten seconds passed, the request was  *)
(* cancelled, or the network failed.                                       *)
DownloaderFails(p) == pc[p] = "connect" /\ GiveUp(p)

DownloaderOpens(p) ==
  /\ pc[p] = "connect"
  /\ dl' = [dl EXCEPT ![held[p]] = "open"]
  /\ Goto(p, "publish")
  /\ UNCHANGED <<cache, age, run, bag, held, lock, store, tbag>>

(* The downloader is there but the torrent's header or info is not.        *)
HeaderMissing(p) == pc[p] = "publish" /\ GiveUp(p)

Publish(p) ==
  /\ pc[p] = "publish"
  /\ Set(bag[p], held[p])
  /\ Goto(p, "unlock")
  /\ UNCHANGED <<bag, held, lock, store, tbag>>

(* defer lock.Unlock(): back to the caller with a torrent or an error. *)
Unlock(p) ==
  /\ pc[p] = "unlock"
  /\ lock' = [lock EXCEPT ![bag[p]] = NoProc]
  /\ IF held[p] = NoTorrent
     THEN Goto(p, "idle") /\ bag' = [bag EXCEPT ![p] = NoBag]
     ELSE Goto(p, "use") /\ UNCHANGED bag
  /\ UNCHANGED <<cacheVars, held, store, tbag>>

-----------------------------------------------------------------------------
(* The use of the torrent ends: ListFiles has read the header, StreamFile  *)
(* did not find the path in it, or the goroutine that StreamFile started   *)
(* to feed its pipe has ended.                                             *)
Leave(p) ==
  /\ pc[p] = "use"
  /\ Goto(p, "idle")
  /\ bag' = [bag EXCEPT ![p] = NoBag]
  /\ held' = [held EXCEPT ![p] = NoTorrent]
  /\ UNCHANGED <<cacheVars, lock, store, tbag>>

-----------------------------------------------------------------------------
GetTorrent(p) ==
  \/ FirstHit(p) \/ FirstMiss(p) \/ AcquireLock(p)
  \/ SecondHit(p)
  \/ CreateTorrent(p) \/ StartTorrent(p) \/ StartFails(p)
  \/ DownloaderOpens(p) \/ DownloaderFails(p)
  \/ HeaderMissing(p) \/ Publish(p) \/ Unlock(p)

Next ==
  \E p \in Procs : \/ \E b \in Bags : Call(p, b)
                   \/ GetTorrent(p)
                   \/ Leave(p)

Spec == Init /\ [][Next]_vars

(* A goroutine inside getTorrent keeps running (CreateDownloader is bounded *)
(* by its ten second context); a sync.Mutex lets no waiter starve.  Whether *)
(* a stream ends depends on its reader, and new requests need not come.     *)
FairSpec ==
  /\ Spec
  /\ \A p \in Procs : WF_vars(GetTorrent(p)) /\ SF_vars(AcquireLock(p))

-----------------------------------------------------------------------------
(* Mutual exclusion on a bag, and who is where in it. *)
LockInv ==
  /\ \A p \in Procs :
       /\ pc[p] \in Locked => bag[p] \in Bags /\ lock[bag[p]] = p
       /\ pc[p] = "idle" <=> bag[p] = NoBag
  /\ \A b \in Bags : lock[b] # NoProc =>
       pc[lock[b]] \in Locked /\ bag[lock[b]] = b

(* The torrent a goroutine holds, by the step it is at. *)
HeldInv ==
  \A p \in Procs :
    /\ pc[p] \in {"idle", "lookup", "wait", "recheck"} => held[p] = NoTorrent
    /\ pc[p] \in Building \cup {"use"} => held[p] \in Torrents
    /\ held[p] # NoTorrent => tbag[held[p]] = bag[p]

(* A torrent under construction is its bag's only one, and its builder's.  *)
BuildingInv ==
  \A p \in Procs : pc[p] \in Building =>
    /\ bag[p] \notin Cached /\ store[bag[p]] = held[p]
    /\ \A q \in Procs : q # p => held[q] # held[p]
    /\ run[held[p]] = IF pc[p] = "start" THEN "new" ELSE "running"
    /\ dl[held[p]] = IF pc[p] = "publish" THEN "open" ELSE "none"

IsCached(t) == \E b \in Bags : cache[b] = t

(* A torrent that runs is either in the cache or being opened by the       *)
(* goroutine that holds its bag's lock: no interleaving of cache misses,   *)
(* failures and evictions leaves one running that nobody can reach, or     *)
(* opens a bag's torrent twice (getTorrent, BagsCache.Set).                *)
RunningAccounted ==
  /\ \A t \in Torrents : run[t] = "running" =>
       \/ IsCached(t)
       \/ \E p \in Procs : lock[tbag[t]] = p /\ held[p] = t
  /\ \A t, u \in Torrents :
       run[t] = "running" /\ run[u] = "running" /\ tbag[t] = tbag[u] => t = u

(* What the cache offers for a bag is that bag's torrent, running, with an *)
(* open downloader, and the one the peers' queries reach through the       *)
(* virtual storage (BagsCache.Get, freeUnsafe, SetTorrent).                *)
CachedIsLive ==
  \A b \in Cached :
    /\ run[cache[b]] = "running" /\ dl[cache[b]] = "open"
    /\ tbag[cache[b]] = b /\ store[b] = cache[b]

(* A torrent given to a caller is in the cache, running, or was torn down  *)
(* whole, its downloader closed: a stream's fetches then fail instead of   *)
(* waiting for a stopped torrent (getTorrent, freeUnsafe).                 *)
LiveOrTornDown(p) ==
  \/ /\ run[held[p]] = "running" /\ dl[held[p]] = "open"
     /\ cache[bag[p]] = held[p]
  \/ run[held[p]] = "stopped" /\ dl[held[p]] = "closed"

HandedOutIsUsable ==
  \A p \in Procs :
    pc[p] = "use" \/ (pc[p] = "unlock" /\ held[p] # NoTorrent) => LiveOrTornDown(p)

(* The inductive invariant: a goroutine in getTorrent works on the torrent *)
(* of its own bag under that bag's lock, and the cache, the virtual        *)
(* storage and the torrents agree (getTorrent, SetTorrent).                *)
ClientInv ==
  /\ TypeOK /\ LockInv /\ HeldInv /\ BuildingInv
  /\ CachedIsLive /\ HandedOutIsUsable /\ RunningAccounted

(* A torrent that callers work with is stopped under them only by a        *)
(* goroutine publishing another torrent, and leaves a full cache of bags   *)
(* none of which was used less recently.  The error paths of getTorrent,   *)
(* which stop torrents too, never hit one that was handed out.             *)
StoppedOnlyUnderPressure ==
  [][\A p \in Procs :
       /\ pc[p] = "use" /\ run[held[p]] = "running" /\ run'[held[p]] = "stopped"
       => /\ Cardinality(Cached') >= MaxCacheEntries
          /\ \A k \in Cached' \cap Cached : age[k] <= age[bag[p]]]_vars

(* The sessions the client has with the network are those of BagSessions:  *)
(* a started torrent is shared from the moment it is in the cache          *)
(* (getTorrent, BagsCache.Set, freeUnsafe).                                *)
Opening == {tbag[t] : t \in {u \in Torrents : run[u] = "running" /\ ~IsCached(u)}}

Sessions ==
  INSTANCE BagSessions WITH opening <- Opening, open <- Cached, Limit <- MaxCacheEntries
ImplementsSessions == Sessions!SessionsSpec

(* Every call of getTorrent comes back, with a torrent or an error, also   *)
(* while other requests keep taking the same bag's lock and keep evicting  *)
(* the bag (the per-bag mutex, the ten second timeout).                    *)
CallsReturn ==
  \A p \in Procs : pc[p] = "lookup" ~> pc[p] \in {"idle", "use"}
=============================================================================
