------------------------------ MODULE Moderation ------------------------------
(***************************************************************************)
(* Bans and the requests they gate.                                        *)
(*                                                                         *)
(* Administrators change the table files.blacklist through                 *)
(* reports.UpdateBanStatus.  A request for a bag passes the listing cache  *)
(* (pkg/services/files/cache.go), then the ban check through the ban cache *)
(* (pkg/repositories/files/cache.go), which remembers bans only, then gets *)
(* the content, and a listing is cached.  Both caches are SimpleCaches.    *)
(*                                                                         *)
(* A request goes through its steps one by one, interleaved with the       *)
(* others, with the administrators' and with the clock.  since[b] says for *)
(* how long a bag has been banned or not banned; it is not in the program. *)
(***************************************************************************)
EXTENDS Integers, Sequences, BanStatement

CONSTANTS
  Bags,       \* bag ids in lower case, as the handlers pass them on
  Readers,    \* goroutines serving requests for content
  Admins,     \* goroutines serving ban updates
  Batches,    \* the bodies of ban updates: sequences of [bag, status]
  DbFaults,   \* what may go wrong with a statement: "error", "lost"
  NoBag, NoValue,
  BanTTL,     \* repositories/files NewCache: one hour
  ListTTL,    \* services/files NewCacheMiddleware: one minute
  MaxCall     \* longest call considered, in ticks (bound of the model)

ASSUME ModerationAssumption ==
  /\ NoBag \notin Bags
  /\ BanTTL \in Nat /\ ListTTL \in Nat /\ MaxCall \in Nat
  /\ DbFaults \subseteq {"error", "lost"}
  /\ NoValue \notin {TRUE}
  /\ Batches \subseteq Seq([bag : Bags, status : BOOLEAN]) \ {<<>>}

VARIABLES
  banned,   \* the bags with a row in files.blacklist
  since,    \* since[b]: time since b was last banned or unbanned
  bans,     \* cacheMiddleware.cache of repositories/files: value TRUE
  lists,    \* cacheMiddleware.cache of services/files
  rpc, rbag, rage,    \* a request's step, its bag, how long it has been going
  apc, batch, aage    \* an update's step, what is left of its body, its age

dbVars == <<banned, since>>
readerVars == <<rpc, rbag, rage>>
adminVars == <<apc, batch, aage>>
vars == <<dbVars, bans, lists, readerVars, adminVars>>

Ban == INSTANCE SimpleCache WITH items <- bans, Keys <- Bags, Values <- {TRUE}, TTL <- BanTTL
List == INSTANCE SimpleCache WITH items <- lists, Keys <- Bags, Values <- {TRUE}, TTL <- ListTTL

(* Ages beyond this one need not be told apart. *)
Horizon == MaxCall + (IF BanTTL < ListTTL THEN ListTTL ELSE BanTTL) + 1

TypeOK ==
  /\ banned \subseteq Bags
  /\ since \in [Bags -> 0..Horizon]
  /\ Ban!ItemsTypeOK /\ List!ItemsTypeOK
  /\ rpc \in [Readers -> {"idle", "listing", "cache", "query", "fill", "content", "store"}]
  /\ rbag \in [Readers -> Bags \cup {NoBag}]
  /\ rage \in [Readers -> 0..MaxCall]
  /\ apc \in [Admins -> {"idle", "exec", "apply"}]
  /\ batch \in [Admins -> Seq([bag : Bags, status : BOOLEAN])]
  /\ aage \in [Admins -> 0..MaxCall]

(* A start on a table filled long ago. *)
Init ==
  /\ banned \in SUBSET Bags
  /\ since = [b \in Bags |-> Horizon]
  /\ Ban!ItemsInit /\ List!ItemsInit
  /\ rpc = [r \in Readers |-> "idle"] /\ apc = [a \in Admins |-> "idle"]
  /\ rbag = [r \in Readers |-> NoBag] /\ batch = [a \in Admins |-> <<>>]
  /\ rage = [r \in Readers |-> 0] /\ aage = [a \in Admins |-> 0]

-----------------------------------------------------------------------------
(* One request's way through GetPathInfo. *)

Step(r, from, to) == rpc[r] = from /\ rpc' = [rpc EXCEPT ![r] = to] /\ UNCHANGED <<rbag, rage>>

Reply(r, from) ==
  /\ rpc[r] = from
  /\ rpc' = [rpc EXCEPT ![r] = "idle"]
  /\ rbag' = [rbag EXCEPT ![r] = NoBag]
  /\ rage' = [rage EXCEPT ![r] = 0]

Request(r, b) ==
  /\ rpc[r] = "idle"
  /\ rpc' = [rpc EXCEPT ![r] = "listing"]
  /\ rbag' = [rbag EXCEPT ![r] = b]
  /\ UNCHANGED <<dbVars, bans, lists, rage, adminVars>>

(* The listing cache answers, before any look at the bans. *)
ListingHit(r) ==
  /\ Reply(r, "listing")
  /\ List!Fresh(rbag[r]) /\ List!Get(rbag[r])
  /\ UNCHANGED <<dbVars, bans, adminVars>>

ListingMiss(r) ==
  /\ Step(r, "listing", "cache")
  /\ ~List!Fresh(rbag[r]) /\ List!Get(rbag[r])
  /\ UNCHANGED <<dbVars, bans, adminVars>>

(* HasBan, cached: the bag is refused. *)
BanHit(r) ==
  /\ Reply(r, "cache")
  /\ Ban!Fresh(rbag[r]) /\ Ban!Get(rbag[r])
  /\ UNCHANGED <<dbVars, lists, adminVars>>

BanMiss(r) ==
  /\ Step(r, "cache", "query")
  /\ ~Ban!Fresh(rbag[r]) /\ Ban!Get(rbag[r])
  /\ UNCHANGED <<dbVars, lists, adminVars>>

(* HasBan, from the table: SELECT EXISTS.  On an error the request fails.  *)
(* Faulty variant: an error counts as "not banned".                        *)
QueryFailsOpen(r) ==
  /\ "error" \in DbFaults
  /\ Step(r, "query", "content")
  /\ UNCHANGED <<dbVars, bans, lists, adminVars>>
QueryFails(r) ==
  /\ "error" \in DbFaults
  /\ Reply(r, "query")
  /\ UNCHANGED <<dbVars, bans, lists, adminVars>>

(* Faulty variant: the answer is cached also when it is "not banned".      *)
QueryBanCachingBoth(r) ==
  /\ Step(r, "query", "content")
  /\ Ban!Set(rbag[r], rbag[r] \in banned)
  /\ UNCHANGED <<dbVars, lists, adminVars>>
QueryBan(r) ==
  /\ Step(r, "query", IF rbag[r] \in banned THEN "fill" ELSE "content")
  /\ UNCHANGED <<dbVars, bans, lists, adminVars>>

(* The ban just read is cached, and the bag refused.  The table is not     *)
(* read again.                                                             *)
FillBan(r) ==
  /\ Reply(r, "fill")
  /\ Ban!Set(rbag[r], TRUE)
  /\ UNCHANGED <<dbVars, lists, adminVars>>

(* The content comes from local or remote storage: a listing, which is     *)
(* cached, or a file or an error, which are not.                           *)
ContentListing(r) ==
  /\ Step(r, "content", "store")
  /\ UNCHANGED <<dbVars, bans, lists, adminVars>>

ContentOther(r) ==
  /\ Reply(r, "content")
  /\ UNCHANGED <<dbVars, bans, lists, adminVars>>

StoreListing(r) ==
  /\ Reply(r, "store")
  /\ List!Set(rbag[r], TRUE)
  /\ UNCHANGED <<dbVars, bans, adminVars>>

-----------------------------------------------------------------------------
(* One ban update. *)

Submit(a, s) ==
  /\ apc[a] = "idle"
  /\ apc' = [apc EXCEPT ![a] = "exec"]
  /\ batch' = [batch EXCEPT ![a] = s]
  /\ UNCHANGED <<dbVars, bans, lists, readerVars, aage>>

Done(a) ==
  /\ apc' = [apc EXCEPT ![a] = "idle"]
  /\ batch' = [batch EXCEPT ![a] = <<>>]
  /\ aage' = [aage EXCEPT ![a] = 0]

(* The statement takes effect in one step, with all rows visible: one that *)
(* overlaps with another and misses its new row is a step that came first. *)
Commit(a) ==
  /\ apc[a] = "exec" /\ ~BansTwice(batch[a])
  /\ \E outcome \in Outcomes(banned, batch[a]) :
     LET rows == (banned \cup Named(batch[a], TRUE)) \ outcome.gone IN
       /\ banned' = rows
       /\ since' = [b \in Bags |-> IF (b \in rows) = (b \in banned) THEN since[b] ELSE 0]

(* The statement succeeds and the caches are next. *)
Exec(a) ==
  /\ Commit(a)
  /\ apc' = [apc EXCEPT ![a] = "apply"]
  /\ UNCHANGED <<bans, lists, readerVars, batch, aage>>

(* The statement fails, and returns before the cache is touched. *)
ExecFails(a) ==
  /\ apc[a] = "exec"
  /\ "error" \in DbFaults \/ BansTwice(batch[a])
  /\ Done(a)
  /\ UNCHANGED <<dbVars, bans, lists, readerVars>>

(* The connection is lost after the commit: the caller sees an error too.  *)
ExecLost(a) ==
  /\ "lost" \in DbFaults
  /\ Commit(a)
  /\ Done(a)
  /\ UNCHANGED <<bans, lists, readerVars>>

(* The cache follows the body, one status after the other. *)
Apply(a) ==
  /\ apc[a] = "apply"
  /\ LET s == Head(batch[a]) IN
       IF s.status THEN Ban!Set(s.bag, TRUE) ELSE Ban!Release(s.bag)
  /\ IF Len(batch[a]) = 1 THEN Done(a)
     ELSE batch' = [batch EXCEPT ![a] = Tail(@)] /\ UNCHANGED <<apc, aage>>
  /\ UNCHANGED <<dbVars, lists, readerVars>>

-----------------------------------------------------------------------------
(* The background cleanup of either cache. *)
CleanBans == Ban!Cleanup /\ UNCHANGED <<dbVars, lists, readerVars, adminVars>>
CleanLists == List!Cleanup /\ UNCHANGED <<dbVars, bans, readerVars, adminVars>>

(* Time passes for everything, while no call has lasted MaxCall. *)
Tick ==
  /\ \A r \in Readers : rpc[r] # "idle" => rage[r] < MaxCall
  /\ \A a \in Admins : apc[a] # "idle" => aage[a] < MaxCall
  /\ Ban!Elapse /\ List!Elapse
  /\ since' = [b \in Bags |-> IF since[b] < Horizon THEN since[b] + 1 ELSE Horizon]
  /\ rage' = [r \in Readers |-> IF rpc[r] = "idle" THEN 0 ELSE rage[r] + 1]
  /\ aage' = [a \in Admins |-> IF apc[a] = "idle" THEN 0 ELSE aage[a] + 1]
  /\ UNCHANGED <<banned, rpc, rbag, apc, batch>>

(* A crash and restart: the table stays, the caches and the calls go. *)
Restart ==
  /\ bans' = [b \in Bags |-> Ban!NoItem] /\ lists' = [b \in Bags |-> List!NoItem]
  /\ rpc' = [r \in Readers |-> "idle"] /\ apc' = [a \in Admins |-> "idle"]
  /\ rbag' = [r \in Readers |-> NoBag] /\ batch' = [a \in Admins |-> <<>>]
  /\ rage' = [r \in Readers |-> 0] /\ aage' = [a \in Admins |-> 0]
  /\ UNCHANGED dbVars

-----------------------------------------------------------------------------
Reader(r) ==
  \/ ListingHit(r) \/ ListingMiss(r) \/ BanHit(r) \/ BanMiss(r)
  \/ QueryFails(r) \/ QueryBan(r) \/ FillBan(r)
  \/ ContentListing(r) \/ ContentOther(r) \/ StoreListing(r)

Admin(a) == Exec(a) \/ ExecFails(a) \/ ExecLost(a) \/ Apply(a)

Next ==
  \/ \E r \in Readers : Reader(r) \/ \E b \in Bags : Request(r, b)
  \/ \E a \in Admins : Admin(a) \/ \E s \in Batches : Submit(a, s)
  \/ CleanBans \/ CleanLists \/ Tick \/ Restart

Spec == Init /\ [][Next]_vars

(* Calls that have begun go on; time passes; nobody has to ban, to unban   *)
(* or to ask, and the cleanup is not relied on.                            *)
FairSpec ==
  /\ Spec
  /\ \A r \in Readers : WF_vars(Reader(r))
  /\ \A a \in Admins : WF_vars(Admin(a))
  /\ WF_vars(Tick)

-----------------------------------------------------------------------------
(* No content is fetched for a bag that was banned before the request      *)
(* came in: the ban cache may be late or empty, the table may not answer,  *)
(* the check still does not let the bag through (HasBan, GetPathInfo).     *)
NoBanMissed ==
  \A r \in Readers : rpc[r] \in {"content", "store"} =>
    rbag[r] \notin banned \/ since[rbag[r]] <= rage[r]

(* The listing cache, which answers ahead of the ban check, can serve the  *)
(* listing of a banned bag for at most its TTL and the longest call after  *)
(* the ban (cacheMiddleware.GetPathInfo, SimpleCache).                     *)
ListingWindow ==
  \A b \in banned : List!Fresh(b) => since[b] + lists[b].left <= MaxCall + ListTTL

(* A ban that has been lifted can be enforced from the ban cache for at    *)
(* most its TTL and the longest call after that, whatever updates,         *)
(* requests and lost connections crossed each other (HasBan,               *)
(* UpdateBanStatus, SimpleCache).                                          *)
BanWindow ==
  \A b \in Bags \ banned : Ban!Fresh(b) => since[b] + bans[b].left <= MaxCall + BanTTL

(* What a request and an update have in hand was true no longer ago than   *)
(* they began.                                                             *)
CallsInv ==
  /\ \A r \in Readers :
       /\ rpc[r] # "idle" => rbag[r] \in Bags
       /\ rpc[r] = "fill" => rbag[r] \in banned \/ since[rbag[r]] <= rage[r]
  /\ \A a \in Admins :
       /\ apc[a] # "idle" => batch[a] # <<>>
       /\ apc[a] = "apply" => \A i \in DOMAIN batch[a] : batch[a][i].status =>
            batch[a][i].bag \in banned \/ since[batch[a][i].bag] <= aage[a]

(* The inductive invariant behind the three: the caches hold nothing that  *)
(* was not true within the last call and TTL (HasBan, UpdateBanStatus).    *)
GateInv == TypeOK /\ CallsInv /\ NoBanMissed /\ ListingWindow /\ BanWindow

(* A bag whose row stays away is, from some time on, not refused.          *)
UnbanHeals ==
  \A b \in Bags : (<>[](b \notin banned)) => <>[](~Ban!Fresh(b))

(* "status: false = unban": when every call has returned without an error, *)
(* no bag is refused whose row is gone.                                    *)
UnbanTakesEffect ==
  (\A r \in Readers : rpc[r] = "idle") /\ (\A a \in Admins : apc[a] = "idle") =>
    \A b \in Bags \ banned : ~Ban!Fresh(b)
=============================================================================
