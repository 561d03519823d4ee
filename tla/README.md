# A TLA+ development of the mytonstorage gateway

The gateway serves the contents of TON storage bags over HTTP. A request names
a bag and a path; the program refuses banned bags, looks for the bag in the
local storage daemon, asks the daemon to fetch it, and falls back to a built-in
client of the TON storage network. Administrators ban bags and read reports.

This directory holds TLA+ modules for the parts of the program whose
correctness depends on the order in which things happen, the TLC runs that
check them on small instances, and TLAPS proofs for every instance.

## 1. Inventory

Paths are relative to `src/`.

| component | state | operations | interacts with |
|---|---|---|---|
| `BagsCache` (`pkg/clients/remote-ton-storage/cache.go`) | map from bag to torrent, downloader and `lastUsed`; one mutex | `Get`, `Set` (with the loop over `freeUnsafe`), `Clear` | stops torrents and closes downloaders that the remote client and its streams may be using |
| remote client (`.../client.go`, `virtualStorage.go`) | per-bag mutexes, virtual storage, network session | `ListFiles`, `StreamFile`, both through `getTorrent`; `Close` | `BagsCache`; the storage library; called by the files service from many goroutines |
| `SimpleCache` (`pkg/cache/simple.go`) | map from key to value and expiry time; one mutex; cleanup goroutine | `Set`, `Get`, `Release`, `cleanup` | two instances: ban cache (1 h), listing cache (1 min) |
| ban repository and its cache (`pkg/repositories/files`) | table `files.blacklist`; ban cache | `HasBan`, `UpdateBanStatus` and listings | called by the files service (`HasBan`) and by the reports service (`UpdateBanStatus`) |
| listing cache (`pkg/services/files/cache.go`) | listings by bag and path | `GetPathInfo` | sits in front of the files service, hence in front of the ban check |
| files service (`pkg/services/files/service.go`) | per-bag ensure mutexes | `GetPathInfo`: ban check, local look-up, `AddBag` and header poll (1 lock per bag), remote fallback; `ls` | ban repository, storage daemon, remote client |
| reports service (`pkg/services/reports`) | tables `files.blacklist`, `files.blacklist_history` (written by triggers, `db/init.sql`), `files.reports` | `UpdateBanStatus`, `AddReport`, listings by page | ban repository |
| remote file stream (`client.go`, `httpServer/helpers.go`) | a pipe and a goroutine per stream | piece loop, `streamWithDeadline`, `serveHTMLFile` | torrent and downloader of `BagsCache` |
| HTTP handlers (`pkg/httpServer`) | access tokens | bag and path validation, permissions, local files, loading shell, error mapping | everything above |
| storage daemon client (`pkg/clients/ton-storage`) | none | `GetBag`, `AddBag` | local daemon |
| start and shutdown (`cmd`) | none | `run`, with `NewClient` and `Close` of the remote client | closes the remote client, drains the server |
| templates, iframe wrapper, metrics, configuration | none that is read back | rendering, counting | |

What is hard, and what makes the components correct:

* **Opening a bag.** Many requests for many bags, one torrent per bag, ten
  second waits under a lock, and an eviction that stops torrents other
  goroutines hold. Correct when no running torrent is lost, no bag is opened
  twice, the cache never offers a dead torrent, a torrent that was handed out
  is usable or fully torn down, and every call returns.
* **Eviction.** Strictly-before comparison of stamps, a loop, map order.
  Correct when it is LRU and the limit is exceeded only for entries stamped at
  one instant.
* **TTL cache.** Lazy deletion. Correct when nobody can tell it from immediate
  deletion, and memory is given back.
* **Bans.** A table, two caches with different lives in a fixed order in front
  of it, and read-then-write on one of them. Correct when no request passes a
  ban that is older than the request, and when either cache disagrees with the
  table for a bounded time only.
* **Ensure and fallback.** Requests for one bag compete for its lock, newcomers
  with those who wait, and each repeats the attempt of the one before it,
  against a daemon that may answer late, fail halfway or forget. Correct when the lock is held and waited
  for in bounded time, no way out keeps it, and every request is answered with
  the code its cause calls for.
* **Keys.** The maps of the program are keyed by strings that come from a
  request's buffer. Correct when a key outlives the request unchanged.
* **Streams.** A goroutine fetches pieces and writes them to a pipe, a consumer
  reads the pipe, and either may stop for reasons of its own: a lost piece, a
  deadline, a client that leaves, a shutdown. Correct when what a client has is
  always a beginning of the file, an interrupted file never looks complete,
  and neither side stays behind for ever because of the other.
* **Start and shutdown.** Resources that work on each other are opened one by
  one, any step may fail, and a signal closes them under running requests and
  then again. Correct when nothing outlives what it works on, nothing is left
  open, and the drain ends.
* **Paths and listings.** A path is cleaned, resolved against a listing that
  differs in form from its source, and turned into a file by two different
  tests; a local file changes while it is looked at. Correct when no path
  leaves the bag, a file is answered with that file and a folder with what is
  in it, links lead back to what they stand for, and no HTML file of a bag is
  sent unwrapped.
* **The ban book.** Overlapping statements with snapshots of their own, which may
  change one row twice, triggers that log them, and clients that page through a
  table that changes. Correct
  when the last entry of the history is the row, and a page reader misses no
  more than what removals push out of sight.
* **Access.** A list of tokens in which a later entry replaces an earlier one,
  and a missing list of words means all. Correct when nothing is changed
  without a permission the list gives.

`PROJECT.json` lists every component and every hazard at its line.

## 2. Modules

| module | what it is |
|---|---|
| `BagsCache` | the operations of the cache of opened bags, as actions that other modules conjoin with their own |
| `BagsCacheSpec` | the cache alone, under any caller; its properties |
| `LruOrder` | abstract: the bags held, which of them were used after which, and the last one used |
| `FreeLoop` | extends `BagsCacheSpec`: the `freeUnsafe` loop round by round, compared with the operator `Freed` |
| `AliasedKeys` | the cache of opened bags under keys that are views of a request's buffer |
| `RemoteClient` | goroutines in `getTorrent`, `ListFiles` and `StreamFile`, over `BagsCache` |
| `BagSessions` | abstract: the network sessions of the client |
| `RemoteClientProofs` | theorems about `RemoteClient` and its cache (`BagsCacheSpec`, `FreeLoop`) |
| `SimpleCache` | the operations of the TTL cache |
| `SimpleCacheSpec` | the TTL cache alone; its properties |
| `TtlMap` | abstract: a map whose entries live for a fixed time |
| `SimpleCacheProofs` | theorems about `SimpleCacheSpec` |
| `BanStatement` | what the one SQL statement of `UpdateBanStatus` may leave |
| `Moderation` | ban table, ban cache and listing cache (two instances of `SimpleCache`), requests, updates |
| `ModerationProofs` | theorems about `Moderation` |
| `FilesService` | requests in `GetPathInfo` after the ban check: ensure lock, daemon, remote fallback, with time |
| `FilesServiceProofs` | theorems about `FilesService` |
| `Lifecycle` | `run`, `NewClient` and `Close`: stages of the program and open resources |
| `RemoteStream` | the streams of remote files, their consumers and the gauge, in the program of `Lifecycle` |
| `RemoteStreamProofs` | theorems about `RemoteStream` |
| `BagPaths` | `sanitizePath`, `ls`, `isSingleFile`, and what they are compared with |
| `Gateway` | a request for content from the route to what is sent, over `BagPaths` |
| `GatewayProofs` | theorems about `Gateway` |
| `AccessTokens` | the configured tokens and the check before a protected handler |
| `BanBook` | ban updates, reports, the history and the listings by page, over `AccessTokens` and `BanStatement` |
| `BanBookProofs` | theorems about `BanBook` |
| `NatRecursion` | induction and recursion over natural numbers, for the proofs |
| `MCRemoteClient`, `MCModeration`, `MCRemoteStream`, `MCGateway`, `MCBanBook` | symmetry, views and finite inputs for TLC |

Next to some operators stands a *faulty variant* (`GetHitUnstamped`,
`AcquireOwnLock`, ...): what the code would do after a plausible mistake. No
specification uses them; they are there to see that a property notices.

### BagsCache

A torrent and its downloader are created and torn down together, so one
identity `t` stands for both: `run[t]` is what `Start` and `Stop` did, `dl[t]`
what `CreateDownloader` and `Close` did. The code only compares stamps, so
`lastUsed` is a rank (`age`, 0 for the instant last read from the clock), and
ranks are renumbered after each operation: the state space is finite without a
bound on time. `ClockSteps` says whether two readings of the clock may be equal.

`Set` stores the entry and then runs the loop `for bc.freeUnsafe() {}`. The
model takes the loop's result in one step, with `Freed`: any set of entries
that are strictly older than now, oldest first, until the limit is met or
nothing is left to evict. `FreeLoop` has the loop itself, round by round, each
with a clock of its own, and says that the two agree. The step is atomic
because `Set` holds the mutex.

`LruOrder` is what the cache promises. A list would have to put bags of one
instant in some order that the code does not keep, so it is a relation: which
bag was used after which. The refinement mapping takes it from the ages
(`Newer`).

### AliasedKeys

`BagsCache` takes a bag id as a value. The handlers pass
`strings.ToLower(c.Params("bagid"))`: `Params` is a view of the path buffer of
the request's context (`fiber.New()` is called without `Immutable`), the
context serves another request later, and `ToLower` copies only when there is a
capital digit. `buffer[c]` is the id in that buffer, an entry is the bag it was
stored for (which fixes its slot in Go's map) and the context that holds its
key's text, if any; a look-up needs slot and text to agree. `Visit` is a request
that reuses a buffer without reaching this cache, `FetchCached` and `FetchNew`
are `Get` and the store of `Set`, `Evict` is one round of `freeUnsafe`,
`SetReturns` the end of its loop. The maps of locks have the same keys; the ban
cache (`"hb:" + id`) and the listing cache (`Sprintf`) have copies.

### RemoteClient

One action per step between two points where another goroutine may intervene:
`FirstHit`/`FirstMiss` (first look), `AcquireLock` (the bag's mutex),
`SecondHit`/`CreateTorrent` (second look; a miss creates the torrent and
registers it), `StartTorrent`, `DownloaderOpens`, `Publish` (`Set`), `Unlock`,
the three error paths `StartFails`, `DownloaderFails` and `HeaderMissing`, and
`Leave`, when a listing or a stream is done with the torrent. The second look and
the creation are one action although the cache mutex is released between them:
`NewTorrent` and `SetTorrent` touch only the bag's own torrent, and other
goroutines cannot insert the bag while its lock is held. A torrent identity to
which nothing refers may be used again, which is what garbage collection does.
`torrent.Info` and `Header` missing is a free choice, as is every failure.

### SimpleCache

An expiry time is kept as the time left: `TTL` when stored, 0 at the expiry
instant, when the item is still served (`now.After` is strict), -1 later.
`GetAll` only reads and has no caller.

### Moderation

`GetPathInfo` goes through the steps `listing` (listing cache), `cache` (ban
cache), `query` (the table), `fill` (the ban that was read is cached and the
bag refused), `content`, `store` (a listing is cached). An update goes through
`exec` (the one SQL statement) and `apply` (the ban cache, one status at a
time). The statement may fail, or commit and lose its answer. `Outcomes` (module
`BanStatement`, shared with `BanBook`) is
the set of what the statement may do to the rows it sees, those that go and
those that are put in anew: a body that bans and unbans one bag keeps a new
row, because the `DELETE` works on the snapshot, while an old row is changed
twice in an order that PostgreSQL does not promise. It may stay with what the
`INSERT` changes in it, go, or be deleted and inserted again. The last two
differ from the first for `BanBook` only; here a row is there or not. A body
that bans a bag twice makes `ON CONFLICT DO UPDATE` fail. `Restart` keeps the table only.

`since[b]`, `rage[r]` and `aage[a]` measure time (since the bag's last change,
since a call began); they are not in the program, and the properties are
stated with them. `MaxCall` bounds the length of a call in ticks: time does
not pass while a call is that old. It is not a claim about the code. The
windows of `ListingWindow` and `BanWindow` are stated in it, and hold for
every value.

### FilesService

The steps are those of `GetPathInfo` from line 62 on: `local` (first look-up),
`wait` (for `ensureLocks[b]`), `add` (`AddBag`), `check` (`GetBag` after its
error), `poll` and `sleep` (the loop), `again` (second look-up), `remote`
(`ListFiles`), `stream`. One action per outcome of a step: `BagAdded`,
`AddFails`, `BagIsThere`, `CheckFails`, `HeaderArrived`, `GivesUp`, `PollAgain`,
`Wake`, `Cancelled`, and so on; `Return` is the deferred `Unlock` with each way
out of `doEnsureBagInStorage`.

`queue[b]` and `mutex[b]` are the bag's `sync.Mutex`: the holder, then those
who wait in the order of their arrival; and what becomes of the first of them.
In mode `normal` it sleeps until `Unlock` wakes it (`Unlocked`). While it is
`woken` the lock is free, and a newcomer may take it first (`LockFree`); the
woken request then finds the lock taken (`PassedOver`) and goes on waiting in
front of the others. If it has waited for more than a millisecond by then, the
mutex is `starving`: each `Unlock` hands it to the request in front, newcomers
queue (`Queue`), and it stays so until a request gets it that is the last in
the queue or has waited for less (`Acquire`, `Starved`). A tick is longer than
a millisecond, so a request that has waited for one starves; one that has not
may or may not. The daemon has nothing of a bag, its id, its header or its
files; `Fetched` and `Forgotten` change that at any time, a call returns what
is there at its last moment or an error, and an addition may fail after its
effect. What the path finds in the bag (`folder`, `file`, `missing`) is an
input. `spent`, `left` and `kept` measure the call or sleep in progress, the
time to the deadline and how long a lock has been held; `waited` and `ahead`
are of the properties only. A call takes up to `CallTime` (the client's
15 s timeout), and `Tick` waits for nothing else but the sleep's end, a lock
that the request in front may have, and a request that was woken: the delays of
the Go scheduler are below a tick. `Stop` is the shutdown of the server, which is what
makes a request's context done; the sleep is the only step that looks at it by
itself, and a call that looks at it returns an error, which it may do anyway.

`Reply` includes `mapPathInfoError` (`Mapped`), since the code and the number
of peers that decide what a client is told come from different layers.

### RemoteStream and Lifecycle

The bytes of a bag are their positions, a file is a range of them, and what a
client has is a sequence of positions: any lost, doubled or shifted byte shows.
`feeder[s]` is the goroutine of `StreamFile`: `CheckContext` (the look at the
context before a piece), `PieceArrives` and `FetchFails` (`fetch.Get`, then the
cut at the end and at the front, `Part`), `WriteReturns` and `WriteFails`.
`reader[s]` is the consumer: `LoopTop` (deadline), `ReadData` or `ReadEnds`,
`SendChunk` or `SendFails`, `Flush` (which also closes the pipe and lowers the
gauge); or, for an HTML page, `ReadPage`, the one `Read` of `serveHTMLFile`.
`io.Pipe` is external: a `Write` hands its bytes over in the order they come and
returns when all are taken (`rest[s]`) or the reader is closed; `pipe[s]` is how
the writing end was closed. The first of `CloseWithError` and the deferred
`Close` counts, which is why an error never looks like an end. `GetFileOffsets`
of the storage library is external as well, with its two ways to give the end
of a file that ends on a piece's edge (`Offsets`).

`Lifecycle` is the program around it: `stage` is where `run` is, `open` the
resources of the remote client. `StepSucceeds` and `StepFails` are the eight
steps of `NewClient` with what each error path closes; `Signal` calls `Close`
while the server still listens, `BeginDrain` stops it and cancels all requests,
`EndDrain` is the return of `ShutdownWithTimeout`, after which the deferred
`Close` runs a second time; `Exit` and `Restart` end and begin a process.

### Gateway and BagPaths

A path is the sequence of what its slashes separate, over names told apart by
what the code tells apart: blanks at an end, escapes, extensions, NULs, one
name ending in another. `Sanitize` is `sanitizePath` with `TrimSpace` and
`filepath.Clean`; `Ls` and `IsSingleFile` are the functions of the files
service. `Get`, `GetMalformed`, `Reload` (the loading page asks again) and
`Follow` (a link of a listing) begin a request; `AskLocal` and `AskRemote` are
the ends of the two branches of `GetPathInfo`, each with its own test for "this
is a file", `AskFails` is every way to have no bag; then `SendListing`,
`ServeStream`, or `ServeLocal` with the looks of `serveFile` at a local file
one by one (`Lstat`, `ReadFile`, `Stat`, `Open`), between which `DiskChanges`.
What is looked at is not quite what was found: the path, joined to the bag's
folder (`Dir`), goes through `sanitizePath` once more, which takes the blanks
off its end or refuses what has become too long (`Opened`, `Opens`, `TooLong`).
`Place` is what it names below the folder, which may be another file, or none.
`down` is the end of the process: `os.Stat` with an error other than absence
leaves no `FileInfo`, `f.Size()` is called on it, and no middleware recovers.
How long a branch takes and who waits for whom is in `FilesService`.

### BanBook and AccessTokens

A call is checked by `Verdict` (`requirePermission`), begins with the clock and
the rows it sees (`PutBans`, `PostReport`) and takes effect later (`Commit`,
`CommitReport`) or not at all (`StatementFails`, `Restart`), with other
statements in between. `Outcomes` (`BanStatement`) gives what it may do to the
rows of its snapshot, `gone` and `anew`; what it inserts meets the table as it
is. `Upsert` keeps the `created_at` of a row that is there; a row put in anew
has that of the statement (`Inserted`), and two entries in the history.
`TakenOut` and `Put` are the entries of the trigger
`log_blacklist_changes`. `BeginWalk` and `Page` are a client that lists bans or
reports page by page, each page a statement of its own: `present` are the
entries that have been there all the while, `seen` those it was given, `lost`
counts the rows taken out meanwhile, one that is put in anew included: it comes
back in front of the pages already read, and a client may miss it although its
bag is banned throughout. Two entries of one stamp come in an order the
database may change between pages; a walk that meets a tie is dropped, so
`PagesMissNoMore` promises nothing for it. `MaxTime` and `MaxWrites` bound the
clock and the number of entries written.

`AccessTokensMap` is the loop of `New` over the configured list; `SaysSo` says
the same of the list itself: the last entry for a token counts. The hash is a
function that is given, `MD5`.

## 3. Runs

| run | instance | what it shows |
|---|---|---|
| `bags_cache` | `FreeLoop`: 4 bags, 4 torrents, limit 2, clock may repeat | the cache implements `LruOrder`; `Freed` is what the loop does, from every cache reached |
| `remote_client` | 3 goroutines, 2 bags, 5 torrents, limit 1, clock may repeat | `ClientInv`, `RunningAccounted`, `CachedIsLive`, `HandedOutIsUsable`, `StoppedOnlyUnderPressure`, implements `BagSessions` |
| `remote_client_live` | 2 goroutines, 2 bags, 4 torrents, limit 1 | every call returns |
| `simple_cache` | 2 keys, 2 values, TTL 2 | implements `TtlMap`; expired items are collected |
| `moderation` | 1 bag, 1 request, 2 updates, ban TTL 2, listing TTL 1, calls up to 1 tick, all faults | `GateInv`, `NoBanMissed`, `ListingWindow`, `BanWindow`; a lifted ban stops being enforced (`UnbanHeals`) |
| `files_service` | 2 requests, 1 bag, calls of up to 1 tick, timeout 2, interval 1, all paths | `EnsureInv`, `HoldBounded`, `WaitBounded`; every request is answered (`Answered`) |
| `remote_stream` | 1 stream after another, pieces of 3 bytes, reads of 2, four layouts of a file | `StreamInv`, `Orderly`, `BytesInOrder`, `EofIsWhole`, `PageIsOnePart`, `OneLateRead`, `GaugeCounts`, `WindsDown`; `FeederEnds`, `ReaderEnds`, `DrainEnds` |
| `gateway` | 2 bags, in a folder of two names, paths of up to 3 segments of 12 kinds (those of three over 7 of them, and one more) | `PathStaysInside`, `AnswersTheBag`, `LinksLead`, `ServedAsItIs` (`PagesAreWrapped`, `StillFileIsSent`, `TheFoundIsOpened`) |
| `ban_book` | 2 statements at a time, 2 bags one of which is written in two ways, pages of 1, clock up to 2, up to 3 entries | `BookInv`, `HistoryTellsTable`, `PagesMissNoMore`, `OnlyGranted` |
| `unban_effect` | 1 bag, 1 request, 1 update, no database faults | **violated**: see section 6 |
| `aliased_keys` | 3 bags, 2 contexts, limit 2, ids with and without a capital digit | **violated**: see section 6 |
| `missing_path` | 1 request, 1 bag, calls, timeout and interval of 1 tick | **violated**: see section 6 |

Why the bounds are enough. In `remote_client` two bags and a limit of one make
every publication of the other bag an eviction; three goroutines allow one to
hold a bag's torrent, one to wait for its lock and one to evict it; five
torrents are one per goroutine and one per bag, so none is ever lacking
(theorem `CreateNeverWaits`). In
`bags_cache` four bags and a limit of two give stores that evict one and, when
the clock has stood still, several entries or none. In `moderation` bags do not
affect each other except through a body that names several, whose effect on
each is that of the statuses naming it, so that one bag, with bodies that
name it twice, carries every race; the TTLs differ, a call may be as long as
the shorter one, and two updates beside a request give every crossing.

In `files_service` two requests for one bag are a holder and a waiter (bags
share nothing in the module). The holder that is done may ask again at once and
be the newcomer: it takes the lock while the other is woken, the mutex starves
and is handed over, with or without the first one queued again behind. The
bound of `WaitBounded` is met exactly, at 12 ticks, and `ahead * MaxHold` is
exceeded. More than one request ahead is left to the proof. A timeout of two intervals and calls as long as
an interval let a poll end before, at and after its deadline. In
`aliased_keys` three bags exceed the limit of two, and two contexts are one
that holds a key and one that goes on.

In `remote_stream` the four files lie inside one piece, over three pieces, in
exactly one piece, and nowhere (an empty file); reads are shorter than a piece
and do not divide it, so a part takes one or two of them. Streams share only
the gauge and the stages of the program. In `gateway` paths of three segments
go down, up again and above, with a slash in front, behind and doubled; the
bags hold a folder named like its one file, one that ends in that name, names
with blanks, an escape and each class of content; files whose names end in a
blank stand next to one of the trimmed name, to a folder of it, or to neither,
and one path is too long once it is joined to the bag's folder (which comes from
`DB_PATH`, `/data/db` in `deploy/tonutils-storage-entrypoint.sh:4`, and so is
a path from the root). In `ban_book` pages of one
entry make every row a page boundary; three entries are a row that is put in,
taken out and put back, by three bodies or by two, while another statement is
under way, and a statement that begins below the bound may go over it.

The proofs of section 5 need none of these bounds.

Symmetry is used in safety runs only: goroutines and bags in `remote_client`
(not torrents: `CreateTorrent` uses `CHOOSE`), calls in `ban_book`.
`remote_client` has a `VIEW`: it leaves out what is known of torrents that
nobody refers to and that are closed, which a new torrent of that identity
starts without. No run disables the deadlock check.

## 4. Fairness

* `RemoteClient!FairSpec`: weak fairness of a goroutine's steps inside
  `getTorrent` (the Go scheduler runs it; `CreateDownloader` is bounded by its
  ten second context, so it ends one way or the other) and strong fairness of
  `AcquireLock` (`sync.Mutex` hands itself to a waiter after a millisecond, so
  none starves). None for new requests, nor for `Leave`: a stream may be read
  for ever.
* `SimpleCacheSpec!SCSpec`: weak fairness of the cleanup, whose ticker fires
  for as long as the program runs.
* `Moderation!FairSpec`: weak fairness of the steps of a request and of an
  update that have begun, and of time. None for the cleanup, for new requests
  or for new updates, so `UnbanHeals` relies on none of them.

* `RemoteStream!FairSpec`: weak fairness of the goroutine's steps that need
  nobody else (the look at the context, a `Get` whose context is done, a `Write`
  that has been taken whole or whose reader is closed), of the consumer's steps
  except writing to a client that is still there, of the shutdown once a signal
  has come, and of the end of the process. None for the network (a piece may
  never arrive), none for clients (one may stay and never read), none for the
  drain's timeout, so that `DrainEnds` does not rest on it, and none for
  signals or requests.
* `AliasedKeys!Spec`: strong fairness of the loop inside `Set`, which runs in a
  goroutine of its own; none for requests. Strong fairness excludes that the
  loop never reads a key while its text is the right one, although the text is
  right again and again; the violation does not rest on such bad luck, for
  there the text never comes back.
* `FilesService!FairSpec`: weak fairness of each request's steps (calls have a
  timeout, sleeps end, a woken goroutine runs) and strong fairness of `Tick`.
  Strong, because a tick waits for a request that was woken or handed the lock:
  newcomers that overtake a waiter one after the other, each failing at once,
  would else do so for ever without any time passing. They do not: each takes
  some time, and after a millisecond of it the waiter starves and is handed the
  lock. `Answered` needs both.
* `Gateway`, `BanBook` and `BagsCacheSpec` state none: their properties are
  about what a step may do.

## 5. Proofs

`tlapm` on the modules `*Proofs` and `NatRecursion` checks every statement.
There are no assumptions but the named `ASSUME`s of the modules, which TLC
evaluates for each instance it runs: `CacheAssumption`, `ClientAssumption`,
`SimpleCacheAssumption`, `ModerationAssumption`, `FilesAssumption`,
`StreamAssumption`, `NamesAssumption`, `GatewayAssumption`, `BagsAssumption`,
`BookAssumption`, `TokenAssumption`. They say what the constants are: finite
sets where a cardinality is taken, "none" values outside the sets they extend,
limits and lives that are natural numbers, bodies that are not empty; that a bag
is a finite set of files, none of which has a path that begins with another's;
that trimming leaves an empty segment, "." and ".." as they are. No bound of a
run is among them, but for `MaxTime` and `MaxWrites` of `BanBook`, where any
natural number will do.

**RemoteClient.** `Core` is the inductive invariant. Its parts: who holds a
lock is at a step inside it, for that bag (`LockInv`); what a goroutine holds,
by its step (`HeldInv`); a torrent under construction is new, held by its
builder only, registered, and its bag is not cached (`BuildingInv`); the cache
offers live torrents (`CachedIsLive`); what was handed out is live or torn down
(`HandedOutIsUsable`); nothing running is lost (`NothingLost`). None is
inductive alone: that `Publish` overwrites no live entry needs `BuildingInv`,
whose step needs `LockInv`; that an error path stops nobody else's torrent
needs `HeldInv` and `BuildingInv`; that an eviction leaves nothing half closed
needs `CachedIsLive`. One lemma per action, one step per conjunct. What a `Set`
does, with its eviction, is `SetEffect`. From `Core` follow `ClientCorrect`
(`ClientInv`), `NoTorrentLost` (`RunningAccounted`), `CacheIsLive`
(`CachedIsLive`), `HandedOutCorrect` (`HandedOutIsUsable`),
`StoppedUnderPressure` and `ClientImplementsSessions`, where every step maps to
a step of `BagSessions` or a stutter (`SessionsStep`). `LimitIsKept` needs a
clock that never repeats an instant (`0 \notin ClockSteps`), as the code does: a
stamp equal to now is never evicted. `CreateNeverWaits` counts the torrents that
somebody refers to, at most one for each bag and each goroutine, so that the
finite pool of the model takes no behaviour away.

**The cache of opened bags.** `FreedIsAlwaysTheLoop` is that `Freed`, the
operator by which `Set` evicts, allows exactly what the loop over `freeUnsafe`
may leave, and that the loop always ends; `LoopIsFreed` says so for any entries
with any stamps. `LoopCourse` takes the recursive function `Course` apart, by
induction over the rounds (`RecursionOnNat`). It ends because each round takes
one entry out (`LoopMustStop`). Sound: `Progressed` is kept by every round
(`RoundProgresses`), namely that what is gone is no younger than what is left,
and that if anything is gone no fewer than the limit are left; it gives `Freed`
when a round removes nothing (`LoopIsSound`). Complete: what
`Freed` removes can be removed one by one, an oldest entry each time
(`OldestExists`, `LoopIsComplete`). That a second tick of the clock changes
nothing is `TicksAlike`. `CacheImplementsLru` is the refinement: renumbering the
ages keeps their order (`RankedOrder`), a hit makes its bag the newest, or one
of the newest if the clock stood still (`UseTouches`, `GetHitUses`), a `Set`
does so and gives up the oldest (`SetStores`). `ClientImplementsLru` carries it
over to the concurrent client. `LruOrder` has the bag used last, which no
variable of the client keeps, so `RecordedSpec` is the client with such a
record; every behaviour of `Spec` has one.

**Moderation.** `GateInv` is inductive: `CallsInv` says that what a request or
an update has in hand was true no longer ago than it began, which is what
`FillBan` and `Apply` need to keep `BanWindow`; `NoBanMissed` is what
`StoreListing` needs to keep `ListingWindow`. `CommitEffect` says what a
statement leaves. Theorems `GateCorrect`, `NoBanIsMissed`,
`BannedListingsExpire`, `LiftedBansExpire`.

**FilesService.** `EnsureInv` is inductive. `LineInv`: a bag's queue has its
holder first and only waiters behind it, each once. `MutexInv`: a free lock that
is waited for is on its way to the request in front, and who is in front has
waited longest. `TimeInv`: how long a lock
has been held, by the step its holder is at, the time spent there and the time
left to the deadline; it needs `LineInv`, since another holder of the same bag
would break it. `CrowdInv`: how long a request has waited, by the number of
those before it that are gone and the time the present holder has had; that a
return moves everyone up by one is where `kept <= MaxHold` is used (`HoldEnds`).
A newcomer that overtakes adds one hold, the `spare` of `CrowdInv`, and only
one: it can come in only while the request in front is woken, time does not pass
until that one has looked, and if it has waited at all it then starves and lets
nobody in again (`Overtaken`). Hence the bound `(ahead + 1) * MaxHold`.
Steps are grouped by what they do to the queue, with a lemma for each group and
each part of the invariant. Theorems `EnsureCorrect`, `HoldBound`, `WaitBound`.

**RemoteStream.** First the program around it: `Orderly` follows from
`LifeSound` (which resources are open at which stage), by `StartingStep`,
`ClosingStep` and `EndingStep`. Then the bytes. `Shares` says that the parts
that the goroutine cuts from its pieces are the file's range, one after the
other, for every size of a piece and every way the two ends fall; it is
arithmetic of `\div` and `%`, stated once. `StreamSound` is inductive for each
stream: what the consumer has had and what waits in the pipe are a beginning
of the range, and the goroutine's next piece begins where they end (`Between`
names the bytes from one place to the next, `BetweenJoin` and `BetweenCut` put
them together). There is one lemma per action, and `OneStep` reduces a step to
the stream it is of. `InOrderAlways` reads off the invariant; `EofAlwaysWhole`
and `PageAlwaysOnePart` add what an end means (`Ended`); `GaugeAlwaysCounts` is
about the cardinality of the set of consumers. `StreamsWindDown` is what can be
proved of a stream's end: `Work` is a natural number (`GotFits`, from the
invariant), every step of the goroutine lowers its part (`FeedWorks`: no piece
is taken up twice), every step of the consumer the other (`ConsumeWorks`: each
read brings a byte at least, `ReadBrings`). So a stream ends unless it waits,
and for what it may wait is what TLC checks with `FeederEnds` and `ReaderEnds`.

**SimpleCache.** `CacheImplementsTtlMap`: each step of the cache with lazy
deletion maps to a step of `TtlMap` or a stutter; the cleanup is a stutter,
because what it deletes is past its life for every reader.

**Gateway.** `GatewayInv` is inductive and says what is known of a local file
at each step of `serveFile`, as long as it stays as it is
(`FilesServedAsTheyAre`). That the file opened is the one found, but for the
blanks its name ends in, is `OpenedIs`, the second `sanitizePath` on a path that
is clean but for its end, and `FoundIsOpened`. For the paths, `CleanIs` describes `filepath.Clean` by
induction over the segments: after `n` of them the names that are left are those
that none of the `n` takes back (`KeptTo`), each at the place its depth gives
(`Placed`), or else a `..` is in front because the path has climbed
(`CourseStep`). With `SanitizedIs` this is `PathsStayInside`. For what a bag has
at a path, `LsOfFile` and `ListingIs` say what `ls` returns and `SingleIs` when
it is one file of a given name; this is where a bag must not have a file and a
folder of one path. `WayInv` carries both along the way of a request:
`FilesServedAsTheyAre`, `BagIsAnswered`, `LinksAlwaysLead`, which also needs that a path of names is
clean (`CleanNames`), and `GatewayTypes`.

**BanBook.** `BookInv` is inductive: the table is what its history says, its
keys are in lower case, and so are those of the statements under way
(`CallInv`), without which a statement could write a second row for a bag; and a
statement sees no row younger than itself, so that a row it puts in anew only
moves towards the first page;
`CommitEffect` says what a statement leaves. Theorems `BookSound`,
`HistoryAlwaysTells`. Paging: ranks tell the entries of a table apart (`Apart`);
an entry beyond a page has a full page before it (`FullPage`); what is still
owed to a reader ranks behind what it has seen, but for as many entries as were
taken out (`Owed`), which one page keeps (`PageOwes`) and so does any change of
the table, one that moves rows to the front included (`ChangeOwes`,
`CommitMoves`); hence `PagesMissNoMoreEver`. Tokens: `MapTells` is an
induction over the list that `New` goes through, and `OnlyGrantedEver` follows.

**NatRecursion.** The provers cannot instantiate an induction theorem that
takes a predicate. `NatSetInduction` is induction for a set of numbers, from
the library's theorem that the subsets of a finite set are well-founded, and
`RecursionOnNat` is the existence of a function defined by recursion.
They are used for the loop of `New` (`BanBookProofs`), for `filepath.Clean`
(`GatewayProofs`) and for the loop over `freeUnsafe` (`RemoteClientProofs`).

Only model-checked: the liveness properties (`CallsReturn`, `UnbanHeals`,
`ExpiredAreCollected`, `Answered`, `FeederEnds`, `ReaderEnds`, `DrainEnds`),
since the prover has no fairness. Every other property of a passing run is
stated by a theorem.

## 6. Disagreements

**An unban may have no effect.** The API collection documents an update's
status as "true = забанить, false = разбанить (required)"
(`bruno-collection/bans/Update Ban Status.bru:51`): false unbans. Run
`unban_effect` shows an execution without any failure in which it does not: a
request reads the row; an administrator's unban deletes it and releases the key
from the ban cache; the request then stores the ban it has read
(`pkg/repositories/files/cache.go:32`). All calls have returned, the table has
no row, and the bag is refused for up to an hour, by each request from the
cache. `BanWindow` is the bound that does hold.

**The cache of opened bags may exceed its limit for ever.** The configuration
sets `REMOTE_TON_STORAGE_CACHE_MAX_ENTRIES=1000` (`deploy/.env.example:32`).
Run `aliased_keys`: a bag is cached under a key that is a view of a request's
buffer; the buffer comes to hold another id; when the limit is exceeded
`freeUnsafe` picks that entry as the oldest, looks up the text of its key,
finds nothing under it, deletes nothing (`cache.go:114`) and returns true
(`cache.go:118`). The loop of `Set` does not end, and it holds the mutex of the
cache. With `Capitals = {TRUE}`, when every key is a copy, the property holds.

**A path that is not there times out.** The API collection lists "file not
found" under "Error (404)" (`bruno-collection/gateway/Get File or
Directory.bru:49-58`). Run `missing_path`: the remote listing is there, the
path is not in it, `getFromRemoteStorage` returns 404 with the number of peers,
and `mapPathInfoError` (`pkg/httpServer/helpers.go:124`) makes it a 408 "found
N peers, but request timed out".

Besides these, the modules contain the following as the code has it. No
document says otherwise, so no run expects a violation; a reader of the code may
want to know.

* The history entry of an unban names the administrator who banned, since the
  trigger logs the deleted row (`BanBook`).
* A body that bans and unbans one bag may give its row a new `created_at`, with
  an unban and a ban in the history; a client that pages through the bans may
  then miss it although the bag is banned before and after (`BanBook`).
* A local file whose name ends in a blank can be found, by a path that goes on
  with `/.`, and is then opened under the trimmed name: the answer is a 404, or
  the file of that name (`TheFoundIsOpened`).
* An entry of the token list with empty words ("hash:") grants nothing, while a
  list of no words at all grants everything (`AccessTokens`); and
  `deploy/.env.example` puts a token where the code compares MD5 hashes.
* The daemon is asked for a bag's listing only (`AddBag` without `downloadAll`).
  A file that is listed locally and not on disk is answered 404; the remote
  branch is not tried (`Gateway`).
* A folder whose one file has its name is taken for that file by the local
  branch; the remote branch fails on one whose name ends in that file's; a path
  with a slash in front works locally and is a 500 remotely (`AnswersTheBag`).
* A name with `+`, an escape or outer blanks does not survive the way from a
  listing's link back to a path (`LinksLead`).
* A local file that is there and cannot be looked at ends the process, as no
  middleware recovers (`Gateway`, the step `Stat`).

## 7. Not modelled

* The rate limiter and the health route: a library's decision per request, and
  a constant answer.
* Markup, icons and the sandboxed frame of `templates` and `iframewrap`: text
  that no property is about. The content types and the links of a listing are in
  `Gateway`, and that a page is wrapped at all.
* Metrics and logging, but for the gauge of open streams, which counts in
  `RemoteStream`.
* What `loadConfig` parses (only that it may fail), deployment files and the API
  collection, which are read for what they say of the code.
* `?` and `#` in names: the links of a listing are URLs, and a browser cuts them
  there. A name with either is like one with an escape in it: its link leads
  elsewhere, and `LinksLead` promises nothing for it.
* The requests of the storage daemon's HTTP client, beyond their outcomes in
  `FilesService`: encoding and basic authentication.
* The error path for a missing header stops the torrent and drops a downloader
  that is open (`client.go:297`): `RemoteClient` has the step, and no property
  says the downloader is closed, because it is not.
* What `getTorrent` does with a bag id that is no hexadecimal number
  (`client.go:253-257`): `validateBagID` has made sure that it is one
  (`httpServer/helpers.go:69-83`). And the number of peers that is read from a
  torrent which was stopped after a timeout (`client.go:73-78`, `182-186`): it
  changes no state, and `FilesService` takes any number.
* The moment in which a newcomer to a `sync.Mutex` spins while its holder lets
  it go, so that nobody is woken: it is below a microsecond, and leads where a
  newcomer that overtakes does.
* Keys that alias a buffer, in `FreeLoop`: bags are values there, so that
  `FreedIsTheLoop` says nothing of the loop that does not end in section 6. That
  is `LimitIsRestored`, over `AliasedKeys`.
* A bag that the daemon has with its header and without its files goes on to the
  remote client (`StillNotThere`). It is answered from there, and no property
  says that the daemon should have served it.
* The maps of per-bag locks and the virtual storage only grow, by design; there
  is no promise to check.
