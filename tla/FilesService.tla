----------------------------- MODULE FilesService -----------------------------
(***************************************************************************)
(* GetPathInfo of the files service, after the ban check of module         *)
(* Moderation: look in the local storage daemon, have the daemon fetch the *)
(* bag and wait for its header, look again, fall back to the remote client *)
(* (pkg/services/files/service.go), and the code the handler answers with  *)
(* (pkg/httpServer/helpers.go, mapPathInfoError).                          *)
(*                                                                         *)
(* A call to the daemon takes up to CallTime (the 15 seconds of its http   *)
(* client); what it returns is what the daemon knows at the last moment of *)
(* the call.  Time passes in ticks of more than a millisecond; delays of   *)
(* the Go scheduler are below one.                                         *)
(*                                                                         *)
(* A bag's mutex is a sync.Mutex.  Unlock wakes the waiter in front, which *)
(* competes with the requests that come to a free lock and may find it     *)
(* taken; when it has waited for a millisecond by then, the mutex is       *)
(* starving: it goes from hand to hand in the order of its waiters, and    *)
(* newcomers queue behind them.  Left out: the moment, below a             *)
(* microsecond, in which a newcomer spins on a lock while it is released,  *)
(* and nobody is woken.                                                    *)
(***************************************************************************)
EXTENDS Integers, Sequences, FiniteSets

CONSTANTS
  Requests,
  Bags, NoBag,
  Asked,          \* what the paths asked for are in their bags, see Kinds
  CallTime,       \* how long a call to the daemon may take
  HeaderTimeout,  \* BagHeaderLoadTimeout
  PollInterval    \* BagHeaderLoadPollInterval

ASSUME FilesAssumption ==
  /\ NoBag \notin Bags
  /\ Asked \subseteq {"folder", "file", "missing"}
  /\ CallTime \in Nat /\ HeaderTimeout \in Nat /\ PollInterval \in Nat \ {0}

VARIABLES
  daemon,    \* daemon[b]: what the daemon has of b, see Holdings
  stopping,  \* the server shuts down: every request's context is done
  pc,        \* pc[r]: the step of GetPathInfo r is at
  bag,       \* bag[r]: the argument bagID
  kind,      \* kind[r]: what the bag has at the argument path
  queue,     \* queue[b]: who holds ensureLocks[b], then who waits for it
  mutex,     \* mutex[b]: the mode ensureLocks[b] is in, see Modes
  spent,     \* spent[r]: time since r's call to the daemon or sleep began
  left,      \* left[r]: time left until the deadline of r's poll
  answer,    \* answer[r]: what r is told in the end
  waited,    \* waited[r]: how long r has waited for the lock
  ahead,     \* ahead[r]: how many were before r when it began to wait
  kept       \* kept[b]: how long the lock of b has been held

timers == <<spent, left, waited, ahead, kept>>
vars == <<daemon, stopping, pc, bag, kind, queue, mutex, answer, timers>>

(* absent; added, header not loaded; header loaded, no file known; files. *)
Holdings == {"absent", "added", "header", "files"}
(* Its first waiter sleeps; is woken; is handed the lock by its holder.    *)
Modes == {"normal", "woken", "starving"}
Kinds == {"folder", "file", "missing"}   \* of what a bag has at a path
Calls == {"local", "add", "check", "poll", "again"}
Ensuring == {"add", "check", "poll", "sleep"}
Inside == Ensuring \cup {"wait"}
Steps == Calls \cup {"idle", "wait", "sleep", "remote", "stream"}
Answers == [code : {0, 200, 404, 408, 413, 500},
            cause : {"none", "ok", "bag", "path", "timeout", "size", "stream"}]
NoAnswer == [code |-> 0, cause |-> "none"]

TypeOK ==
  /\ daemon \in [Bags -> Holdings]
  /\ stopping \in BOOLEAN
  /\ pc \in [Requests -> Steps]
  /\ bag \in [Requests -> Bags \cup {NoBag}]
  /\ kind \in [Requests -> Kinds]
  /\ queue \in [Bags -> Seq(Requests)]
  /\ mutex \in [Bags -> Modes]
  /\ spent \in [Requests -> Nat]
  /\ left \in [Requests -> Int]
  /\ answer \in [Requests -> Answers]
  /\ waited \in [Requests -> Nat]
  /\ ahead \in [Requests -> Nat]
  /\ kept \in [Bags -> Nat]

Init ==
  /\ daemon \in [Bags -> Holdings]
  /\ stopping = FALSE
  /\ pc = [r \in Requests |-> "idle"]
  /\ bag = [r \in Requests |-> NoBag]
  /\ kind = [r \in Requests |-> "missing"]
  /\ queue = [b \in Bags |-> <<>>]
  /\ mutex = [b \in Bags |-> "normal"]
  /\ spent = [r \in Requests |-> 0]
  /\ left = [r \in Requests |-> 0]
  /\ answer = [r \in Requests |-> NoAnswer]
  /\ waited = [r \in Requests |-> 0]
  /\ ahead = [r \in Requests |-> 0]
  /\ kept = [b \in Bags |-> 0]

-----------------------------------------------------------------------------
(* What GetBag may return to r: what the daemon has, or an error.          *)
Told(r) == {daemon[bag[r]], "error"}
HeaderLoaded(told) == told \in {"header", "files"}

(* r goes on to `step`, where its timer starts. *)
Goto(r, step) ==
  /\ pc' = [pc EXCEPT ![r] = step]
  /\ spent' = [spent EXCEPT ![r] = 0]

Reply(r, code, cause) ==
  /\ Goto(r, "idle")
  /\ bag' = [bag EXCEPT ![r] = NoBag]
  /\ answer' = [answer EXCEPT ![r] = [code |-> code, cause |-> cause]]

Ask(r, b, k) ==
  /\ pc[r] = "idle" /\ ~stopping
  /\ bag' = [bag EXCEPT ![r] = b]
  /\ kind' = [kind EXCEPT ![r] = k]
  /\ answer' = [answer EXCEPT ![r] = NoAnswer]
  /\ Goto(r, "local")
  /\ UNCHANGED <<daemon, stopping, queue, mutex, left, waited, ahead, kept>>

(* getFromLocalStorage finds the path in a listing the daemon returned. *)
FoundLocally(r, told) == told = "files" /\ kind[r] # "missing"

LocalHit(r) ==
  /\ pc[r] \in {"local", "again"}
  /\ \E told \in Told(r) : FoundLocally(r, told)
  /\ Reply(r, 200, "ok")
  /\ UNCHANGED <<daemon, stopping, kind, queue, mutex, left, waited, ahead, kept>>

(* The first look-up fails, whatever the reason: on to the bag's lock.     *)
Missed(r) == pc[r] = "local" /\ \E told \in Told(r) : ~FoundLocally(r, told)

-----------------------------------------------------------------------------
(* Nobody holds the lock of b, though some may wait for it. *)
Free(b) == \A i \in DOMAIN queue[b] : pc[queue[b][i]] = "wait"

(* lock.Lock() takes a free lock at once, be there others who wait. *)
LockFree(r) ==
  /\ Missed(r) /\ Free(bag[r]) /\ mutex[bag[r]] # "starving"
  /\ queue' = [queue EXCEPT ![bag[r]] = <<r>> \o @]
  /\ Goto(r, "add")
  /\ UNCHANGED <<daemon, stopping, bag, kind, mutex, answer, left, waited, ahead, kept>>

(* ... or waits behind them all. *)
Queue(r) ==
  /\ Missed(r) /\ (~Free(bag[r]) \/ mutex[bag[r]] = "starving")
  /\ queue' = [queue EXCEPT ![bag[r]] = Append(@, r)]
  /\ ahead' = [ahead EXCEPT ![r] = Len(queue[bag[r]])]
  /\ waited' = [waited EXCEPT ![r] = 0]
  /\ Goto(r, "wait")
  /\ UNCHANGED <<daemon, stopping, bag, kind, mutex, answer, left, kept>>

(* The mode a waiter may leave behind that others have kept waiting: a     *)
(* tick is enough for it to starve, and less may be.                       *)
Starved(r) == IF waited[r] > 0 THEN {"starving"} ELSE {"normal", "starving"}

(* The woken waiter finds the lock taken, and waits on in front of the     *)
(* others.  Faulty variant: requests that try the lock again and again     *)
(* (TryLock), which never starve.                                          *)
PassedOverTries(r) ==
  /\ pc[r] = "wait" /\ mutex[bag[r]] = "woken" /\ ~Free(bag[r])
  /\ queue[bag[r]][2] = r
  /\ mutex' = [mutex EXCEPT ![bag[r]] = "normal"]
  /\ UNCHANGED <<daemon, stopping, pc, bag, kind, queue, answer, timers>>
PassedOver(r) ==
  /\ pc[r] = "wait" /\ mutex[bag[r]] = "woken" /\ ~Free(bag[r])
  /\ queue[bag[r]][2] = r
  /\ \E mode \in Starved(r) : mutex' = [mutex EXCEPT ![bag[r]] = mode]
  /\ UNCHANGED <<daemon, stopping, pc, bag, kind, queue, answer, timers>>

(* lock.Lock() returns to the request in front.  The mutex goes on         *)
(* starving only for those who wait behind one that starved.               *)
Acquire(r) ==
  /\ pc[r] = "wait" /\ Head(queue[bag[r]]) = r
  /\ \E mode \in IF mutex[bag[r]] = "starving" /\ Len(queue[bag[r]]) > 1
                    THEN Starved(r) ELSE {"normal"} :
       mutex' = [mutex EXCEPT ![bag[r]] = mode]
  /\ waited' = [waited EXCEPT ![r] = 0]
  /\ ahead' = [ahead EXCEPT ![r] = 0]
  /\ Goto(r, "add")
  /\ UNCHANGED <<daemon, stopping, bag, kind, queue, answer, left, kept>>

(* The mode lock.Unlock() leaves: a starving mutex is handed over, else    *)
(* the waiter in front is woken, unless it is awake already.               *)
Unlocked(b) ==
  IF Len(queue[b]) = 1 THEN "normal"
  ELSE IF mutex[b] = "starving" THEN "starving" ELSE "woken"

-----------------------------------------------------------------------------
(* The deadline is set when AddBag, and GetBag after its error, are done.  *)
BeginPoll(r) ==
  /\ left' = [left EXCEPT ![r] = HeaderTimeout]
  /\ Goto(r, "poll")
  /\ UNCHANGED <<stopping, bag, kind, queue, mutex, answer, waited, ahead, kept>>

(* AddBag returns without an error: the bag was added, or there already.   *)
BagAdded(r) ==
  /\ pc[r] = "add"
  /\ daemon' = [daemon EXCEPT ![bag[r]] = IF @ = "absent" THEN "added" ELSE @]
  /\ BeginPoll(r)

(* AddBag returns an error, before or after it had its effect. *)
AddFails(r) ==
  /\ pc[r] = "add"
  /\ \/ UNCHANGED daemon
     \/ daemon[bag[r]] = "absent" /\ daemon' = [daemon EXCEPT ![bag[r]] = "added"]
  /\ Goto(r, "check")
  /\ UNCHANGED <<stopping, bag, kind, queue, mutex, answer, left, waited, ahead, kept>>

(* ... but the daemon has the bag. *)
BagIsThere(r) ==
  /\ pc[r] = "check"
  /\ \E told \in Told(r) : told \notin {"absent", "error"}
  /\ BeginPoll(r)
  /\ UNCHANGED daemon

(* doEnsureBagInStorage returns: the lock is released, and the daemon is   *)
(* asked again only after a success.  Faulty variant: an error return that *)
(* skips the Unlock.                                                       *)
ReturnLocked(r, step) ==
  /\ Goto(r, step)
  /\ queue' = IF step = "remote" THEN queue ELSE [queue EXCEPT ![bag[r]] = Tail(@)]
  /\ mutex' = [mutex EXCEPT ![bag[r]] = IF step = "remote" THEN @ ELSE Unlocked(bag[r])]
  /\ left' = [left EXCEPT ![r] = 0]
  /\ kept' = [kept EXCEPT ![bag[r]] = 0]
  /\ UNCHANGED <<daemon, stopping, bag, kind, answer, waited, ahead>>
Return(r, step) ==
  /\ Goto(r, step)
  /\ queue' = [queue EXCEPT ![bag[r]] = Tail(@)]
  /\ mutex' = [mutex EXCEPT ![bag[r]] = Unlocked(bag[r])]
  /\ left' = [left EXCEPT ![r] = 0]
  /\ kept' = [kept EXCEPT ![bag[r]] = 0]
  /\ UNCHANGED <<daemon, stopping, bag, kind, answer, waited, ahead>>

CheckFails(r) ==
  /\ pc[r] = "check"
  /\ \E told \in Told(r) : told \in {"absent", "error"}
  /\ Return(r, "remote")

HeaderArrived(r) ==
  /\ pc[r] = "poll"
  /\ \E told \in Told(r) : HeaderLoaded(told)
  /\ Return(r, "again")

(* GetBag knows no header, and the deadline has passed (strictly). *)
GivesUp(r) ==
  /\ pc[r] = "poll" /\ left[r] < 0
  /\ \E told \in Told(r) : ~HeaderLoaded(told)
  /\ Return(r, "remote")

(* Faulty variant: the deadline starts anew with every answer.             *)
PollAgainAnew(r) ==
  /\ pc[r] = "poll" /\ left[r] >= 0
  /\ \E told \in Told(r) : ~HeaderLoaded(told)
  /\ Goto(r, "sleep")
  /\ left' = [left EXCEPT ![r] = HeaderTimeout]
  /\ UNCHANGED <<daemon, stopping, bag, kind, queue, mutex, answer, waited, ahead, kept>>
PollAgain(r) ==
  /\ pc[r] = "poll" /\ left[r] >= 0
  /\ \E told \in Told(r) : ~HeaderLoaded(told)
  /\ Goto(r, "sleep")
  /\ UNCHANGED <<daemon, stopping, bag, kind, queue, mutex, answer, left, waited, ahead, kept>>

Wake(r) ==
  /\ pc[r] = "sleep" /\ spent[r] = PollInterval
  /\ Goto(r, "poll")
  /\ UNCHANGED <<daemon, stopping, bag, kind, queue, mutex, answer, left, waited, ahead, kept>>

Cancelled(r) ==
  /\ pc[r] = "sleep" /\ stopping
  /\ Return(r, "remote")

-----------------------------------------------------------------------------
(* The second look-up fails: on to the remote client.  Faulty variant: the *)
(* local storage is tried again until it has the path.                     *)
StillNotThereRetries(r) ==
  /\ pc[r] = "again"
  /\ \E told \in Told(r) : ~FoundLocally(r, told)
  /\ Goto(r, "local")
  /\ UNCHANGED <<daemon, stopping, bag, kind, queue, mutex, answer, left, waited, ahead, kept>>
StillNotThere(r) ==
  /\ pc[r] = "again"
  /\ \E told \in Told(r) : ~FoundLocally(r, told)
  /\ Goto(r, "remote")
  /\ UNCHANGED <<daemon, stopping, bag, kind, queue, mutex, answer, left, waited, ahead, kept>>

(* mapPathInfoError: "not found" with peers becomes a timeout, every other *)
(* code stays.                                                             *)
Mapped(code, peers) == IF code = 404 /\ peers > 0 THEN 408 ELSE code

(* ListFiles fails: no time left, which comes with the number of peers; or *)
(* anything else, or there is no file in the bag, which comes without.     *)
ListFails(r) ==
  /\ pc[r] = "remote"
  /\ \/ \E peers \in {0, 1} : Reply(r, Mapped(408, peers), "timeout")
     \/ Reply(r, Mapped(404, 0), "bag")
  /\ UNCHANGED <<daemon, stopping, kind, queue, mutex, left, waited, ahead, kept>>

(* ListFiles returns the files: a folder is listed, a path that is not     *)
(* there is an error that carries the number of peers, a file may be too   *)
(* large.                                                                  *)
Listed(r) ==
  /\ pc[r] = "remote"
  /\ \/ kind[r] = "folder" /\ Reply(r, 200, "ok")
     \/ kind[r] = "missing" /\ \E peers \in {0, 1} : Reply(r, Mapped(404, peers), "path")
     \/ kind[r] = "file" /\ Reply(r, Mapped(413, 0), "size")
  /\ UNCHANGED <<daemon, stopping, kind, queue, mutex, left, waited, ahead, kept>>

ListedFile(r) ==
  /\ pc[r] = "remote" /\ kind[r] = "file"
  /\ Goto(r, "stream")
  /\ UNCHANGED <<daemon, stopping, bag, kind, queue, mutex, answer, left, waited, ahead, kept>>

(* streamRemoteFile. *)
Streamed(r) ==
  /\ pc[r] = "stream"
  /\ \/ Reply(r, 200, "ok")
     \/ \E peers \in {0, 1} : Reply(r, Mapped(408, peers), "timeout")
     \/ Reply(r, Mapped(500, 0), "stream")
  /\ UNCHANGED <<daemon, stopping, kind, queue, mutex, left, waited, ahead, kept>>

-----------------------------------------------------------------------------
(* The daemon finds the header, then the files; or forgets the bag.        *)
Fetched(b) ==
  /\ \/ daemon[b] = "added" /\ daemon' = [daemon EXCEPT ![b] = "header"]
     \/ daemon[b] = "header" /\ daemon' = [daemon EXCEPT ![b] = "files"]
  /\ UNCHANGED <<stopping, pc, bag, kind, queue, mutex, answer, timers>>

Forgotten(b) ==
  /\ daemon[b] # "absent"
  /\ daemon' = [daemon EXCEPT ![b] = "absent"]
  /\ UNCHANGED <<stopping, pc, bag, kind, queue, mutex, answer, timers>>

(* The shutdown of the HTTP server cancels the contexts of its requests.   *)
Stop ==
  /\ ~stopping /\ stopping' = TRUE
  /\ UNCHANGED <<daemon, pc, bag, kind, queue, mutex, answer, timers>>

(* One tick, unless a call or a sleep is over, a free lock is wanted or a  *)
(* waiter has just been woken.                                             *)
Tick ==
  /\ \A b \in Bags : mutex[b] # "woken"
  /\ \A r \in Requests :
       /\ pc[r] \in Calls => spent[r] < CallTime
       /\ pc[r] = "sleep" => spent[r] < PollInterval
       /\ pc[r] = "wait" => Head(queue[bag[r]]) # r
  /\ spent' = [r \in Requests |->
                 IF pc[r] \in Calls \cup {"sleep"} THEN spent[r] + 1 ELSE spent[r]]
  /\ left' = [r \in Requests |->
                IF pc[r] \in {"poll", "sleep"} THEN left[r] - 1 ELSE left[r]]
  /\ waited' = [r \in Requests |-> IF pc[r] = "wait" THEN waited[r] + 1 ELSE waited[r]]
  /\ kept' = [b \in Bags |-> IF queue[b] # <<>> THEN kept[b] + 1 ELSE kept[b]]
  /\ UNCHANGED <<daemon, stopping, pc, bag, kind, queue, mutex, answer, ahead>>

Lock(r) == LockFree(r) \/ Queue(r) \/ PassedOver(r) \/ Acquire(r)

Ensure(r) ==
  \/ BagAdded(r) \/ AddFails(r) \/ BagIsThere(r) \/ CheckFails(r)
  \/ HeaderArrived(r) \/ GivesUp(r) \/ PollAgain(r) \/ Wake(r) \/ Cancelled(r)

Fallback(r) == StillNotThere(r) \/ ListFails(r) \/ Listed(r) \/ ListedFile(r) \/ Streamed(r)

GetPathInfo(r) == LocalHit(r) \/ Lock(r) \/ Ensure(r) \/ Fallback(r)

Next ==
  \/ \E r \in Requests : GetPathInfo(r) \/ \E b \in Bags, k \in Asked : Ask(r, b, k)
  \/ \E b \in Bags : Fetched(b) \/ Forgotten(b)
  \/ Stop
  \/ Tick

Spec == Init /\ [][Next]_vars

(* A request that can go on does, since calls and sleeps end and a woken   *)
(* goroutine runs; and time passes, however often a tick must wait for     *)
(* what takes no time: requests that overtake a waiter do not do it for    *)
(* ever within a millisecond.                                              *)
FairSpec == Spec /\ SF_vars(Tick) /\ \A r \in Requests : WF_vars(GetPathInfo(r))

-----------------------------------------------------------------------------
(* The longest an ensure can take: AddBag, GetBag after its error, the     *)
(* polls until the deadline, and the sleep and the call that began just    *)
(* before it.                                                              *)
MaxHold == 3 * CallTime + HeaderTimeout + PollInterval

(* No request keeps the lock of a bag for longer, whatever the daemon      *)
(* answers and when (doEnsureBagInStorage).                                *)
HoldBounded == \A b \in Bags : kept[b] <= MaxHold

(* A request waits for the ensures before it and for one more, of those   *)
(* who came later and took the lock before it: each may fail, for each     *)
(* repeats what the one before it tried, and the wait grows with the       *)
(* crowd, but with nothing else (ensureBagInStorage).                      *)
WaitBounded ==
  \A r \in Requests : pc[r] = "wait" => waited[r] <= (ahead[r] + 1) * MaxHold

(* The lock of a bag is held by the first in its queue, everyone else in   *)
(* the queue waits, and nobody holds or waits for a lock without being in  *)
(* the queue, once (ensureBagInStorage).                                   *)
LineInv ==
  /\ \A b \in Bags : \A i \in DOMAIN queue[b] :
       /\ bag[queue[b][i]] = b
       /\ pc[queue[b][i]] = "wait" \/ (i = 1 /\ pc[queue[b][i]] \in Ensuring)
       /\ \A j \in DOMAIN queue[b] : queue[b][j] = queue[b][i] => j = i
  /\ \A r \in Requests :
       /\ pc[r] # "idle" => bag[r] \in Bags
       /\ pc[r] \in Inside =>
            \E i \in DOMAIN queue[bag[r]] : queue[bag[r]][i] = r

(* A free lock that is waited for is on its way to its first waiter, and   *)
(* only a lock that is waited for is; who is in front has waited longest.  *)
MutexInv(b) ==
  /\ mutex[b] = "normal" => queue[b] = <<>> \/ ~Free(b)
  /\ mutex[b] # "normal" => queue[b] # <<>> /\ (Free(b) \/ Len(queue[b]) > 1)
  /\ mutex[b] = "woken" => kept[b] = 0
  /\ \A i, j \in DOMAIN queue[b] :
       i <= j /\ pc[queue[b][i]] = "wait" /\ pc[queue[b][j]] = "wait"
         => waited[queue[b][j]] <= waited[queue[b][i]]

(* How long the lock has been held, by the step its holder is at.          *)
TimeInv ==
  /\ \A r \in Requests :
       /\ pc[r] \in Calls => spent[r] <= CallTime
       /\ pc[r] = "sleep" => spent[r] <= PollInterval /\ left[r] >= -spent[r]
       /\ pc[r] = "poll" => left[r] >= -PollInterval - spent[r]
       /\ pc[r] = "add" => kept[bag[r]] <= spent[r]
       /\ pc[r] = "check" => kept[bag[r]] <= CallTime + spent[r]
       /\ pc[r] \in {"poll", "sleep"} =>
            kept[bag[r]] <= 2 * CallTime + HeaderTimeout - left[r]
  /\ \A b \in Bags : Free(b) => kept[b] = 0

(* A newcomer has been let in before those who wait for b. *)
Overtaken(b) == mutex[b] = "starving" \/ (mutex[b] = "woken" /\ ~Free(b))

(* How long a request has waited, by how many of those before it are left, *)
(* the newcomer included.  A lock that nobody has been handed goes first   *)
(* to one of them or to a newcomer, and then the newcomer takes the place  *)
(* of the one who left.                                                    *)
CrowdInv(b) ==
  \A i \in DOMAIN queue[b] :
    LET r == queue[b][i]
        before == IF mutex[b] = "woken" /\ Free(b) THEN i ELSE i - 1
        spare == IF Overtaken(b) THEN 1 ELSE 0
    IN pc[r] = "wait" =>
         /\ before <= ahead[r]
         /\ waited[r] <= (ahead[r] + spare - (i - 1)) * MaxHold + kept[b]

EnsureInv ==
  TypeOK /\ LineInv /\ TimeInv /\ \A b \in Bags : MutexInv(b) /\ CrowdInv(b)

(* Every request is answered (GetPathInfo).                                *)
Answered == \A r \in Requests : pc[r] # "idle" ~> pc[r] = "idle"

(* A path that is not in the bag's listing is "not found" to the client.   *)
MissingIs404 == \A r \in Requests : answer[r].cause = "path" => answer[r].code = 404
=============================================================================
