-------------------------- MODULE FilesServiceProofs --------------------------
(***************************************************************************)
(* Proofs about FilesService, for any requests, bags, paths and times.     *)
(* EnsureInv is inductive; the bounds on holding and on waiting for a      *)
(* bag's lock follow from it.                                              *)
(***************************************************************************)
EXTENDS FilesService, SequenceTheorems, TLAPS

-----------------------------------------------------------------------------
(* A bag's queue as a sequence of requests. *)
LEMMA QueueSeq ==
  ASSUME TypeOK, NEW b \in Bags
  PROVE  /\ queue[b] \in Seq(Requests) /\ Len(queue[b]) \in Nat
         /\ DOMAIN queue[b] = 1..Len(queue[b])
         /\ \A i \in DOMAIN queue[b] : queue[b][i] \in Requests
         /\ queue[b] # <<>> <=> Len(queue[b]) >= 1
         /\ queue[b] # <<>> => Head(queue[b]) = queue[b][1]
<1>1. queue[b] \in Seq(Requests)
  BY DEF TypeOK
<1>2. Len(queue[b]) \in Nat /\ DOMAIN queue[b] = 1..Len(queue[b])
  BY <1>1, LenProperties
<1>3. \A i \in DOMAIN queue[b] : queue[b][i] \in Requests
  BY <1>1, <1>2, ElementOfSeq
<1>4. queue[b] # <<>> <=> Len(queue[b]) >= 1
  BY <1>1, <1>2, EmptySeq
<1> QED  BY <1>1, <1>2, <1>3, <1>4

(* Who is inside ensureBagInStorage is first in its bag's queue. *)
LEMMA HolderIsFirst ==
  ASSUME TypeOK, LineInv, NEW r \in Requests, pc[r] \in Ensuring
  PROVE  /\ bag[r] \in Bags
         /\ queue[bag[r]] # <<>> /\ queue[bag[r]][1] = r /\ Head(queue[bag[r]]) = r
<1>1. bag[r] \in Bags /\ \E i \in DOMAIN queue[bag[r]] : queue[bag[r]][i] = r
  BY DEF LineInv, Ensuring, Inside
<1>2. PICK i \in DOMAIN queue[bag[r]] : queue[bag[r]][i] = r
  BY <1>1
<1>3. i = 1
  BY <1>1, <1>2 DEF LineInv, Ensuring
<1> QED  BY <1>1, <1>2, <1>3, QueueSeq

(* ... and the only one inside for this bag. *)
LEMMA OneEnsurer ==
  ASSUME TypeOK, LineInv, NEW r \in Requests, NEW s \in Requests,
         pc[r] \in Ensuring, pc[s] \in Ensuring, bag[r] = bag[s]
  PROVE  r = s
BY HolderIsFirst

(* When the request in front waits, the lock is free. *)
LEMMA FrontWaits ==
  ASSUME TypeOK, LineInv, NEW r \in Requests, Acquire(r)
  PROVE  /\ bag[r] \in Bags /\ 1 \in DOMAIN queue[bag[r]] /\ queue[bag[r]][1] = r
         /\ Free(bag[r]) /\ queue[bag[r]] # <<>>
<1>1. bag[r] \in Bags /\ \E i \in DOMAIN queue[bag[r]] : queue[bag[r]][i] = r
  BY DEF Acquire, LineInv, Inside
<1>2. queue[bag[r]] # <<>> /\ 1 \in DOMAIN queue[bag[r]] /\ queue[bag[r]][1] = r
  BY <1>1, QueueSeq DEF Acquire
<1>3. Free(bag[r])
  BY <1>1, <1>2 DEF Acquire, LineInv, Free, Ensuring
<1> QED  BY <1>1, <1>2, <1>3

(* The numbers of a state. *)
LEMMA Numbers ==
  ASSUME TypeOK
  PROVE  /\ \A r \in Requests : spent[r] \in Nat /\ left[r] \in Int
                                /\ waited[r] \in Nat /\ ahead[r] \in Nat
         /\ \A b \in Bags : kept[b] \in Nat
BY DEF TypeOK

LEMMA MaxHoldNat == MaxHold \in Nat
BY FilesAssumption DEF MaxHold

-----------------------------------------------------------------------------
(* Types *)
LEMMA GotoType ==
  ASSUME TypeOK, NEW r \in Requests, NEW step \in Steps, Goto(r, step)
  PROVE  pc' \in [Requests -> Steps] /\ spent' \in [Requests -> Nat]
BY DEF TypeOK, Goto

LEMMA ReplyType ==
  ASSUME TypeOK, NEW r \in Requests,
         NEW code \in {200, 404, 408, 413, 500},
         NEW cause \in {"ok", "bag", "path", "timeout", "size", "stream"},
         Reply(r, code, cause)
  PROVE  /\ pc' \in [Requests -> Steps] /\ spent' \in [Requests -> Nat]
         /\ bag' \in [Requests -> Bags \cup {NoBag}]
         /\ answer' \in [Requests -> Answers]
<1>1. [code |-> code, cause |-> cause] \in Answers
  BY DEF Answers
<1>2. answer' \in [Requests -> Answers]
  BY <1>1 DEF TypeOK, Reply
<1> QED  BY <1>2 DEF TypeOK, Reply, Goto, Steps

LEMMA MappedCode ==
  ASSUME NEW code \in {200, 404, 408, 413, 500}, NEW peers
  PROVE  Mapped(code, peers) \in {200, 404, 408, 413, 500}
BY DEF Mapped

LEMMA TypeStep ==
  ASSUME TypeOK, LineInv, [Next]_vars
  PROVE  TypeOK'
<1> USE DEF vars, timers
<1>1. ASSUME NEW r \in Requests, NEW b \in Bags, NEW k \in Asked, Ask(r, b, k)
      PROVE  TypeOK'
  BY <1>1, FilesAssumption DEF TypeOK, Ask, Goto, Steps, Kinds, Answers, NoAnswer, Calls
<1>2. ASSUME NEW r \in Requests, LocalHit(r)  PROVE TypeOK'
  <2>1. Reply(r, 200, "ok")
    BY <1>2 DEF LocalHit
  <2>2. /\ pc' \in [Requests -> Steps] /\ spent' \in [Requests -> Nat]
        /\ bag' \in [Requests -> Bags \cup {NoBag}]
        /\ answer' \in [Requests -> Answers]
    BY <2>1, ReplyType
  <2> QED  BY <1>2, <2>2 DEF TypeOK, LocalHit
<1>3. ASSUME NEW r \in Requests, Queue(r)  PROVE TypeOK'
  <2>1. bag[r] \in Bags
    BY <1>3 DEF Queue, Missed, LineInv
  <2>2. Append(queue[bag[r]], r) \in Seq(Requests) /\ Len(queue[bag[r]]) \in Nat
    BY <2>1, QueueSeq, AppendProperties
  <2>3. pc' \in [Requests -> Steps] /\ spent' \in [Requests -> Nat]
    BY <1>3, GotoType DEF Queue, Steps
  <2>4. queue' \in [Bags -> Seq(Requests)] /\ ahead' \in [Requests -> Nat]
    BY <1>3, <2>1, <2>2 DEF TypeOK, Queue
  <2> QED  BY <1>3, <2>3, <2>4 DEF TypeOK, Queue
<1>4. ASSUME NEW r \in Requests, Acquire(r)  PROVE TypeOK'
  <2>1. mutex' \in [Bags -> Modes]
    BY <1>4 DEF TypeOK, Acquire, Starved, Modes
  <2> QED  BY <1>4, <2>1 DEF TypeOK, Acquire, Goto, Steps, Calls
<1>14. ASSUME NEW r \in Requests, PassedOver(r)  PROVE TypeOK'
  <2>1. mutex' \in [Bags -> Modes]
    BY <1>14 DEF TypeOK, PassedOver, Starved, Modes
  <2> QED  BY <1>14, <2>1 DEF TypeOK, PassedOver
<1>15. ASSUME NEW r \in Requests, LockFree(r)  PROVE TypeOK'
  <2>1. bag[r] \in Bags
    BY <1>15 DEF LockFree, Missed, LineInv
  <2>2. <<r>> \o queue[bag[r]] \in Seq(Requests)
    BY <2>1, QueueSeq, ConcatProperties
  <2>3. pc' \in [Requests -> Steps] /\ spent' \in [Requests -> Nat]
    BY <1>15, GotoType DEF LockFree, Steps, Calls
  <2>4. queue' \in [Bags -> Seq(Requests)]
    BY <1>15, <2>1, <2>2 DEF TypeOK, LockFree
  <2> QED  BY <1>15, <2>3, <2>4 DEF TypeOK, LockFree
<1>5. ASSUME NEW r \in Requests, BagAdded(r) \/ BagIsThere(r)  PROVE TypeOK'
  <2>1. pc' \in [Requests -> Steps] /\ spent' \in [Requests -> Nat]
    BY <1>5, GotoType DEF BagAdded, BagIsThere, BeginPoll, Steps, Calls
  <2>2. left' \in [Requests -> Int]
    BY <1>5, FilesAssumption DEF TypeOK, BagAdded, BagIsThere, BeginPoll
  <2>3. daemon' \in [Bags -> Holdings]
    BY <1>5 DEF TypeOK, BagAdded, BagIsThere, Holdings
  <2> QED  BY <1>5, <2>1, <2>2, <2>3 DEF TypeOK, BagAdded, BagIsThere, BeginPoll
<1>6. ASSUME NEW r \in Requests, AddFails(r)  PROVE TypeOK'
  BY <1>6 DEF TypeOK, AddFails, Goto, Steps, Calls, Holdings
<1>7. ASSUME NEW r \in Requests, NEW step \in {"again", "remote"}, Return(r, step),
             pc[r] \in Ensuring
      PROVE  TypeOK'
  <2>1. bag[r] \in Bags /\ queue[bag[r]] \in Seq(Requests) /\ queue[bag[r]] # <<>>
    BY <1>7, HolderIsFirst, QueueSeq
  <2>2. Tail(queue[bag[r]]) \in Seq(Requests)
    BY <2>1, HeadTailProperties
  <2>3. pc' \in [Requests -> Steps] /\ spent' \in [Requests -> Nat]
    BY <1>7, GotoType DEF Return, Steps, Calls
  <2>4. queue' \in [Bags -> Seq(Requests)]
    BY <1>7, <2>1, <2>2 DEF TypeOK, Return
  <2>5. left' \in [Requests -> Int]
    BY <1>7 DEF TypeOK, Return
  <2>6. kept' \in [Bags -> Nat]
    BY <1>7 DEF TypeOK, Return
  <2>7. mutex' \in [Bags -> Modes]
    BY <1>7 DEF TypeOK, Return, Unlocked, Modes
  <2> QED  BY <1>7, <2>3, <2>4, <2>5, <2>6, <2>7 DEF TypeOK, Return
<1>8. ASSUME NEW r \in Requests, PollAgain(r) \/ Wake(r)  PROVE TypeOK'
  <2>1. pc' \in [Requests -> Steps] /\ spent' \in [Requests -> Nat]
    BY <1>8, GotoType DEF PollAgain, Wake, Steps, Calls
  <2> QED  BY <1>8, <2>1 DEF TypeOK, PollAgain, Wake
<1>9. ASSUME NEW r \in Requests, StillNotThere(r) \/ ListedFile(r)  PROVE TypeOK'
  <2>1. pc' \in [Requests -> Steps] /\ spent' \in [Requests -> Nat]
    BY <1>9, GotoType DEF StillNotThere, ListedFile, Steps
  <2> QED  BY <1>9, <2>1 DEF TypeOK, StillNotThere, ListedFile
<1>10. ASSUME NEW r \in Requests, ListFails(r) \/ Listed(r) \/ Streamed(r)
       PROVE  TypeOK'
  <2>1. PICK code \in {200, 404, 408, 413, 500},
             cause \in {"ok", "bag", "path", "timeout", "size", "stream"} :
          Reply(r, code, cause)
    BY <1>10, MappedCode DEF ListFails, Listed, Streamed
  <2>2. /\ pc' \in [Requests -> Steps] /\ spent' \in [Requests -> Nat]
        /\ bag' \in [Requests -> Bags \cup {NoBag}]
        /\ answer' \in [Requests -> Answers]
    BY <2>1, ReplyType
  <2>3. UNCHANGED <<daemon, stopping, kind, queue, mutex, left, waited, ahead, kept>>
    BY <1>10 DEF ListFails, Listed, Streamed
  <2> QED  BY <2>2, <2>3 DEF TypeOK
<1>11. ASSUME NEW b \in Bags, Fetched(b) \/ Forgotten(b)  PROVE TypeOK'
  BY <1>11 DEF TypeOK, Fetched, Forgotten, Holdings
<1>12. CASE Stop \/ UNCHANGED vars
  BY <1>12 DEF TypeOK, Stop
<1>13. CASE Tick
  BY <1>13 DEF TypeOK, Tick
<1> QED
  BY <1>1, <1>2, <1>3, <1>4, <1>5, <1>6, <1>7, <1>8, <1>9, <1>10, <1>11, <1>12, <1>13,
     <1>14, <1>15
  DEF Next, GetPathInfo, Lock, Ensure, Fallback, CheckFails, HeaderArrived, GivesUp,
      Cancelled, Ensuring

-----------------------------------------------------------------------------
(* The queues.  Four kinds of steps: of a request that is not inside an    *)
(* ensure and does not enter one; of the first in the queue; out of the    *)
(* queue; into the queue.                                                  *)
LEMMA LineOutside ==
  ASSUME TypeOK, LineInv, NEW r \in Requests, pc[r] \notin Inside,
         NEW step \in Steps \ Inside, pc' = [pc EXCEPT ![r] = step],
         NEW b \in Bags \cup {NoBag}, bag' = [bag EXCEPT ![r] = b],
         step # "idle" => b \in Bags, queue' = queue
  PROVE  LineInv'
<1>1. \A c \in Bags : \A i \in DOMAIN queue[c] :
        /\ queue[c][i] \in Requests /\ queue[c][i] # r
        /\ pc'[queue[c][i]] = pc[queue[c][i]] /\ bag'[queue[c][i]] = bag[queue[c][i]]
  BY QueueSeq DEF TypeOK, LineInv, Inside
<1>2. \A s \in Requests : /\ s # r => pc'[s] = pc[s] /\ bag'[s] = bag[s]
                          /\ pc'[r] = step /\ bag'[r] = b
  BY DEF TypeOK
<1>3. \A c \in Bags : \A i \in DOMAIN queue'[c] :
        /\ bag'[queue'[c][i]] = c
        /\ pc'[queue'[c][i]] = "wait" \/ (i = 1 /\ pc'[queue'[c][i]] \in Ensuring)
        /\ \A j \in DOMAIN queue'[c] : queue'[c][j] = queue'[c][i] => j = i
  BY <1>1 DEF LineInv
<1>4. \A s \in Requests :
        /\ pc'[s] # "idle" => bag'[s] \in Bags
        /\ pc'[s] \in Inside => \E i \in DOMAIN queue'[bag'[s]] : queue'[bag'[s]][i] = s
  BY <1>2 DEF LineInv
<1> QED  BY <1>3, <1>4 DEF LineInv

LEMMA LineFirst ==
  ASSUME TypeOK, LineInv, NEW r \in Requests, pc[r] \in Inside,
         Head(queue[bag[r]]) = r,
         NEW step \in Ensuring, pc' = [pc EXCEPT ![r] = step],
         bag' = bag, queue' = queue
  PROVE  LineInv'
<1>1. bag[r] \in Bags /\ queue[bag[r]] # <<>>
  <2>1. bag[r] \in Bags /\ \E i \in DOMAIN queue[bag[r]] : queue[bag[r]][i] = r
    BY DEF LineInv, Inside, Ensuring
  <2> QED  BY <2>1, QueueSeq
<1>2. queue[bag[r]][1] = r /\ 1 \in DOMAIN queue[bag[r]]
  BY <1>1, QueueSeq
<1>3. \A c \in Bags : \A i \in DOMAIN queue[c] : queue[c][i] = r => i = 1
  BY <1>1, <1>2 DEF LineInv
<1>4. \A s \in Requests : pc'[s] = IF s = r THEN step ELSE pc[s]
  BY DEF TypeOK
<1>5. \A c \in Bags : \A i \in DOMAIN queue[c] :
        pc'[queue[c][i]] = "wait" \/ (i = 1 /\ pc'[queue[c][i]] \in Ensuring)
  BY <1>3, <1>4, QueueSeq DEF LineInv
<1>6. \A s \in Requests :
        /\ pc'[s] # "idle" => pc[s] # "idle"
        /\ pc'[s] \in Inside => pc[s] \in Inside
  BY <1>4 DEF Inside, Ensuring
<1> QED  BY <1>5, <1>6 DEF LineInv

LEMMA LineReturn ==
  ASSUME TypeOK, LineInv, NEW r \in Requests, pc[r] \in Ensuring,
         NEW step \in {"again", "remote"}, Return(r, step)
  PROVE  LineInv'
<1> DEFINE b == bag[r]
           q == queue[b]
<1>1. b \in Bags /\ q # <<>> /\ q[1] = r /\ q \in Seq(Requests)
      /\ Len(q) \in Nat /\ Len(q) >= 1 /\ DOMAIN q = 1..Len(q)
  BY HolderIsFirst, QueueSeq
<1>2. queue' = [queue EXCEPT ![b] = Tail(q)] /\ bag' = bag
      /\ pc' = [pc EXCEPT ![r] = step]
  BY DEF Return, Goto
<1>3. /\ DOMAIN Tail(q) = 1..(Len(q) - 1)
      /\ \A i \in DOMAIN Tail(q) : i + 1 \in DOMAIN q /\ Tail(q)[i] = q[i + 1]
  BY <1>1
<1>4. queue'[b] = Tail(q) /\ \A c \in Bags : c # b => queue'[c] = queue[c]
  BY <1>1, <1>2 DEF TypeOK
<1>5. \A s \in Requests : pc'[s] = IF s = r THEN step ELSE pc[s]
  BY <1>2 DEF TypeOK
<1>6. \A c \in Bags : \A i \in DOMAIN queue'[c] :
        /\ bag[queue'[c][i]] = c
        /\ pc'[queue'[c][i]] = "wait" \/ (i = 1 /\ pc'[queue'[c][i]] \in Ensuring)
        /\ \A j \in DOMAIN queue'[c] : queue'[c][j] = queue'[c][i] => j = i
  <2> SUFFICES ASSUME NEW c \in Bags, NEW i \in DOMAIN queue'[c]
               PROVE  /\ bag[queue'[c][i]] = c
                      /\ \/ pc'[queue'[c][i]] = "wait"
                         \/ i = 1 /\ pc'[queue'[c][i]] \in Ensuring
                      /\ \A j \in DOMAIN queue'[c] : queue'[c][j] = queue'[c][i] => j = i
    OBVIOUS
  <2>1. CASE c # b
    <3>1. queue'[c] = queue[c] /\ bag[queue[c][i]] = c /\ queue[c][i] \in Requests
      BY <2>1, <1>4, QueueSeq DEF LineInv
    <3>2. queue[c][i] # r
      BY <3>1, <2>1
    <3> QED  BY <3>1, <3>2, <1>5 DEF LineInv
  <2>2. CASE c = b
    <3>1. i \in DOMAIN Tail(q) /\ i + 1 \in DOMAIN q /\ i + 1 # 1
          /\ queue'[c][i] = q[i + 1] /\ q[i + 1] \in Requests
      BY <2>2, <1>1, <1>3, <1>4, QueueSeq
    <3>2. pc[q[i + 1]] = "wait" /\ bag[q[i + 1]] = b /\ q[i + 1] # r
      BY <3>1, <1>1 DEF LineInv, Ensuring
    <3>3. \A j \in DOMAIN Tail(q) : Tail(q)[j] = q[i + 1] => j = i
      <4> SUFFICES ASSUME NEW j \in DOMAIN Tail(q), Tail(q)[j] = q[i + 1]  PROVE j = i
        OBVIOUS
      <4>1. j + 1 \in DOMAIN q /\ q[j + 1] = q[i + 1]
        BY <1>3
      <4>2. j + 1 = i + 1
        BY <4>1, <3>1, <1>1 DEF LineInv
      <4> QED  BY <4>2, <3>1, <1>1, <1>3
    <3> QED  BY <3>1, <3>2, <3>3, <2>2, <1>4, <1>5
  <2> QED  BY <2>1, <2>2
<1>7. \A s \in Requests :
        /\ pc'[s] # "idle" => bag[s] \in Bags
        /\ pc'[s] \in Inside => \E i \in DOMAIN queue'[bag[s]] : queue'[bag[s]][i] = s
  <2> SUFFICES ASSUME NEW s \in Requests
               PROVE  /\ pc'[s] # "idle" => bag[s] \in Bags
                      /\ pc'[s] \in Inside =>
                           \E i \in DOMAIN queue'[bag[s]] : queue'[bag[s]][i] = s
    OBVIOUS
  <2>1. CASE s = r
    BY <2>1, <1>1, <1>5 DEF Inside, Ensuring
  <2>2. CASE s # r /\ pc[s] \in Inside
    <3>1. bag[s] \in Bags
      BY <2>2 DEF LineInv, Inside, Ensuring
    <3>2. PICK i \in DOMAIN queue[bag[s]] : queue[bag[s]][i] = s
      BY <2>2 DEF LineInv
    <3>3. CASE bag[s] # b
      BY <3>1, <3>2, <3>3, <1>4
    <3>4. CASE bag[s] = b
      <4>1. i \in 1..Len(q) /\ i # 1
        BY <3>2, <3>4, <2>2, <1>1
      <4>2. i - 1 \in DOMAIN Tail(q) /\ Tail(q)[i - 1] = s
        BY <4>1, <1>1, <1>3, <3>2, <3>4
      <4> QED  BY <4>2, <3>1, <3>4, <1>4
    <3> QED  BY <3>1, <3>3, <3>4
  <2>3. CASE s # r /\ pc[s] \notin Inside
    BY <2>3, <1>5 DEF LineInv
  <2> QED  BY <2>1, <2>2, <2>3
<1> QED  BY <1>2, <1>6, <1>7 DEF LineInv

LEMMA LineQueue ==
  ASSUME TypeOK, LineInv, NEW r \in Requests, Queue(r)
  PROVE  LineInv'
<1> DEFINE b == bag[r]
           q == queue[b]
<1>1. b \in Bags /\ q \in Seq(Requests) /\ Len(q) \in Nat /\ DOMAIN q = 1..Len(q)
      /\ \A i \in DOMAIN q : q[i] \in Requests
  <2>1. b \in Bags
    BY DEF Queue, Missed, LineInv
  <2> QED  BY <2>1, QueueSeq
<1>2. queue' = [queue EXCEPT ![b] = Append(q, r)] /\ bag' = bag
      /\ pc' = [pc EXCEPT ![r] = "wait"] /\ pc[r] = "local"
  BY DEF Queue, Missed, Goto
<1>3. /\ DOMAIN Append(q, r) = 1..(Len(q) + 1)
      /\ \A i \in DOMAIN q : i \in DOMAIN Append(q, r) /\ Append(q, r)[i] = q[i]
      /\ \A i \in DOMAIN Append(q, r) : i \in DOMAIN q \/ i = Len(q) + 1
      /\ Append(q, r)[Len(q) + 1] = r
  BY <1>1, AppendProperties
<1>4. queue'[b] = Append(q, r) /\ \A c \in Bags : c # b => queue'[c] = queue[c]
  BY <1>1, <1>2 DEF TypeOK
<1>5. \A s \in Requests : pc'[s] = IF s = r THEN "wait" ELSE pc[s]
  BY <1>2 DEF TypeOK
<1>6. \A c \in Bags : \A i \in DOMAIN queue[c] :
        queue[c][i] \in Requests /\ queue[c][i] # r
  BY <1>2, QueueSeq DEF LineInv, Ensuring
<1>7. \A c \in Bags : \A i \in DOMAIN queue'[c] :
        /\ bag[queue'[c][i]] = c
        /\ pc'[queue'[c][i]] = "wait" \/ (i = 1 /\ pc'[queue'[c][i]] \in Ensuring)
        /\ \A j \in DOMAIN queue'[c] : queue'[c][j] = queue'[c][i] => j = i
  <2> SUFFICES ASSUME NEW c \in Bags, NEW i \in DOMAIN queue'[c]
               PROVE  /\ bag[queue'[c][i]] = c
                      /\ \/ pc'[queue'[c][i]] = "wait"
                         \/ i = 1 /\ pc'[queue'[c][i]] \in Ensuring
                      /\ \A j \in DOMAIN queue'[c] : queue'[c][j] = queue'[c][i] => j = i
    OBVIOUS
  <2>1. CASE c # b
    BY <2>1, <1>4, <1>5, <1>6 DEF LineInv
  <2>2. CASE c = b /\ i \in DOMAIN q
    <3>1. /\ queue'[c][i] = q[i] /\ q[i] \in Requests /\ q[i] # r /\ bag[q[i]] = b
          /\ pc[q[i]] = "wait" \/ (i = 1 /\ pc[q[i]] \in Ensuring)
      BY <2>2, <1>1, <1>3, <1>4, <1>6 DEF LineInv
    <3>2. \A j \in DOMAIN Append(q, r) : Append(q, r)[j] = q[i] => j = i
      <4> SUFFICES ASSUME NEW j \in DOMAIN Append(q, r), Append(q, r)[j] = q[i]
                   PROVE  j = i
        OBVIOUS
      <4>1. j \in DOMAIN q /\ q[j] = q[i]
        BY <1>3, <3>1
      <4> QED  BY <4>1, <2>2, <1>1 DEF LineInv
    <3> QED  BY <3>1, <3>2, <2>2, <1>4, <1>5
  <2>3. CASE c = b /\ i = Len(q) + 1
    <3>1. queue'[c][i] = r
      BY <2>3, <1>3, <1>4
    <3>2. \A j \in DOMAIN Append(q, r) : Append(q, r)[j] = r => j = i
      BY <2>3, <1>1, <1>3, <1>6
    <3> QED  BY <3>1, <3>2, <2>3, <1>4, <1>5
  <2> QED  BY <2>1, <2>2, <2>3, <1>3, <1>4
<1>8. \A s \in Requests :
        /\ pc'[s] # "idle" => bag[s] \in Bags
        /\ pc'[s] \in Inside => \E i \in DOMAIN queue'[bag[s]] : queue'[bag[s]][i] = s
  <2> SUFFICES ASSUME NEW s \in Requests
               PROVE  /\ pc'[s] # "idle" => bag[s] \in Bags
                      /\ pc'[s] \in Inside =>
                           \E i \in DOMAIN queue'[bag[s]] : queue'[bag[s]][i] = s
    OBVIOUS
  <2>1. CASE s = r
    <3>1. Len(q) + 1 \in DOMAIN queue'[b] /\ queue'[b][Len(q) + 1] = r
      BY <1>1, <1>3, <1>4
    <3> QED  BY <2>1, <3>1, <1>1
  <2>2. CASE s # r /\ pc[s] \in Inside
    <3>1. bag[s] \in Bags
      BY <2>2 DEF LineInv, Inside, Ensuring
    <3>2. PICK i \in DOMAIN queue[bag[s]] : queue[bag[s]][i] = s
      BY <2>2 DEF LineInv
    <3>3. i \in DOMAIN queue'[bag[s]] /\ queue'[bag[s]][i] = s
      BY <3>1, <3>2, <1>3, <1>4
    <3> QED  BY <3>1, <3>3
  <2>3. CASE s # r /\ pc[s] \notin Inside
    BY <2>3, <1>5 DEF LineInv
  <2> QED  BY <2>1, <2>2, <2>3
<1> QED  BY <1>2, <1>7, <1>8 DEF LineInv

(* A newcomer takes a free lock: all the others in the queue wait. *)
LEMMA PutInFront ==
  ASSUME TypeOK, LineInv, NEW r \in Requests, LockFree(r)
  PROVE  /\ bag[r] \in Bags /\ bag' = bag /\ pc[r] = "local"
         /\ \A s \in Requests : pc'[s] = IF s = r THEN "add" ELSE pc[s]
         /\ \A c \in Bags : c # bag[r] => queue'[c] = queue[c]
         /\ \A c \in Bags : \A i \in DOMAIN queue[c] : queue[c][i] \in Requests \ {r}
         /\ Len(queue[bag[r]]) \in Nat
         /\ DOMAIN queue[bag[r]] = 1..Len(queue[bag[r]])
         /\ DOMAIN queue'[bag[r]] = 1..(Len(queue[bag[r]]) + 1)
         /\ Len(queue'[bag[r]]) = Len(queue[bag[r]]) + 1
         /\ queue'[bag[r]][1] = r
         /\ \A i \in DOMAIN queue'[bag[r]] :
              i # 1 => /\ i - 1 \in DOMAIN queue[bag[r]]
                       /\ queue'[bag[r]][i] = queue[bag[r]][i - 1]
                       /\ pc[queue[bag[r]][i - 1]] = "wait"
<1> DEFINE b == bag[r]
           q == queue[b]
<1>1. b \in Bags /\ pc[r] = "local" /\ bag' = bag
  BY DEF LockFree, Missed, LineInv
<1>2. /\ q \in Seq(Requests) /\ Len(q) \in Nat /\ DOMAIN q = 1..Len(q)
  BY <1>1, QueueSeq
<1>3. \A s \in Requests : pc'[s] = IF s = r THEN "add" ELSE pc[s]
  BY DEF LockFree, Goto, TypeOK
<1>4. queue'[b] = <<r>> \o q /\ \A c \in Bags : c # b => queue'[c] = queue[c]
  BY <1>1 DEF LockFree, TypeOK
<1>5. \A c \in Bags : \A i \in DOMAIN queue[c] : queue[c][i] \in Requests \ {r}
  BY <1>1, QueueSeq DEF LineInv, Ensuring
<1>6. /\ Len(<<r>> \o q) = Len(q) + 1 /\ DOMAIN (<<r>> \o q) = 1..(Len(q) + 1)
      /\ (<<r>> \o q)[1] = r
      /\ \A i \in 1..(Len(q) + 1) : i # 1 => (<<r>> \o q)[i] = q[i - 1]
  <2>1. <<r>> \in Seq(Requests) /\ Len(<<r>>) = 1 /\ <<r>>[1] = r
    OBVIOUS
  <2> QED  BY <2>1, <1>2, ConcatProperties, LenProperties
<1>7. \A i \in DOMAIN q : pc[q[i]] = "wait"
  BY DEF LockFree, Free
<1> QED  BY <1>1, <1>2, <1>3, <1>4, <1>5, <1>6, <1>7

LEMMA LineLockFree ==
  ASSUME TypeOK, LineInv, NEW r \in Requests, LockFree(r)
  PROVE  LineInv'
<1> DEFINE b == bag[r]
           q == queue[b]
<1>1. ASSUME NEW c \in Bags, NEW i \in DOMAIN queue'[c]
      PROVE  /\ bag[queue'[c][i]] = c
             /\ pc'[queue'[c][i]] = "wait" \/ (i = 1 /\ pc'[queue'[c][i]] \in Ensuring)
             /\ \A j \in DOMAIN queue'[c] : queue'[c][j] = queue'[c][i] => j = i
  <2>1. CASE c # b
    BY <1>1, <2>1, PutInFront DEF LineInv
  <2>2. CASE c = b /\ i = 1
    <3>1. ASSUME NEW j \in DOMAIN queue'[b], j # 1  PROVE queue'[b][j] # r
      <4>1. j - 1 \in DOMAIN q /\ queue'[b][j] = q[j - 1]
        BY <3>1, PutInFront
      <4> QED  BY <4>1, PutInFront
    <3> QED  BY <2>2, <3>1, PutInFront DEF Ensuring
  <2>3. CASE c = b /\ i # 1
    <3>1. i - 1 \in DOMAIN q /\ queue'[b][i] = q[i - 1] /\ pc[q[i - 1]] = "wait"
          /\ q[i - 1] \in Requests \ {r} /\ bag[q[i - 1]] = b
      BY <1>1, <2>3, PutInFront DEF LineInv
    <3>2. ASSUME NEW j \in DOMAIN queue'[b], queue'[b][j] = q[i - 1]  PROVE j = i
      <4>1. j # 1
        BY <3>1, <3>2, PutInFront
      <4>2. j - 1 \in DOMAIN q /\ q[j - 1] = q[i - 1]
        BY <3>2, <4>1, PutInFront
      <4>3. j - 1 = i - 1
        BY <3>1, <4>2, PutInFront DEF LineInv
      <4> QED  BY <1>1, <2>3, <4>3, PutInFront
    <3> QED  BY <2>3, <3>1, <3>2, PutInFront
  <2> QED  BY <2>1, <2>2, <2>3
<1>2. ASSUME NEW s \in Requests
      PROVE  /\ pc'[s] # "idle" => bag[s] \in Bags
             /\ pc'[s] \in Inside => \E i \in DOMAIN queue'[bag[s]] : queue'[bag[s]][i] = s
  <2>1. CASE s = r
    <3>1. 1 \in DOMAIN queue'[b] /\ queue'[b][1] = r
      BY PutInFront
    <3> QED  BY <2>1, <3>1, PutInFront
  <2>2. CASE s # r /\ pc[s] \in Inside
    <3>1. bag[s] \in Bags
      BY <2>2 DEF LineInv, Inside, Ensuring
    <3>2. PICK i \in DOMAIN queue[bag[s]] : queue[bag[s]][i] = s
      BY <2>2 DEF LineInv
    <3>3. CASE bag[s] # b
      BY <3>1, <3>2, <3>3, PutInFront
    <3>4. CASE bag[s] = b
      <4>1. i \in 1..Len(q) /\ Len(q) \in Nat
        BY <3>2, <3>4, PutInFront
      <4>2. i + 1 \in DOMAIN queue'[b] /\ i + 1 # 1 /\ (i + 1) - 1 = i
        BY <4>1, PutInFront
      <4>3. queue'[b][i + 1] = s
        BY <3>2, <3>4, <4>2, PutInFront
      <4> QED  BY <3>1, <3>4, <4>2, <4>3
    <3> QED  BY <3>1, <3>3, <3>4
  <2>3. CASE s # r /\ pc[s] \notin Inside
    BY <2>3, PutInFront DEF LineInv
  <2> QED  BY <2>1, <2>2, <2>3
<1>3. bag' = bag
  BY PutInFront
<1> QED  BY <1>1, <1>2, <1>3 DEF LineInv

LEMMA LineStep ==
  ASSUME TypeOK, LineInv, [Next]_vars
  PROVE  LineInv'
<1>1. ASSUME NEW r \in Requests, NEW b \in Bags, NEW k \in Asked, Ask(r, b, k)
      PROVE  LineInv'
  <2>1. pc[r] \notin Inside /\ "local" \in Steps \ Inside
    BY <1>1 DEF Ask, Inside, Ensuring, Steps, Calls
  <2>2. pc' = [pc EXCEPT ![r] = "local"] /\ bag' = [bag EXCEPT ![r] = b] /\ queue' = queue
    BY <1>1 DEF Ask, Goto
  <2> QED  BY <2>1, <2>2, LineOutside
<1>2. ASSUME NEW r \in Requests, NEW code, NEW cause, Reply(r, code, cause),
             queue' = queue, pc[r] \notin Inside
      PROVE  LineInv'
  <2>1. "idle" \in Steps \ Inside
    BY DEF Inside, Ensuring, Steps, Calls
  <2>2. pc' = [pc EXCEPT ![r] = "idle"] /\ bag' = [bag EXCEPT ![r] = NoBag]
    BY <1>2 DEF Reply, Goto
  <2> QED  BY <1>2, <2>1, <2>2, LineOutside
<1>3. ASSUME NEW r \in Requests, LocalHit(r) \/ ListFails(r) \/ Listed(r) \/ Streamed(r)
      PROVE  LineInv'
  <2>1. PICK code, cause : Reply(r, code, cause)
    BY <1>3 DEF LocalHit, ListFails, Listed, Streamed
  <2>2. queue' = queue /\ pc[r] \notin Inside
    BY <1>3 DEF LocalHit, ListFails, Listed, Streamed, Inside, Ensuring
  <2> QED  BY <1>2, <2>1, <2>2
<1>4. ASSUME NEW r \in Requests, StillNotThere(r) \/ ListedFile(r)  PROVE LineInv'
  <2>1. PICK step \in {"remote", "stream"} : pc' = [pc EXCEPT ![r] = step]
    BY <1>4 DEF StillNotThere, ListedFile, Goto
  <2>2. pc[r] \notin Inside /\ pc[r] # "idle" /\ queue' = queue /\ bag' = bag
    BY <1>4 DEF StillNotThere, ListedFile, Inside, Ensuring
  <2>3. bag[r] \in Bags /\ bag' = [bag EXCEPT ![r] = bag[r]]
    BY <2>2 DEF LineInv, TypeOK
  <2>4. step \in Steps \ Inside
    BY DEF Inside, Ensuring, Steps
  <2> QED  BY <2>1, <2>2, <2>3, <2>4, LineOutside
<1>5. ASSUME NEW r \in Requests, Queue(r) \/ LockFree(r)  PROVE LineInv'
  BY <1>5, LineQueue, LineLockFree
<1>6. ASSUME NEW r \in Requests, Acquire(r)  PROVE LineInv'
  BY <1>6, LineFirst DEF Acquire, Goto, Inside, Ensuring
<1>7. ASSUME NEW r \in Requests,
             \/ BagAdded(r) \/ AddFails(r) \/ BagIsThere(r) \/ PollAgain(r) \/ Wake(r)
      PROVE  LineInv'
  <2>1. pc[r] \in Ensuring /\ queue' = queue /\ bag' = bag
    BY <1>7 DEF BagAdded, AddFails, BagIsThere, BeginPoll, PollAgain, Wake, Ensuring
  <2>2. PICK step \in Ensuring : pc' = [pc EXCEPT ![r] = step]
    BY <1>7 DEF BagAdded, AddFails, BagIsThere, BeginPoll, PollAgain, Wake, Ensuring, Goto
  <2>3. Head(queue[bag[r]]) = r /\ pc[r] \in Inside
    BY <2>1, HolderIsFirst DEF Inside
  <2> QED  BY <2>1, <2>2, <2>3, LineFirst
<1>8. ASSUME NEW r \in Requests, NEW step \in {"again", "remote"}, Return(r, step),
             pc[r] \in Ensuring
      PROVE  LineInv'
  BY <1>8, LineReturn
<1>9. ASSUME UNCHANGED <<pc, bag, queue>>  PROVE LineInv'
  BY <1>9 DEF LineInv
<1>10. ASSUME NEW b \in Bags, Fetched(b) \/ Forgotten(b)  PROVE LineInv'
  BY <1>9, <1>10 DEF Fetched, Forgotten
<1>12. ASSUME NEW r \in Requests, PassedOver(r)  PROVE LineInv'
  BY <1>9, <1>12 DEF PassedOver
<1>11. CASE Stop \/ Tick \/ UNCHANGED vars
  BY <1>9, <1>11 DEF Stop, Tick, vars
<1> QED
  BY <1>1, <1>3, <1>4, <1>5, <1>6, <1>7, <1>8, <1>10, <1>11, <1>12
  DEF Next, GetPathInfo, Lock, Ensure, Fallback, CheckFails, HeaderArrived, GivesUp,
      Cancelled, Ensuring

-----------------------------------------------------------------------------
(* Times. *)

(* A lock is held for MaxHold at most. *)
LEMMA HoldEnds ==
  ASSUME TypeOK, LineInv, TimeInv, NEW b \in Bags
  PROVE  kept[b] <= MaxHold
<1>0. kept[b] \in Nat /\ MaxHold \in Nat
  BY Numbers, MaxHoldNat
<1>1. CASE Free(b)
  BY <1>0, <1>1 DEF TimeInv
<1>2. CASE ~Free(b)
  <2>1. PICK r \in Requests : bag[r] = b /\ pc[r] \in Ensuring
    <3>1. PICK i \in DOMAIN queue[b] : pc[queue[b][i]] # "wait"
      BY <1>2 DEF Free
    <3> QED  BY <3>1, QueueSeq DEF LineInv
  <2>2. spent[r] \in Nat /\ left[r] \in Int
    BY <2>1, Numbers
  <2>3. CASE pc[r] \in {"add", "check"}
    BY <1>0, <2>1, <2>2, <2>3, FilesAssumption DEF TimeInv, MaxHold, Calls
  <2>4. CASE pc[r] = "poll"
    <3>1. /\ kept[b] <= 2 * CallTime + HeaderTimeout - left[r]
          /\ left[r] >= -PollInterval - spent[r] /\ spent[r] <= CallTime
      BY <2>1, <2>4 DEF TimeInv, Calls
    <3> QED  BY <3>1, <1>0, <2>2, FilesAssumption DEF MaxHold
  <2>5. CASE pc[r] = "sleep"
    <3>1. /\ kept[b] <= 2 * CallTime + HeaderTimeout - left[r]
          /\ left[r] >= -spent[r] /\ spent[r] <= PollInterval
      BY <2>1, <2>5 DEF TimeInv
    <3> QED  BY <3>1, <1>0, <2>2, FilesAssumption DEF MaxHold
  <2> QED  BY <2>1, <2>3, <2>4, <2>5 DEF Ensuring
<1> QED  BY <1>1, <1>2

(* What TimeInv says of one request, and of one lock. *)
TimeOf(r) ==
  /\ pc[r] \in Calls => spent[r] <= CallTime
  /\ pc[r] = "sleep" => spent[r] <= PollInterval /\ left[r] >= -spent[r]
  /\ pc[r] = "poll" => left[r] >= -PollInterval - spent[r]
  /\ pc[r] = "add" => kept[bag[r]] <= spent[r]
  /\ pc[r] = "check" => kept[bag[r]] <= CallTime + spent[r]
  /\ pc[r] \in {"poll", "sleep"} =>
       kept[bag[r]] <= 2 * CallTime + HeaderTimeout - left[r]

LEMMA TimeParts ==
  /\ TimeInv <=> (\A r \in Requests : TimeOf(r)) /\ \A b \in Bags : Free(b) => kept[b] = 0
BY DEF TimeInv, TimeOf

(* A step of r that leaves kept alone and frees no lock. *)
LEMMA TimeFrame ==
  ASSUME TypeOK, TimeInv, NEW r \in Requests,
         kept' = kept, TimeOf(r)',
         \A s \in Requests \ {r} : /\ pc'[s] = pc[s] /\ spent'[s] = spent[s]
                                   /\ left'[s] = left[s] /\ bag'[s] = bag[s],
         \A b \in Bags : Free(b)' => Free(b)
  PROVE  TimeInv'
<1>1. \A s \in Requests : TimeOf(s)'
  BY TimeParts DEF TimeOf
<1>2. \A b \in Bags : Free(b)' => kept'[b] = 0
  BY TimeParts
<1> QED  BY <1>1, <1>2 DEF TimeInv, TimeOf

(* A request that is not inside, and does not go inside, frees no lock. *)
LEMMA FreeOutside ==
  ASSUME TypeOK, LineInv, NEW r \in Requests, pc[r] \notin Inside,
         \A s \in Requests \ {r} : pc'[s] = pc[s], queue' = queue,
         NEW b \in Bags, Free(b)'
  PROVE  Free(b)
<1>1. \A i \in DOMAIN queue[b] : queue[b][i] \in Requests \ {r}
  BY QueueSeq DEF LineInv, Inside
<1> QED  BY <1>1 DEF Free

LEMMA TimeOutside ==
  ASSUME TypeOK, LineInv, TimeInv, NEW r \in Requests, pc[r] \notin Inside,
         NEW step \in {"idle", "local", "remote", "stream"}, Goto(r, step),
         \A s \in Requests \ {r} : bag'[s] = bag[s],
         queue' = queue, left' = left, kept' = kept
  PROVE  TimeInv'
<1>1. /\ pc'[r] = step /\ spent'[r] = 0
      /\ \A s \in Requests \ {r} : pc'[s] = pc[s] /\ spent'[s] = spent[s]
  BY DEF Goto, TypeOK
<1>2. TimeOf(r)'
  BY <1>1, FilesAssumption DEF TimeOf
<1>3. \A b \in Bags : Free(b)' => Free(b)
  BY <1>1, FreeOutside
<1> QED  BY <1>1, <1>2, <1>3, TimeFrame

LEMMA TimeQueue ==
  ASSUME TypeOK, LineInv, TimeInv, NEW r \in Requests, Queue(r)
  PROVE  TimeInv'
<1>1. /\ pc'[r] = "wait"
      /\ \A s \in Requests \ {r} : pc'[s] = pc[s] /\ spent'[s] = spent[s]
      /\ left' = left /\ bag' = bag /\ kept' = kept
  BY DEF Queue, Goto, TypeOK
<1>2. TimeOf(r)'
  BY <1>1 DEF TimeOf, Calls
<1>3. ASSUME NEW b \in Bags, Free(b)'  PROVE Free(b)
  <2>1. \A i \in DOMAIN queue[b] : queue[b][i] \in Requests \ {r}
    BY QueueSeq DEF LineInv, Queue, Missed, Ensuring
  <2>2. queue'[b] = queue[b] \/ queue'[b] = Append(queue[b], r)
    BY DEF Queue, TypeOK
  <2>3. \A i \in DOMAIN queue[b] : i \in DOMAIN queue'[b] /\ queue'[b][i] = queue[b][i]
    BY <2>2, QueueSeq, AppendProperties
  <2> QED  BY <1>1, <1>3, <2>1, <2>3 DEF Free
<1> QED  BY <1>1, <1>2, <1>3, TimeFrame

LEMMA TimeLockFree ==
  ASSUME TypeOK, LineInv, TimeInv, NEW r \in Requests, LockFree(r)
  PROVE  TimeInv'
<1>1. /\ pc'[r] = "add" /\ spent'[r] = 0
      /\ \A s \in Requests \ {r} : pc'[s] = pc[s] /\ spent'[s] = spent[s]
      /\ left' = left /\ bag' = bag /\ kept' = kept
  BY DEF LockFree, Goto, TypeOK
<1>2. TimeOf(r)'
  <2>1. bag[r] \in Bags /\ kept[bag[r]] = 0
    BY PutInFront DEF LockFree, TimeInv
  <2> QED  BY <1>1, <2>1, FilesAssumption DEF TimeOf
<1>3. ASSUME NEW b \in Bags, Free(b)'  PROVE Free(b)
  <2>1. CASE b = bag[r]
    BY <2>1 DEF LockFree
  <2>2. CASE b # bag[r]
    BY <1>1, <1>3, <2>2, PutInFront DEF Free
  <2> QED  BY <2>1, <2>2
<1> QED  BY <1>1, <1>2, <1>3, TimeFrame

(* The first in a queue goes on inside the ensure. *)
LEMMA TimeFirst ==
  ASSUME TypeOK, LineInv, TimeInv, NEW r \in Requests,
         NEW step \in Ensuring, Goto(r, step), TimeOf(r)',
         \A s \in Requests \ {r} : left'[s] = left[s],
         bag' = bag, queue' = queue, kept' = kept
  PROVE  TimeInv'
<1>1. /\ pc'[r] = step
      /\ \A s \in Requests \ {r} : pc'[s] = pc[s] /\ spent'[s] = spent[s]
  BY DEF Goto, TypeOK
<1>2. ASSUME NEW b \in Bags, Free(b)'  PROVE Free(b)
  BY <1>1, <1>2, QueueSeq DEF Free, Ensuring
<1> QED  BY <1>1, <1>2, TimeFrame

LEMMA TimeReturn ==
  ASSUME TypeOK, LineInv, TimeInv, NEW r \in Requests, pc[r] \in Ensuring,
         NEW step \in {"again", "remote"}, Return(r, step)
  PROVE  TimeInv'
<1>1. /\ pc'[r] = step /\ spent'[r] = 0 /\ bag' = bag
      /\ \A s \in Requests \ {r} : /\ pc'[s] = pc[s] /\ spent'[s] = spent[s]
                                   /\ left'[s] = left[s]
  BY DEF Return, Goto, TypeOK
<1>2. bag[r] \in Bags
  BY HolderIsFirst
<1>3. /\ kept'[bag[r]] = 0
      /\ \A b \in Bags \ {bag[r]} : kept'[b] = kept[b] /\ queue'[b] = queue[b]
  BY <1>2 DEF Return, TypeOK
<1>4. TimeOf(r)'
  BY <1>1, FilesAssumption DEF TimeOf
<1>5. ASSUME NEW s \in Requests \ {r}  PROVE TimeOf(s)'
  <2>1. TimeOf(s)
    BY TimeParts
  <2>2. CASE pc[s] \in Ensuring
    <3>1. bag[s] \in Bags \ {bag[r]}
      BY <2>2, OneEnsurer, HolderIsFirst
    <3> QED  BY <1>1, <1>3, <2>1, <3>1 DEF TimeOf
  <2>3. CASE pc[s] \notin Ensuring
    BY <1>1, <2>1, <2>3 DEF TimeOf, Ensuring
  <2> QED  BY <2>2, <2>3
<1>6. ASSUME NEW b \in Bags, Free(b)'  PROVE kept'[b] = 0
  <2>1. CASE b = bag[r]
    BY <2>1, <1>3
  <2>2. CASE b # bag[r]
    <3>1. \A i \in DOMAIN queue[b] : queue[b][i] \in Requests \ {r}
      BY <2>2, QueueSeq DEF LineInv
    <3>2. Free(b)
      BY <3>1, <2>2, <1>1, <1>3, <1>6 DEF Free
    <3> QED  BY <3>2, <2>2, <1>3, TimeParts
  <2> QED  BY <2>1, <2>2
<1>7. \A s \in Requests : TimeOf(s)'
  BY <1>4, <1>5
<1> QED  BY <1>6, <1>7 DEF TimeInv, TimeOf

LEMMA TimeTick ==
  ASSUME TypeOK, LineInv, TimeInv, Tick
  PROVE  TimeInv'
<1>0. /\ pc' = pc /\ bag' = bag /\ queue' = queue
      /\ \A b \in Bags : kept[b] \in Nat /\ kept'[b] \in {kept[b], kept[b] + 1}
      /\ \A b \in Bags : queue[b] = <<>> => kept'[b] = kept[b]
  BY Numbers DEF Tick
<1>1. ASSUME NEW r \in Requests  PROVE TimeOf(r)'
  <2>1. TimeOf(r) /\ spent[r] \in Nat /\ left[r] \in Int
    BY TimeParts, Numbers
  <2>2. /\ pc[r] \in Calls => spent[r] < CallTime
        /\ pc[r] = "sleep" => spent[r] < PollInterval
        /\ pc[r] \in Calls \cup {"sleep"} => spent'[r] = spent[r] + 1
        /\ left'[r] = IF pc[r] \in {"poll", "sleep"} THEN left[r] - 1 ELSE left[r]
    BY DEF Tick
  <2>3. pc[r] \in Ensuring =>
          /\ bag[r] \in Bags /\ kept[bag[r]] \in Nat
          /\ kept'[bag[r]] \in {kept[bag[r]], kept[bag[r]] + 1}
    BY <1>0, HolderIsFirst
  <2>4. pc[r] \in Calls => spent'[r] <= CallTime
    BY <2>1, <2>2, FilesAssumption
  <2>5. pc[r] = "sleep" => spent'[r] <= PollInterval /\ left'[r] >= -spent'[r]
    BY <2>1, <2>2, FilesAssumption DEF TimeOf
  <2>6. pc[r] = "poll" => left'[r] >= -PollInterval - spent'[r]
    BY <2>1, <2>2, FilesAssumption DEF TimeOf, Calls
  <2>7. pc[r] = "add" => kept'[bag[r]] <= spent'[r]
    BY <2>1, <2>2, <2>3 DEF TimeOf, Calls, Ensuring
  <2>8. pc[r] = "check" => kept'[bag[r]] <= CallTime + spent'[r]
    BY <2>1, <2>2, <2>3, FilesAssumption DEF TimeOf, Calls, Ensuring
  <2>9. pc[r] \in {"poll", "sleep"} =>
          kept'[bag[r]] <= 2 * CallTime + HeaderTimeout - left'[r]
    BY <2>1, <2>2, <2>3, FilesAssumption DEF TimeOf, Ensuring
  <2> QED  BY <1>0, <2>4, <2>5, <2>6, <2>7, <2>8, <2>9 DEF TimeOf
<1>2. ASSUME NEW b \in Bags, Free(b)'  PROVE kept'[b] = 0
  <2>1. kept[b] = 0
    BY <1>0, <1>2, TimeParts DEF Free
  <2>2. queue[b] = <<>>
    <3> SUFFICES ASSUME queue[b] # <<>>  PROVE FALSE
      OBVIOUS
    <3>1. /\ Head(queue[b]) \in Requests /\ bag[Head(queue[b])] = b
          /\ pc[Head(queue[b])] = "wait"
      BY <1>0, <1>2, QueueSeq DEF Free, LineInv
    <3> QED  BY <3>1 DEF Tick
  <2> QED  BY <2>1, <2>2, <1>0
<1> QED  BY <1>1, <1>2 DEF TimeInv, TimeOf

LEMMA TimeStep ==
  ASSUME TypeOK, LineInv, TimeInv, [Next]_vars
  PROVE  TimeInv'
<1>1. ASSUME NEW r \in Requests,
             \/ \E b \in Bags, k \in Asked : Ask(r, b, k)
             \/ LocalHit(r) \/ Fallback(r)
      PROVE  TimeInv'
  <2>1. /\ pc[r] \notin Inside
        /\ queue' = queue /\ left' = left /\ kept' = kept
    BY <1>1 DEF Ask, LocalHit, Fallback, StillNotThere, ListFails, Listed, ListedFile,
                Streamed, Inside, Ensuring
  <2>2. PICK step \in {"idle", "local", "remote", "stream"} : Goto(r, step)
    BY <1>1 DEF Ask, LocalHit, Fallback, StillNotThere, ListFails, Listed, ListedFile,
                Streamed, Reply
  <2>3. bag' = bag \/ \E b : bag' = [bag EXCEPT ![r] = b]
    BY <1>1 DEF Ask, LocalHit, Fallback, StillNotThere, ListFails, Listed, ListedFile,
                Streamed, Reply
  <2>4. \A s \in Requests \ {r} : bag'[s] = bag[s]
    BY <2>3 DEF TypeOK
  <2> QED  BY <2>1, <2>2, <2>4, TimeOutside
<1>2. ASSUME NEW r \in Requests, Queue(r)  PROVE TimeInv'
  BY <1>2, TimeQueue
<1>9. ASSUME UNCHANGED <<pc, bag, queue, spent, left, kept>>  PROVE TimeInv'
  BY <1>9 DEF TimeInv, Free
<1>13. ASSUME NEW r \in Requests, LockFree(r)  PROVE TimeInv'
  BY <1>13, TimeLockFree
<1>14. ASSUME NEW r \in Requests, PassedOver(r)  PROVE TimeInv'
  BY <1>9, <1>14 DEF PassedOver, timers
<1>3. ASSUME NEW r \in Requests, Acquire(r)  PROVE TimeInv'
  <2>1. bag[r] \in Bags /\ kept[bag[r]] = 0
    BY <1>3, FrontWaits DEF TimeInv
  <2>2. pc'[r] = "add" /\ spent'[r] = 0 /\ kept' = kept /\ bag' = bag
    BY <1>3 DEF Acquire, Goto, TypeOK
  <2>3. TimeOf(r)'
    BY <2>1, <2>2, FilesAssumption DEF TimeOf
  <2> QED  BY <1>3, <2>3, TimeFirst DEF Acquire, Ensuring
<1>4. ASSUME NEW r \in Requests, BagAdded(r) \/ BagIsThere(r)  PROVE TimeInv'
  <2>1. pc[r] \in {"add", "check"} /\ pc[r] \in Ensuring /\ BeginPoll(r)
    BY <1>4 DEF BagAdded, BagIsThere, Ensuring
  <2>2. /\ bag[r] \in Bags /\ kept[bag[r]] \in Nat /\ spent[r] \in Nat
        /\ kept[bag[r]] <= 2 * CallTime
    <3>1. bag[r] \in Bags /\ kept[bag[r]] \in Nat /\ spent[r] \in Nat
      BY <2>1, HolderIsFirst, Numbers
    <3> QED  BY <3>1, <2>1, FilesAssumption DEF TimeInv, Calls
  <2>3. /\ pc'[r] = "poll" /\ spent'[r] = 0 /\ kept' = kept /\ bag' = bag
        /\ left'[r] = HeaderTimeout
        /\ \A s \in Requests \ {r} : left'[s] = left[s]
    BY <1>4, <2>1 DEF BeginPoll, Goto, TypeOK
  <2>4. TimeOf(r)'
    BY <2>2, <2>3, FilesAssumption DEF TimeOf
  <2> QED  BY <2>1, <2>3, <2>4, TimeFirst DEF BeginPoll, Ensuring
<1>5. ASSUME NEW r \in Requests, AddFails(r)  PROVE TimeInv'
  <2>1. bag[r] \in Bags /\ kept[bag[r]] \in Nat /\ spent[r] \in Nat
    BY <1>5, HolderIsFirst, Numbers DEF AddFails, Ensuring
  <2>2. kept[bag[r]] <= CallTime
    BY <1>5, <2>1, FilesAssumption DEF AddFails, TimeInv, Calls
  <2>3. pc'[r] = "check" /\ spent'[r] = 0 /\ kept' = kept /\ bag' = bag
    BY <1>5 DEF AddFails, Goto, TypeOK
  <2>4. TimeOf(r)'
    BY <2>1, <2>2, <2>3, FilesAssumption DEF TimeOf
  <2> QED  BY <1>5, <2>4, TimeFirst DEF AddFails, Ensuring
<1>6. ASSUME NEW r \in Requests, PollAgain(r)  PROVE TimeInv'
  <2>1. left[r] \in Int /\ left[r] >= 0
        /\ kept[bag[r]] <= 2 * CallTime + HeaderTimeout - left[r]
    BY <1>6, Numbers DEF PollAgain, TimeInv
  <2>2. /\ pc'[r] = "sleep" /\ spent'[r] = 0 /\ left' = left /\ kept' = kept
        /\ bag' = bag
    BY <1>6 DEF PollAgain, Goto, TypeOK
  <2>3. TimeOf(r)'
    BY <2>1, <2>2, FilesAssumption DEF TimeOf, Calls
  <2> QED  BY <1>6, <2>3, TimeFirst DEF PollAgain, Ensuring
<1>7. ASSUME NEW r \in Requests, Wake(r)  PROVE TimeInv'
  <2>1. /\ left[r] \in Int /\ left[r] >= -PollInterval
        /\ kept[bag[r]] <= 2 * CallTime + HeaderTimeout - left[r]
    BY <1>7, Numbers DEF Wake, TimeInv
  <2>2. /\ pc'[r] = "poll" /\ spent'[r] = 0 /\ left' = left /\ kept' = kept
        /\ bag' = bag
    BY <1>7 DEF Wake, Goto, TypeOK
  <2>3. TimeOf(r)'
    BY <2>1, <2>2, FilesAssumption DEF TimeOf, Calls
  <2> QED  BY <1>7, <2>3, TimeFirst DEF Wake, Ensuring
<1>8. ASSUME NEW r \in Requests, NEW step \in {"again", "remote"}, Return(r, step),
             pc[r] \in Ensuring
      PROVE  TimeInv'
  BY <1>8, TimeReturn
<1>10. ASSUME NEW b \in Bags, Fetched(b) \/ Forgotten(b)  PROVE TimeInv'
  BY <1>9, <1>10 DEF Fetched, Forgotten, timers
<1>11. CASE Stop \/ UNCHANGED vars
  BY <1>9, <1>11 DEF Stop, vars, timers
<1>12. CASE Tick
  BY <1>12, TimeTick
<1> QED
  BY <1>1, <1>2, <1>3, <1>4, <1>5, <1>6, <1>7, <1>8, <1>10, <1>11, <1>12, <1>13, <1>14
  DEF Next, GetPathInfo, Lock, Ensure, CheckFails, HeaderArrived, GivesUp, Cancelled, Ensuring

-----------------------------------------------------------------------------
(* The mutex of a bag and the crowd before a waiting request. *)
(* How long n ensures hold it. *)
Holds(n) == n * MaxHold

LEMMA HoldsMore ==
  ASSUME NEW n \in Int
  PROVE  /\ Holds(n) \in Int /\ Holds(n + 1) = Holds(n) + MaxHold
         /\ n \in Nat => Holds(n) >= 0
BY MaxHoldNat DEF Holds

LEMMA HoldsGrow ==
  ASSUME NEW n \in Int, NEW m \in Int, n <= m
  PROVE  Holds(n) <= Holds(m)
<1>1. m - n \in Nat /\ m = n + (m - n)
  OBVIOUS
<1>2. Holds(m) = Holds(n) + Holds(m - n)
  BY <1>1, MaxHoldNat DEF Holds
<1> QED  BY <1>1, <1>2, HoldsMore

(* What there is in the queue of a bag, when it is not free. *)
LEMMA WhoWaits ==
  ASSUME TypeOK, LineInv, NEW b \in Bags
  PROVE  /\ \A i \in DOMAIN queue[b] : i # 1 => pc[queue[b][i]] = "wait"
         /\ ~Free(b) => 1 \in DOMAIN queue[b] /\ pc[queue[b][1]] # "wait"
<1>1. \A i \in DOMAIN queue[b] : i # 1 => pc[queue[b][i]] = "wait"
  BY DEF LineInv
<1> QED  BY <1>1 DEF Free

(* A bag that a step leaves alone. *)
LEMMA CrowdFrame ==
  ASSUME TypeOK, NEW b \in Bags, MutexInv(b), CrowdInv(b),
         queue'[b] = queue[b], mutex'[b] = mutex[b], kept'[b] = kept[b],
         \A i \in DOMAIN queue[b] :
           /\ pc'[queue[b][i]] = "wait" <=> pc[queue[b][i]] = "wait"
           /\ pc[queue[b][i]] = "wait" => /\ waited'[queue[b][i]] = waited[queue[b][i]]
                                          /\ ahead'[queue[b][i]] = ahead[queue[b][i]]
  PROVE  MutexInv(b)' /\ CrowdInv(b)'
<1>1. Free(b)' <=> Free(b)
  BY DEF Free
<1>2. Overtaken(b)' <=> Overtaken(b)
  BY <1>1 DEF Overtaken
<1>3. MutexInv(b)'
  BY <1>1 DEF MutexInv
<1>4. CrowdInv(b)'
  BY <1>1, <1>2 DEF CrowdInv
<1> QED  BY <1>3, <1>4

LEMMA CrowdReturn ==
  ASSUME TypeOK, LineInv, TimeInv, NEW r \in Requests, pc[r] \in Ensuring,
         NEW b \in Bags, b = bag[r], MutexInv(b), CrowdInv(b),
         NEW step \in {"again", "remote"}, Return(r, step)
  PROVE  MutexInv(b)' /\ CrowdInv(b)'
<1> DEFINE q == queue[b]
<1>1. b \in Bags /\ q # <<>> /\ q \in Seq(Requests) /\ Len(q) \in Nat
      /\ Len(q) >= 1 /\ DOMAIN q = 1..Len(q) /\ q[1] = r
  BY HolderIsFirst, QueueSeq
<1>2. /\ DOMAIN Tail(q) = 1..(Len(q) - 1)
      /\ \A i \in DOMAIN Tail(q) : i + 1 \in DOMAIN q /\ Tail(q)[i] = q[i + 1]
      /\ Tail(q) = <<>> <=> Len(q) = 1
  <2>1. Tail(q) \in Seq(Requests) /\ Len(Tail(q)) = Len(q) - 1
    BY <1>1, HeadTailProperties
  <2>2. Tail(q) = <<>> <=> Len(Tail(q)) = 0
    BY <2>1, EmptySeq
  <2> QED  BY <1>1, <2>1, <2>2
<1>3. /\ queue'[b] = Tail(q) /\ kept'[b] = 0
      /\ mutex'[b] = Unlocked(b)
      /\ waited' = waited /\ ahead' = ahead
  BY <1>1 DEF Return, TypeOK
<1>4. \A i \in DOMAIN Tail(q) : pc'[Tail(q)[i]] = "wait" /\ pc[Tail(q)[i]] = "wait"
  <2> SUFFICES ASSUME NEW i \in DOMAIN Tail(q)
               PROVE  pc'[Tail(q)[i]] = "wait" /\ pc[Tail(q)[i]] = "wait"
    OBVIOUS
  <2>1. i + 1 \in DOMAIN q /\ i + 1 # 1 /\ Tail(q)[i] = q[i + 1] /\ q[i + 1] \in Requests
    BY <1>1, <1>2, QueueSeq
  <2>2. pc[q[i + 1]] = "wait" /\ q[i + 1] # r
    BY <1>1, <2>1, WhoWaits DEF Ensuring
  <2> QED  BY <2>1, <2>2 DEF Return, Goto, TypeOK
<1>5. Free(b)' /\ ~Free(b)
  <2>1. Free(b)'
    BY <1>3, <1>4 DEF Free
  <2>2. ~Free(b)
    BY <1>1 DEF Free, Ensuring
  <2> QED  BY <2>1, <2>2
<1>6. MutexInv(b)'
  <2>1. mutex'[b] = "normal" => queue'[b] = <<>>
    BY <1>2, <1>3 DEF Unlocked
  <2>2. mutex'[b] # "normal" => queue'[b] # <<>> /\ Free(b)'
    BY <1>2, <1>3, <1>5 DEF Unlocked
  <2>3. ASSUME NEW i \in DOMAIN Tail(q), NEW j \in DOMAIN Tail(q), i <= j
        PROVE  waited[Tail(q)[j]] <= waited[Tail(q)[i]]
    <3>1. /\ i + 1 \in DOMAIN q /\ j + 1 \in DOMAIN q /\ i + 1 <= j + 1
          /\ pc[q[i + 1]] = "wait" /\ pc[q[j + 1]] = "wait"
          /\ Tail(q)[i] = q[i + 1] /\ Tail(q)[j] = q[j + 1]
      BY <1>1, <1>2, <1>4, <2>3
    <3> QED  BY <3>1 DEF MutexInv
  <2> QED  BY <1>3, <2>1, <2>2, <2>3 DEF MutexInv
<1>7. CrowdInv(b)'
  <2>0. Overtaken(b)' <=> mutex'[b] = "starving"
    BY <1>5 DEF Overtaken
  <2> SUFFICES ASSUME NEW i \in DOMAIN Tail(q)
               PROVE  LET s == Tail(q)[i]
                          before == IF mutex'[b] = "woken" THEN i ELSE i - 1
                          spare == IF mutex'[b] = "starving" THEN 1 ELSE 0
                      IN /\ before <= ahead[s]
                         /\ waited[s] <= Holds(ahead[s] + spare - (i - 1)) + kept'[b]
    BY <1>3, <1>5, <2>0 DEF CrowdInv, Holds
  <2> DEFINE s == q[i + 1]
             spare == IF mutex[b] # "normal" THEN 1 ELSE 0
             x == ahead[s] + spare - i
  <2>1. i \in Nat /\ i >= 1 /\ i + 1 \in DOMAIN q /\ Tail(q)[i] = s /\ s \in Requests
        /\ pc[s] = "wait" /\ Len(q) # 1
    BY <1>1, <1>2, <1>4, QueueSeq
  <2>2. /\ ahead[s] \in Nat /\ waited[s] \in Nat /\ kept[b] \in Nat
        /\ MaxHold \in Nat /\ kept[b] <= MaxHold
    BY <2>1, <1>1, Numbers, MaxHoldNat, HoldEnds
  <2>3. Overtaken(b) <=> mutex[b] # "normal"
    BY <1>1, <1>5 DEF Overtaken, TypeOK, Modes
  <2>4. (i + 1) - 1 = i
    BY <2>1
  <2>5. i <= ahead[s] /\ waited[s] <= Holds(x) + kept[b]
    BY <1>5, <2>1, <2>3, <2>4 DEF CrowdInv, Holds
  <2>6. Holds(x) \in Int /\ Holds(x + 1) = Holds(x) + MaxHold
    <3>1. x \in Int
      BY <2>1, <2>2
    <3> QED  BY <3>1, HoldsMore
  <2>7. /\ mutex'[b] = IF mutex[b] = "starving" THEN "starving" ELSE "woken"
        /\ kept'[b] = 0 /\ i - 1 <= ahead[s]
    BY <1>3, <2>1, <2>2, <2>5 DEF Unlocked
  <2>8. waited[s] <= Holds(x + 1) + kept'[b]
    <3> HIDE DEF x, s
    <3>1. waited[s] <= Holds(x) + MaxHold
      BY <2>2, <2>5, <2>6
    <3> QED  BY <2>6, <2>7, <3>1, <2>2
  <2>9. CASE mutex[b] = "starving"
    <3>1. ahead[s] + 1 - (i - 1) = x + 1
      BY <2>1, <2>2, <2>9
    <3> QED  BY <2>1, <2>7, <2>8, <2>9, <3>1
  <2>10. CASE mutex[b] = "woken"
    <3>1. ahead[s] + 0 - (i - 1) = x /\ kept[b] = 0
      BY <1>1, <2>1, <2>2, <2>10 DEF MutexInv
    <3>2. waited[s] <= Holds(x) + kept'[b]
      BY <2>2, <2>5, <2>6, <2>7, <3>1
    <3> QED  BY <2>1, <2>5, <2>7, <2>10, <3>1, <3>2
  <2>11. CASE mutex[b] = "normal"
    <3>1. ahead[s] + 0 - (i - 1) = x + 1
      BY <2>1, <2>2, <2>11
    <3> QED  BY <2>1, <2>5, <2>7, <2>8, <2>11, <3>1
  <2> QED  BY <1>1, <2>9, <2>10, <2>11 DEF TypeOK, Modes
<1> QED  BY <1>3, <1>6, <1>7

LEMMA CrowdTick ==
  ASSUME TypeOK, LineInv, NEW b \in Bags, MutexInv(b), CrowdInv(b), Tick
  PROVE  MutexInv(b)' /\ CrowdInv(b)'
<1> DEFINE q == queue[b]
<1>1. pc' = pc /\ queue' = queue /\ mutex' = mutex /\ ahead' = ahead
      /\ mutex[b] # "woken"
  BY DEF Tick
<1>2. \A i \in DOMAIN q : q[i] \in Requests /\ i \in Nat /\ q # <<>>
                          /\ ahead[q[i]] \in Nat /\ waited[q[i]] \in Nat
  BY QueueSeq, Numbers
<1>3. kept[b] \in Nat /\ MaxHold \in Nat
  BY Numbers, MaxHoldNat
<1>4. /\ \A i \in DOMAIN q : pc[q[i]] = "wait" => waited'[q[i]] = waited[q[i]] + 1
      /\ q # <<>> => kept'[b] = kept[b] + 1
  BY <1>2 DEF Tick
<1>5. /\ Free(b)' <=> Free(b)
      /\ Overtaken(b)' <=> Overtaken(b)
  BY <1>1 DEF Free, Overtaken
<1>6. MutexInv(b)'
  BY <1>1, <1>2, <1>4, <1>5 DEF MutexInv
<1>7. CrowdInv(b)'
  <2> SUFFICES ASSUME NEW i \in DOMAIN q, pc[q[i]] = "wait"
               PROVE  LET spare == IF Overtaken(b) THEN 1 ELSE 0
                      IN /\ i - 1 <= ahead[q[i]]
                         /\ waited[q[i]] + 1 <=
                              Holds(ahead[q[i]] + spare - (i - 1)) + (kept[b] + 1)
    BY <1>1, <1>2, <1>4, <1>5 DEF CrowdInv, Holds
  <2> DEFINE spare == IF Overtaken(b) THEN 1 ELSE 0
             x == ahead[q[i]] + spare - (i - 1)
  <2>1. i - 1 <= ahead[q[i]] /\ waited[q[i]] <= Holds(x) + kept[b]
    BY <1>1 DEF CrowdInv, Holds
  <2>2. Holds(x) \in Int
    BY <1>2, HoldsMore
  <2>3. waited[q[i]] \in Nat
    BY <1>2
  <2> HIDE DEF x
  <2>4. waited[q[i]] + 1 <= Holds(x) + (kept[b] + 1)
    BY <1>3, <2>1, <2>2, <2>3
  <2> QED  BY <2>1, <2>4 DEF x
<1> QED  BY <1>6, <1>7

LEMMA CrowdQueue ==
  ASSUME TypeOK, LineInv, NEW r \in Requests, Queue(r),
         NEW b \in Bags, b = bag[r], MutexInv(b), CrowdInv(b)
  PROVE  MutexInv(b)' /\ CrowdInv(b)'
<1> DEFINE q == queue[b]
           n == Len(q) + 1
<1>1. b \in Bags /\ q \in Seq(Requests) /\ Len(q) \in Nat /\ DOMAIN q = 1..Len(q)
      /\ kept[b] \in Nat /\ MaxHold \in Nat
  BY QueueSeq, Numbers, MaxHoldNat
<1>2. /\ \A i \in DOMAIN q : i \in DOMAIN Append(q, r) /\ Append(q, r)[i] = q[i]
      /\ \A i \in DOMAIN Append(q, r) : i \in DOMAIN q \/ i = n
      /\ Append(q, r)[n] = r /\ Len(Append(q, r)) = n /\ Append(q, r) # <<>>
  BY <1>1, AppendProperties
<1>3. /\ queue'[b] = Append(q, r) /\ bag' = bag
      /\ kept' = kept /\ mutex' = mutex /\ pc'[r] = "wait"
      /\ ahead'[r] = Len(q) /\ waited'[r] = 0
      /\ \A s \in Requests \ {r} :
           pc'[s] = pc[s] /\ ahead'[s] = ahead[s] /\ waited'[s] = waited[s]
  BY <1>1 DEF Queue, Goto, TypeOK
<1>4. \A i \in DOMAIN q : q[i] \in Requests \ {r} /\ waited[q[i]] \in Nat
  <2>1. \A i \in DOMAIN q : q[i] \in Requests \ {r}
    BY QueueSeq DEF Queue, Missed, LineInv, Ensuring
  <2> QED  BY <2>1, Numbers
<1>5. Free(b)' <=> Free(b)
  BY <1>2, <1>3, <1>4 DEF Free
<1>6. Overtaken(b)' <=> Overtaken(b)
  BY <1>3, <1>5 DEF Overtaken
<1>7. ~(mutex[b] = "woken" /\ Free(b))
  BY DEF Queue
<1>8. MutexInv(b)'
  <2>1. mutex[b] = "normal" => ~Free(b)
    BY DEF Queue
  <2>2. mutex[b] # "normal" => Free(b) \/ n > 1
    BY <1>1 DEF MutexInv
  <2>3. ASSUME NEW i \in DOMAIN queue'[b], NEW j \in DOMAIN queue'[b], i <= j,
               pc'[queue'[b][i]] = "wait", pc'[queue'[b][j]] = "wait"
        PROVE  waited'[queue'[b][j]] <= waited'[queue'[b][i]]
    <3>1. CASE i \in DOMAIN q /\ j \in DOMAIN q
      BY <1>2, <1>3, <1>4, <2>3, <3>1 DEF MutexInv
    <3>2. CASE j = n
      <4>1. waited'[queue'[b][j]] = 0 /\ waited'[queue'[b][i]] \in Nat
        BY <1>2, <1>3, <1>4, <3>2
      <4> QED  BY <4>1
    <3>3. CASE i = n
      BY <1>1, <1>2, <1>3, <2>3, <3>2, <3>3
    <3> QED  BY <1>2, <1>3, <3>1, <3>2, <3>3
  <2> QED  BY <1>2, <1>3, <1>5, <2>1, <2>2, <2>3 DEF MutexInv
<1>9. CrowdInv(b)'
  <2> DEFINE spare == IF Overtaken(b) THEN 1 ELSE 0
  <2> SUFFICES ASSUME NEW i \in DOMAIN queue'[b], pc'[queue'[b][i]] = "wait"
               PROVE  /\ i - 1 <= ahead'[queue'[b][i]]
                      /\ waited'[queue'[b][i]] <=
                           Holds(ahead'[queue'[b][i]] + spare - (i - 1)) + kept[b]
    BY <1>3, <1>5, <1>6, <1>7 DEF CrowdInv, Holds
  <2>1. CASE i \in DOMAIN q
    <3>1. queue'[b][i] = q[i] /\ q[i] \in Requests \ {r} /\ pc[q[i]] = "wait"
      BY <1>2, <1>3, <1>4, <2>1
    <3> QED  BY <1>3, <1>7, <2>1, <3>1 DEF CrowdInv, Holds
  <2>2. CASE i = n
    <3>1. queue'[b][i] = r /\ i - 1 = Len(q) /\ ahead'[r] + spare - (i - 1) = spare
      BY <1>1, <1>2, <1>3, <2>2
    <3>2. spare \in Nat /\ Holds(spare) \in Int /\ Holds(spare) >= 0
      BY HoldsMore
    <3> QED  BY <1>1, <1>3, <3>1, <3>2
  <2> QED  BY <1>2, <1>3, <2>1, <2>2
<1> QED  BY <1>3, <1>8, <1>9

(* A newcomer takes the place of the one who left. *)
LEMMA CrowdLockFree ==
  ASSUME TypeOK, LineInv, TimeInv, NEW r \in Requests, LockFree(r),
         NEW b \in Bags, b = bag[r], MutexInv(b), CrowdInv(b)
  PROVE  MutexInv(b)' /\ CrowdInv(b)'
<1> DEFINE q == queue[b]
<1>1. b \in Bags /\ bag' = bag /\ Len(q) \in Nat /\ DOMAIN q = 1..Len(q)
      /\ DOMAIN queue'[b] = 1..(Len(q) + 1) /\ Len(queue'[b]) = Len(q) + 1
      /\ queue'[b][1] = r /\ pc'[r] = "add"
  BY PutInFront
<1>2. \A i \in DOMAIN queue'[b] :
        i # 1 => /\ i - 1 \in DOMAIN q /\ queue'[b][i] = q[i - 1] /\ pc[q[i - 1]] = "wait"
                 /\ q[i - 1] \in Requests \ {r} /\ pc'[q[i - 1]] = "wait"
  BY PutInFront
<1>3. /\ kept' = kept /\ mutex' = mutex /\ waited' = waited /\ ahead' = ahead
      /\ Free(b) /\ mutex[b] # "starving" /\ kept[b] = 0
  BY <1>1 DEF LockFree, TimeInv
<1>4. ~Free(b)'
  BY <1>1 DEF Free
<1>5. q # <<>> => mutex[b] = "woken"
  BY <1>1, <1>3 DEF MutexInv, TypeOK, Modes
<1>6. queue'[b] # <<>>
  BY <1>1
<1>7. MutexInv(b)'
  <2>1. mutex[b] # "normal" => Len(queue'[b]) > 1
    <3>1. mutex[b] # "normal" => q # <<>>
      BY DEF MutexInv
    <3>2. q # <<>> => Len(q) >= 1
      BY <1>1, QueueSeq
    <3> QED  BY <1>1, <3>1, <3>2
  <2>2. ASSUME NEW i \in DOMAIN queue'[b], NEW j \in DOMAIN queue'[b], i <= j,
               pc'[queue'[b][i]] = "wait", pc'[queue'[b][j]] = "wait"
        PROVE  waited'[queue'[b][j]] <= waited'[queue'[b][i]]
    <3>1. i # 1 /\ j # 1 /\ i - 1 <= j - 1
      BY <1>1, <2>2, PutInFront
    <3> QED  BY <1>2, <1>3, <3>1 DEF MutexInv
  <2> QED  BY <1>3, <1>4, <1>6, <2>1, <2>2 DEF MutexInv
<1>8. CrowdInv(b)'
  <2>1. Overtaken(b)' <=> mutex[b] = "woken"
    BY <1>3, <1>4 DEF Overtaken
  <2>9. q # <<>> => mutex'[b] = "woken"
    BY <1>3, <1>5
  <2> SUFFICES ASSUME NEW i \in DOMAIN queue'[b], i # 1
               PROVE  /\ i - 1 <= ahead[q[i - 1]]
                      /\ waited[q[i - 1]] <= Holds(ahead[q[i - 1]] + 1 - (i - 1)) + kept[b]
    <3>1. ASSUME NEW i \in DOMAIN queue'[b], pc'[queue'[b][i]] = "wait"
          PROVE  i # 1 /\ queue'[b][i] = q[i - 1] /\ q # <<>>
      <4>1. i # 1
        BY <1>1, <3>1
      <4> QED  BY <1>2, <4>1
    <3> QED  BY <1>3, <1>4, <2>1, <2>9, <3>1 DEF CrowdInv, Holds
  <2> DEFINE s == q[i - 1]
             x == ahead[s] + 0 - ((i - 1) - 1)
  <2>2. i - 1 \in DOMAIN q /\ s \in Requests /\ pc[s] = "wait" /\ i \in Nat
    BY <1>1, <1>2
  <2>3. mutex[b] = "woken" /\ ~Overtaken(b)
    <3>1. q # <<>>
      BY <2>2
    <3> QED  BY <1>3, <1>5, <3>1 DEF Overtaken
  <2>4. i - 1 <= ahead[s] /\ waited[s] <= Holds(x) + kept[b]
    BY <1>3, <2>2, <2>3 DEF CrowdInv, Holds
  <2>5. x = ahead[s] + 1 - (i - 1)
    BY <2>2, Numbers
  <2> QED  BY <2>4, <2>5
<1> QED  BY <1>1, <1>7, <1>8

(* Someone who has waited in vain keeps newcomers out; if he has not       *)
(* waited for a tick, nobody behind him has.                               *)
LEMMA CrowdPassedOver ==
  ASSUME TypeOK, LineInv, NEW r \in Requests, PassedOver(r),
         NEW b \in Bags, b = bag[r], MutexInv(b), CrowdInv(b)
  PROVE  MutexInv(b)' /\ CrowdInv(b)'
<1> DEFINE q == queue[b]
<1>1. b \in Bags /\ Len(q) \in Nat /\ DOMAIN q = 1..Len(q)
      /\ \A i \in DOMAIN q : q[i] \in Requests
  BY QueueSeq
<1>2. /\ pc' = pc /\ bag' = bag /\ queue' = queue
      /\ kept' = kept /\ waited' = waited /\ ahead' = ahead
      /\ mutex[b] = "woken" /\ ~Free(b) /\ q[2] = r
  BY DEF PassedOver, timers
<1>3. mutex'[b] \in Starved(r)
  BY <1>1 DEF PassedOver, TypeOK
<1>4. mutex'[b] \in {"normal", "starving"} /\ (waited[r] > 0 => mutex'[b] = "starving")
  BY <1>3 DEF Starved
<1>5. ~Free(b)'
  BY <1>2 DEF Free
<1>6. Len(q) > 1 /\ 2 \in DOMAIN q /\ q # <<>>
  BY <1>1, <1>2 DEF MutexInv
<1>7. MutexInv(b)'
  BY <1>2, <1>4, <1>5, <1>6 DEF MutexInv
<1>8. CrowdInv(b)'
  <2> DEFINE spare == IF mutex'[b] = "starving" THEN 1 ELSE 0
  <2>1. Overtaken(b) /\ (Overtaken(b)' <=> mutex'[b] = "starving")
    BY <1>2, <1>4, <1>5 DEF Overtaken
  <2> SUFFICES ASSUME NEW i \in DOMAIN q, pc[q[i]] = "wait"
               PROVE  /\ i - 1 <= ahead[q[i]]
                      /\ waited[q[i]] <= Holds(ahead[q[i]] + spare - (i - 1)) + kept[b]
    BY <1>2, <1>4, <1>5, <2>1 DEF CrowdInv, Holds
  <2>2. i - 1 <= ahead[q[i]]
        /\ waited[q[i]] <= Holds(ahead[q[i]] + 1 - (i - 1)) + kept[b]
    BY <1>2, <2>1 DEF CrowdInv, Holds
  <2>3. CASE mutex'[b] = "starving"
    BY <2>2, <2>3
  <2>4. CASE mutex'[b] # "starving"
    <3>1. ahead[q[i]] \in Nat /\ waited[q[i]] \in Nat /\ kept[b] \in Nat /\ MaxHold \in Nat
          /\ waited[r] \in Nat /\ i \in Nat
      BY <1>1, Numbers, MaxHoldNat
    <3>2. waited[r] = 0
      BY <1>4, <2>4, <3>1
    <3>3. i # 1
      BY <1>1, <1>2, WhoWaits
    <3>4. 2 <= i /\ pc[q[2]] = "wait"
      BY <1>1, <1>2, <3>3 DEF PassedOver
    <3>5. waited[q[i]] <= waited[q[2]]
      BY <1>6, <3>4 DEF MutexInv
    <3>6. waited[q[i]] = 0
      BY <1>2, <3>1, <3>2, <3>5
    <3>7. (ahead[q[i]] + 0 - (i - 1)) \in Nat
      BY <2>2, <3>1
    <3>8. Holds(ahead[q[i]] + 0 - (i - 1)) \in Int /\ Holds(ahead[q[i]] + 0 - (i - 1)) >= 0
      BY <3>7, HoldsMore
    <3> QED  BY <2>2, <2>4, <3>1, <3>6, <3>8
  <2> QED  BY <2>3, <2>4
<1> QED  BY <1>2, <1>7, <1>8

LEMMA CrowdAcquire ==
  ASSUME TypeOK, LineInv, NEW r \in Requests, Acquire(r),
         NEW b \in Bags, b = bag[r], MutexInv(b), CrowdInv(b)
  PROVE  MutexInv(b)' /\ CrowdInv(b)'
<1> DEFINE q == queue[b]
<1>1. b \in Bags /\ Len(q) \in Nat /\ DOMAIN q = 1..Len(q)
      /\ 1 \in DOMAIN q /\ q[1] = r /\ Free(b) /\ q # <<>>
      /\ \A i \in DOMAIN q : q[i] \in Requests
  BY FrontWaits, QueueSeq
<1>2. /\ bag' = bag /\ queue' = queue /\ kept' = kept /\ pc'[r] = "add"
      /\ \A s \in Requests \ {r} :
           pc'[s] = pc[s] /\ ahead'[s] = ahead[s] /\ waited'[s] = waited[s]
  BY DEF Acquire, Goto, TypeOK
<1>3. \A i \in DOMAIN q : i # 1 => q[i] # r
  BY <1>1 DEF LineInv
<1>4. mutex'[b] \in IF mutex[b] = "starving" /\ Len(q) > 1 THEN Starved(r) ELSE {"normal"}
  BY <1>1 DEF Acquire, TypeOK
<1>5. /\ mutex'[b] \in {"normal", "starving"}
      /\ mutex'[b] = "starving" => mutex[b] = "starving" /\ Len(q) > 1
      /\ mutex'[b] = "normal" /\ mutex[b] = "starving" /\ Len(q) > 1 => ~(waited[r] > 0)
  BY <1>4 DEF Starved
<1>6. ~Free(b)'
  BY <1>1, <1>2 DEF Free
<1>7. \A i \in DOMAIN q : pc'[q[i]] = "wait" =>
        /\ i # 1 /\ pc[q[i]] = "wait" /\ Len(q) > 1
        /\ ahead'[q[i]] = ahead[q[i]] /\ waited'[q[i]] = waited[q[i]]
  <2> SUFFICES ASSUME NEW i \in DOMAIN q, pc'[q[i]] = "wait"
               PROVE  /\ i # 1 /\ pc[q[i]] = "wait" /\ Len(q) > 1
                      /\ ahead'[q[i]] = ahead[q[i]] /\ waited'[q[i]] = waited[q[i]]
    OBVIOUS
  <2>1. i # 1
    BY <1>1, <1>2
  <2>2. q[i] \in Requests \ {r} /\ Len(q) > 1
    BY <1>1, <1>3, <2>1
  <2> QED  BY <1>2, <2>1, <2>2
<1>8. MutexInv(b)'
  BY <1>1, <1>2, <1>5, <1>6, <1>7 DEF MutexInv
<1>9. CrowdInv(b)'
  <2> DEFINE spare == IF mutex'[b] = "starving" THEN 1 ELSE 0
  <2>1. Overtaken(b)' <=> mutex'[b] = "starving"
    BY <1>5, <1>6 DEF Overtaken
  <2> SUFFICES ASSUME NEW i \in DOMAIN q, i # 1, pc[q[i]] = "wait", Len(q) > 1
               PROVE  /\ i - 1 <= ahead[q[i]]
                      /\ waited[q[i]] <= Holds(ahead[q[i]] + spare - (i - 1)) + kept[b]
    BY <1>2, <1>5, <1>6, <1>7, <2>1 DEF CrowdInv, Holds
  <2>2. ahead[q[i]] \in Nat /\ waited[q[i]] \in Nat /\ kept[b] \in Nat /\ MaxHold \in Nat
        /\ waited[r] \in Nat /\ i \in Nat
    BY <1>1, Numbers, MaxHoldNat
  <2>3. i - 1 <= ahead[q[i]]
    <3>1. (IF mutex[b] = "woken" /\ Free(b) THEN i ELSE i - 1) <= ahead[q[i]]
      BY DEF CrowdInv
    <3> QED  BY <2>2, <3>1
  <2>4. CASE mutex'[b] = "starving"
    BY <1>5, <2>3, <2>4 DEF CrowdInv, Overtaken, Holds
  <2>5. CASE mutex'[b] = "normal" /\ mutex[b] # "starving"
    BY <1>1, <2>3, <2>5 DEF CrowdInv, Overtaken, Holds
  <2>6. CASE mutex'[b] = "normal" /\ mutex[b] = "starving"
    <3>1. waited[r] = 0 /\ 1 <= i /\ pc[q[1]] = "wait"
      BY <1>1, <1>5, <2>2, <2>6 DEF Acquire
    <3>2. waited[q[i]] <= waited[q[1]]
      BY <1>1, <3>1 DEF MutexInv
    <3>3. waited[q[i]] = 0
      BY <1>1, <2>2, <3>1, <3>2
    <3>4. (ahead[q[i]] + 0 - (i - 1)) \in Nat
      BY <2>2, <2>3
    <3>5. Holds(ahead[q[i]] + 0 - (i - 1)) \in Int /\ Holds(ahead[q[i]] + 0 - (i - 1)) >= 0
      BY <3>4, HoldsMore
    <3> QED  BY <2>2, <2>3, <2>6, <3>3, <3>5
  <2> QED  BY <1>5, <2>4, <2>5, <2>6
<1> QED  BY <1>2, <1>8, <1>9

LEMMA CrowdStep ==
  ASSUME TypeOK, LineInv, TimeInv, \A b \in Bags : MutexInv(b) /\ CrowdInv(b), [Next]_vars
  PROVE  \A b \in Bags : MutexInv(b)' /\ CrowdInv(b)'
<1> SUFFICES ASSUME NEW b \in Bags  PROVE MutexInv(b)' /\ CrowdInv(b)'
  OBVIOUS
<1>0. /\ MutexInv(b) /\ CrowdInv(b)
      /\ \A i \in DOMAIN queue[b] : queue[b][i] \in Requests /\ bag[queue[b][i]] = b
  BY QueueSeq DEF LineInv
(* Nobody joins or leaves a queue, and no time passes. *)
<1>1. ASSUME NEW r \in Requests, NEW step \in Steps \ {"wait"}, Goto(r, step),
             pc[r] # "wait", UNCHANGED <<queue, mutex, kept, waited, ahead>>
      PROVE  MutexInv(b)' /\ CrowdInv(b)'
  <2>1. \A s \in Requests : pc'[s] = "wait" <=> pc[s] = "wait"
    BY <1>1 DEF Goto, TypeOK
  <2> QED  BY <1>0, <1>1, <2>1, CrowdFrame
(* The queue of another bag. *)
<1>2. ASSUME NEW r \in Requests, bag[r] # b,
             \A s \in Requests \ {r} :
               pc'[s] = pc[s] /\ waited'[s] = waited[s] /\ ahead'[s] = ahead[s],
             queue'[b] = queue[b], mutex'[b] = mutex[b], kept'[b] = kept[b]
      PROVE  MutexInv(b)' /\ CrowdInv(b)'
  <2>1. \A i \in DOMAIN queue[b] : queue[b][i] \in Requests \ {r}
    BY <1>0, <1>2
  <2> QED  BY <1>0, <1>2, <2>1, CrowdFrame
<1>3. ASSUME NEW r \in Requests,
             \/ \E c \in Bags, k \in Asked : Ask(r, c, k)
             \/ LocalHit(r) \/ Fallback(r)
      PROVE  MutexInv(b)' /\ CrowdInv(b)'
  <2>1. pc[r] # "wait" /\ UNCHANGED <<queue, mutex, kept, waited, ahead>>
    BY <1>3 DEF Ask, LocalHit, Fallback, StillNotThere, ListFails, Listed, ListedFile,
                Streamed
  <2>2. PICK step \in {"idle", "local", "remote", "stream"} : Goto(r, step)
    BY <1>3 DEF Ask, LocalHit, Fallback, StillNotThere, ListFails, Listed, ListedFile,
                Streamed, Reply
  <2> QED  BY <1>1, <2>1, <2>2 DEF Steps, Calls
<1>4. ASSUME NEW r \in Requests,
             \/ BagAdded(r) \/ AddFails(r) \/ BagIsThere(r) \/ PollAgain(r) \/ Wake(r)
      PROVE  MutexInv(b)' /\ CrowdInv(b)'
  <2>1. pc[r] # "wait" /\ UNCHANGED <<queue, mutex, kept, waited, ahead>>
    BY <1>4 DEF BagAdded, AddFails, BagIsThere, BeginPoll, PollAgain, Wake
  <2>2. PICK step \in {"check", "poll", "sleep"} : Goto(r, step)
    BY <1>4 DEF BagAdded, AddFails, BagIsThere, BeginPoll, PollAgain, Wake
  <2> QED  BY <1>1, <2>1, <2>2 DEF Steps, Calls
<1>5. ASSUME NEW r \in Requests, Acquire(r)  PROVE MutexInv(b)' /\ CrowdInv(b)'
  <2>1. CASE bag[r] = b
    BY <1>0, <1>5, <2>1, CrowdAcquire
  <2>2. CASE bag[r] # b
    <3>1. /\ queue'[b] = queue[b] /\ mutex'[b] = mutex[b] /\ kept'[b] = kept[b]
          /\ \A s \in Requests \ {r} :
               pc'[s] = pc[s] /\ waited'[s] = waited[s] /\ ahead'[s] = ahead[s]
      BY <1>5, <2>2 DEF Acquire, Goto, TypeOK
    <3> QED  BY <1>2, <2>2, <3>1
  <2> QED  BY <2>1, <2>2
<1>6. ASSUME NEW r \in Requests, NEW step \in {"again", "remote"}, Return(r, step),
             pc[r] \in Ensuring
      PROVE  MutexInv(b)' /\ CrowdInv(b)'
  <2>1. CASE bag[r] = b
    BY <1>0, <1>6, <2>1, CrowdReturn
  <2>2. CASE bag[r] # b
    <3>1. /\ queue'[b] = queue[b] /\ mutex'[b] = mutex[b] /\ kept'[b] = kept[b]
          /\ \A s \in Requests \ {r} :
               pc'[s] = pc[s] /\ waited'[s] = waited[s] /\ ahead'[s] = ahead[s]
      BY <1>6, <2>2 DEF Return, Goto, TypeOK
    <3> QED  BY <1>2, <2>2, <3>1
  <2> QED  BY <2>1, <2>2
<1>7. ASSUME NEW r \in Requests, Queue(r)  PROVE MutexInv(b)' /\ CrowdInv(b)'
  <2>1. CASE bag[r] = b
    BY <1>0, <1>7, <2>1, CrowdQueue
  <2>2. CASE bag[r] # b
    <3>1. /\ queue'[b] = queue[b] /\ mutex'[b] = mutex[b] /\ kept'[b] = kept[b]
          /\ \A s \in Requests \ {r} :
               pc'[s] = pc[s] /\ waited'[s] = waited[s] /\ ahead'[s] = ahead[s]
      BY <1>7, <2>2 DEF Queue, Goto, TypeOK
    <3> QED  BY <1>2, <2>2, <3>1
  <2> QED  BY <2>1, <2>2
<1>8. ASSUME NEW r \in Requests, LockFree(r)  PROVE MutexInv(b)' /\ CrowdInv(b)'
  <2>1. CASE bag[r] = b
    BY <1>0, <1>8, <2>1, CrowdLockFree
  <2>2. CASE bag[r] # b
    <3>1. /\ queue'[b] = queue[b] /\ mutex'[b] = mutex[b] /\ kept'[b] = kept[b]
          /\ \A s \in Requests \ {r} :
               pc'[s] = pc[s] /\ waited'[s] = waited[s] /\ ahead'[s] = ahead[s]
      BY <1>8, <2>2 DEF LockFree, Goto, TypeOK
    <3> QED  BY <1>2, <2>2, <3>1
  <2> QED  BY <2>1, <2>2
<1>9. ASSUME NEW r \in Requests, PassedOver(r)  PROVE MutexInv(b)' /\ CrowdInv(b)'
  <2>1. CASE bag[r] = b
    BY <1>0, <1>9, <2>1, CrowdPassedOver
  <2>2. CASE bag[r] # b
    <3>1. /\ queue'[b] = queue[b] /\ mutex'[b] = mutex[b] /\ kept'[b] = kept[b]
          /\ \A s \in Requests \ {r} :
               pc'[s] = pc[s] /\ waited'[s] = waited[s] /\ ahead'[s] = ahead[s]
      BY <1>9, <2>2 DEF PassedOver, timers, TypeOK
    <3> QED  BY <1>2, <2>2, <3>1
  <2> QED  BY <2>1, <2>2
<1>10. ASSUME UNCHANGED <<pc, queue, mutex, waited, ahead, kept>>
       PROVE  MutexInv(b)' /\ CrowdInv(b)'
  BY <1>0, <1>10, CrowdFrame
<1>11. ASSUME NEW c \in Bags, Fetched(c) \/ Forgotten(c)
       PROVE  MutexInv(b)' /\ CrowdInv(b)'
  BY <1>10, <1>11 DEF Fetched, Forgotten, timers
<1>12. CASE Stop \/ UNCHANGED vars
  BY <1>10, <1>12 DEF Stop, vars, timers
<1>13. CASE Tick
  BY <1>0, <1>13, CrowdTick
<1> QED
  BY <1>3, <1>4, <1>5, <1>6, <1>7, <1>8, <1>9, <1>11, <1>12, <1>13
  DEF Next, GetPathInfo, Lock, Ensure, CheckFails, HeaderArrived, GivesUp, Cancelled,
      Ensuring

-----------------------------------------------------------------------------
LEMMA EnsureInit == Init => EnsureInv
<1> SUFFICES ASSUME Init  PROVE EnsureInv
  OBVIOUS
<1>1. \A b \in Bags : queue[b] = <<>> /\ DOMAIN queue[b] = {}
  BY DEF Init
<1>2. TypeOK
  <2>1. queue \in [Bags -> Seq(Requests)]
    BY DEF Init
  <2>2. answer \in [Requests -> Answers]
    BY DEF Init, Answers, NoAnswer
  <2>3. /\ bag \in [Requests -> Bags \cup {NoBag}] /\ kind \in [Requests -> Kinds]
        /\ pc \in [Requests -> Steps] /\ daemon \in [Bags -> Holdings]
    BY DEF Init, Steps, Kinds
  <2>4. /\ spent \in [Requests -> Nat] /\ left \in [Requests -> Int]
        /\ waited \in [Requests -> Nat] /\ ahead \in [Requests -> Nat]
        /\ kept \in [Bags -> Nat] /\ mutex \in [Bags -> Modes]
    BY DEF Init, Modes
  <2> QED  BY <2>1, <2>2, <2>3, <2>4 DEF Init, TypeOK
<1>3. LineInv
  BY <1>1 DEF Init, LineInv, Inside, Ensuring
<1>4. TimeInv
  BY <1>1 DEF Init, TimeInv, Calls
<1>5. \A b \in Bags : MutexInv(b) /\ CrowdInv(b)
  BY <1>1 DEF Init, MutexInv, CrowdInv
<1> QED  BY <1>2, <1>3, <1>4, <1>5 DEF EnsureInv

(* The lock of a bag is held by the first in its queue, and a free lock is *)
(* on its way to the first who waits; how long it has been held, and how   *)
(* long a request has waited for it, is bounded by the step the holder is  *)
(* at, by the place in the queue and by the one newcomer who may be let in *)
(* before those who wait: EnsureInv is inductive (ensureBagInStorage).     *)
THEOREM EnsureCorrect == Spec => []EnsureInv
<1>1. Init => EnsureInv
  BY EnsureInit
<1>2. EnsureInv /\ [Next]_vars => EnsureInv'
  BY TypeStep, LineStep, TimeStep, CrowdStep DEF EnsureInv
<1> QED  BY <1>1, <1>2, PTL DEF Spec

(* No request keeps the lock of a bag for longer than AddBag, GetBag, the  *)
(* deadline of the poll, one more sleep and one more call take             *)
(* (doEnsureBagInStorage).                                                 *)
THEOREM HoldBound == Spec => []HoldBounded
<1>1. EnsureInv => HoldBounded
  BY HoldEnds DEF EnsureInv, HoldBounded
<1> QED  BY <1>1, EnsureCorrect, PTL

(* A request waits for the ensures that were before it, and for one more,  *)
(* however many newcomers find the lock free.                              *)
THEOREM WaitBound == Spec => []WaitBounded
<1>1. EnsureInv => WaitBounded
  <2> SUFFICES ASSUME EnsureInv, NEW r \in Requests, pc[r] = "wait"
               PROVE  waited[r] <= (ahead[r] + 1) * MaxHold
    BY DEF WaitBounded
  <2> DEFINE b == bag[r]
  <2>1. TypeOK /\ LineInv /\ TimeInv /\ (b \in Bags => CrowdInv(b))
    BY DEF EnsureInv
  <2>2. b \in Bags
    BY <2>1 DEF LineInv
  <2>3. PICK i \in DOMAIN queue[b] : queue[b][i] = r
    BY <2>1, <2>2 DEF LineInv, Inside
  <2> DEFINE spare == IF Overtaken(b) THEN 1 ELSE 0
             x == ahead[r] + spare - (i - 1)
  <2>4. i \in Nat /\ i >= 1 /\ ahead[r] \in Nat /\ waited[r] \in Nat
        /\ kept[b] \in Nat /\ MaxHold \in Nat /\ spare \in {0, 1}
    BY <2>1, <2>2, <2>3, QueueSeq, Numbers, MaxHoldNat
  <2>5. i - 1 <= ahead[r] /\ waited[r] <= Holds(x) + kept[b]
    <3>1. (IF mutex[b] = "woken" /\ Free(b) THEN i ELSE i - 1) <= ahead[r]
          /\ waited[r] <= Holds(x) + kept[b]
      BY <2>1, <2>2, <2>3 DEF CrowdInv, Holds
    <3> QED  BY <2>4, <3>1
  <2>6. /\ x \in Int /\ Holds(x) \in Int /\ Holds(x + 1) = Holds(x) + MaxHold
        /\ (ahead[r] + 1) * MaxHold \in Int
        /\ \A y \in Int : y <= ahead[r] + 1 => Holds(y) <= (ahead[r] + 1) * MaxHold
    <3>1. x \in Int /\ ahead[r] + 1 \in Int /\ Holds(ahead[r] + 1) = (ahead[r] + 1) * MaxHold
      BY <2>4 DEF Holds
    <3> HIDE DEF x
    <3> QED  BY <3>1, HoldsMore, HoldsGrow
  <2>7. CASE i = 1
    <3>1. Free(b)
      BY <2>1, <2>2, <2>3, <2>7, WhoWaits
    <3>2. kept[b] = 0
      BY <2>1, <2>2, <3>1 DEF TimeInv
    <3>3. Holds(x) <= (ahead[r] + 1) * MaxHold
      BY <2>4, <2>6, <2>7
    <3> QED  BY <3>2, <3>3, <2>4, <2>5, <2>6
  <2>8. CASE i > 1
    <3>1. kept[b] <= MaxHold
      BY <2>1, <2>2, HoldEnds
    <3>2. Holds(x + 1) <= (ahead[r] + 1) * MaxHold
      BY <2>4, <2>6, <2>8
    <3> QED  BY <3>1, <3>2, <2>4, <2>5, <2>6
  <2> QED  BY <2>4, <2>7, <2>8
<1> QED  BY <1>1, EnsureCorrect, PTL
=============================================================================
