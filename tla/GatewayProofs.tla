----------------------------- MODULE GatewayProofs -----------------------------
(***************************************************************************)
(* What a request is sent, for every bag, every path and whatever the      *)
(* daemon does to the file meanwhile: first serveFile, then what           *)
(* sanitizePath makes of a path and what ls has at it, and last the whole  *)
(* way of a request and of the links of its listing.                       *)
(***************************************************************************)
EXTENDS Gateway, NatRecursion, SequenceTheorems

(* What is known of the file asked for, at each step of serveFile, as long *)
(* as it has stayed as it is (seen has one member).                        *)
Chosen == ContentType(Last(Opened.names))
Page == Chosen.class = "html"
AFile == IsFile(bag, Place)
Still == seen = {disk}

(* A request that is not being served has nothing of an earlier one. *)
FreshInv ==
  /\ pc \in Steps
  /\ pc = "ask" \/ (pc = "idle" /\ answer = NoAnswer) => found = Nothing
  /\ pc \notin {"idle", "ask", "serve"} => found.kind = "local" /\ Opens

DiskInv == disk \in OnDisk /\ disk \in seen

ServeInv ==
  /\ pc = "lstat" => ct = Chosen /\ Page
  /\ pc = "read" => Page /\ (AFile /\ Still => disk = "small")
  /\ pc \in {"stat", "open"} =>
       /\ ct.class # "html"
       /\ Page /\ AFile /\ Still => disk \in {"page", "huge"}
  /\ pc = "open" /\ AFile /\ Still => stat = disk /\ disk \in {"small", "page"}

GatewayInv == FreshInv /\ DiskInv /\ ServeInv /\ PagesAreWrapped /\ StillFileIsSent

-----------------------------------------------------------------------------
LEMMA ReplyFacts ==
  ASSUME NEW code, NEW body, NEW class, NEW size, Reply(code, body, class, size)
  PROVE  /\ pc' = "idle"
         /\ answer'.code = code /\ answer'.body = body
         /\ answer'.class = class /\ answer'.size = size
  BY DEF Reply

LEMMA FailFacts ==
  ASSUME NEW code, Fail(code)
  PROVE  /\ pc' = "idle" /\ answer'.code = code /\ answer'.body = "none"
  BY DEF Fail, Reply

LEMMA NothingKind == Nothing.kind = "none" /\ NoAnswer.code = 0 /\ NoAnswer.body = "none"
  BY DEF Nothing, NoAnswer

LEMMA InvInit == ASSUME Init PROVE GatewayInv
  BY NothingKind DEF Init, GatewayInv, FreshInv, DiskInv, ServeInv, PagesAreWrapped,
     StillFileIsSent, Steps, OnDisk

(* Receive puts aside whatever there was. *)
LEMMA ReceiveKeeps ==
  ASSUME GatewayInv, NEW q, NEW from, Receive(q, from)
  PROVE  GatewayInv'
<1>1. /\ found' = Nothing /\ pc' \in {"idle", "ask"} /\ answer'.body # "file"
      /\ UNCHANGED <<disk, seen>>
  BY NothingKind, FailFacts, ReplyFacts DEF Receive, Fail, Reply
<1>2. found'.kind = "none" BY <1>1, NothingKind
<1> QED BY <1>1, <1>2 DEF GatewayInv, FreshInv, DiskInv, ServeInv, PagesAreWrapped,
       StillFileIsSent, Steps

LEMMA AskKeeps ==
  ASSUME GatewayInv, AskLocal \/ AskRemote \/ (\E code \in {404, 406, 408, 500} : AskFails(code))
  PROVE  GatewayInv'
<1> USE DEF GatewayInv, FreshInv, DiskInv, ServeInv, PagesAreWrapped, StillFileIsSent, Steps
<1>1. pc = "ask" /\ found.kind = "none" /\ UNCHANGED <<disk, seen>>
  BY NothingKind DEF AskLocal, AskRemote, AskFails
<1>2. \/ UNCHANGED found /\ \E code \in {404, 406, 408, 413, 500} : Fail(code)
      \/ pc' = "serve" /\ UNCHANGED answer
  BY DEF AskLocal, AskRemote, AskFails, Info, request
<1>3. CASE UNCHANGED found /\ \E code \in {404, 406, 408, 413, 500} : Fail(code)
  <2>1. pc' = "idle" /\ answer'.code # 0 /\ answer'.body = "none"
    BY <1>3, FailFacts
  <2> QED BY <1>1, <1>3, <2>1, NothingKind
<1>4. CASE pc' = "serve" /\ UNCHANGED answer
  BY <1>1, <1>4
<1> QED BY <1>2, <1>3, <1>4

(* The steps that send a listing or a stream, and the choice of what a     *)
(* local file is.                                                          *)
LEMMA ServeKeeps ==
  ASSUME GatewayInv, SendListing \/ ServeStream \/ ServeLocal
  PROVE  GatewayInv'
<1> USE DEF GatewayInv, FreshInv, DiskInv, ServeInv, PagesAreWrapped, StillFileIsSent, Steps
<1>1. CASE SendListing
  <2>1. pc' = "idle" /\ answer'.code = 200 /\ answer'.body = "listing"
    BY <1>1, ReplyFacts DEF SendListing
  <2> QED BY <1>1, <2>1, NothingKind DEF SendListing, request
<1>2. CASE ServeStream
  <2>1. PICK e : Reply(200, IF ct'.class = "html" THEN "wrapped" ELSE "file", ct'.class, e.size)
    BY <1>2 DEF ServeStream
  <2>2. /\ pc' = "idle" /\ answer'.code = 200
        /\ answer'.body = (IF ct'.class = "html" THEN "wrapped" ELSE "file")
        /\ answer'.class = ct'.class
    BY <2>1, ReplyFacts
  <2> QED BY <1>2, <2>2, NothingKind DEF ServeStream
<1>3. CASE ServeLocal /\ Opens
  <2>1. /\ ct' = Chosen /\ UNCHANGED <<path, bag, found, answer>>
        /\ pc' = IF ct'.class = "html" THEN "lstat" ELSE "stat"
        /\ disk' \in OnDisk /\ disk' \in seen' /\ found.kind = "local"
    BY <1>3 DEF ServeLocal, Chosen
  <2>2. Chosen' = Chosen /\ Opens' BY <1>3, <2>1 DEF Chosen, Opens, Opened
  <2> QED BY <2>1, <2>2 DEF Page
<1>4. CASE ServeLocal /\ ~Opens
  <2>1. /\ pc' = "idle" /\ answer'.code = 400 /\ answer'.body = "none"
        /\ found.kind = "local" /\ UNCHANGED <<path, found, disk, seen>>
    BY <1>4, FailFacts DEF ServeLocal
  <2>2. ~Opens' BY <1>4, <2>1 DEF Opens, Opened
  <2> QED BY <2>1, <2>2, NothingKind
<1> QED BY <1>1, <1>2, <1>3, <1>4

(* What a look at the disk meets of a file that is asked for. *)
LEMMA MetFile == ASSUME AFile PROVE Met = disk
  BY DEF AFile, Met

LEMMA LstatKeeps ==
  ASSUME GatewayInv, Lstat
  PROVE  GatewayInv'
<1> USE DEF GatewayInv, FreshInv, DiskInv, ServeInv, PagesAreWrapped, StillFileIsSent, Steps
<1>1. /\ pc = "lstat" /\ ct = Chosen /\ Page /\ found.kind = "local"
      /\ UNCHANGED <<bag, disk, seen, path, found>>
  BY DEF Lstat
<1>2. /\ Chosen' = Chosen /\ Page' = Page /\ AFile' = AFile /\ Still' = Still
      /\ Opens /\ Opens'
  BY <1>1 DEF Chosen, Page, AFile, Still, Opens, Opened, Place
<1>3. CASE Met \in {"absent", "denied"}
  <2>1. pc' = "idle" /\ answer'.code = 404 /\ answer'.body = "none"
    BY <1>1, <1>3, FailFacts DEF Lstat
  <2>2. AFile /\ Still => answer'.code = Promised(disk)'
    BY <1>1, <1>2, <1>3, <2>1, MetFile DEF Promised, Page, Chosen
  <2> QED BY <1>1, <1>2, <2>1, <2>2, NothingKind DEF AFile, Still
<1>4. CASE Met \in {"page", "huge"}
  <2>1. ct' = Download /\ pc' = "stat" /\ UNCHANGED answer
    BY <1>1, <1>4 DEF Lstat
  <2>2. ct'.class # "html" BY <2>1 DEF Download
  <2>3. AFile => disk \in {"page", "huge"} BY <1>4, MetFile
  <2> QED BY <1>1, <1>2, <2>1, <2>2, <2>3
<1>5. CASE Met \notin {"absent", "denied", "page", "huge"}
  <2>1. pc' = "read" /\ UNCHANGED answer BY <1>1, <1>5 DEF Lstat
  <2>2. AFile => disk = "small" BY <1>5, MetFile DEF OnDisk, Sizes
  <2> QED BY <1>1, <1>2, <2>1, <2>2
<1> QED BY <1>3, <1>4, <1>5

LEMMA ReadKeeps ==
  ASSUME GatewayInv, ReadFile
  PROVE  GatewayInv'
<1> USE DEF GatewayInv, FreshInv, DiskInv, ServeInv, PagesAreWrapped, StillFileIsSent, Steps
<1>1. /\ pc = "read" /\ Page /\ found.kind = "local"
      /\ UNCHANGED <<bag, disk, seen, path, found>>
  BY DEF ReadFile, request
<1>2. /\ Chosen' = Chosen /\ Page' = Page /\ AFile' = AFile /\ Still' = Still
      /\ Opens /\ Opens'
  BY <1>1 DEF Chosen, Page, AFile, Still, Opens, Opened, Place
<1>3. /\ pc' = "idle" /\ answer'.body \in {"none", "wrapped"} /\ answer'.code \in {200, 500}
      /\ Met = "small" => answer'.code = 200 /\ answer'.body = "wrapped" /\ answer'.size = Met
  BY ReplyFacts, FailFacts DEF ReadFile, Sizes
<1>4. AFile /\ Still => answer'.code = Promised(disk)' /\ answer'.size = disk
  BY <1>1, <1>2, <1>3, MetFile DEF Promised, Page, Chosen
<1>5. AFile /\ Still => answer'.body = "wrapped" /\ disk = "small"
  BY <1>1, <1>3, MetFile
<1> QED BY <1>1, <1>2, <1>3, <1>4, <1>5, NothingKind DEF AFile, Still, Page, Chosen

LEMMA StatKeeps ==
  ASSUME GatewayInv, Stat
  PROVE  GatewayInv'
<1> USE DEF GatewayInv, FreshInv, DiskInv, ServeInv, PagesAreWrapped, StillFileIsSent, Steps
<1>1. /\ pc = "stat" /\ ct.class # "html" /\ found.kind = "local"
      /\ UNCHANGED <<bag, disk, seen, path, found, ct>>
      /\ Page /\ AFile /\ Still => disk \in {"page", "huge"}
  BY DEF Stat
<1>2. /\ Chosen' = Chosen /\ Page' = Page /\ AFile' = AFile /\ Still' = Still
      /\ Opens /\ Opens'
  BY <1>1 DEF Chosen, Page, AFile, Still, Opens, Opened, Place
<1>3. CASE Met \in {"absent", "huge"}
  <2>1. /\ pc' = "idle" /\ answer'.body = "none"
        /\ answer'.code = IF Met = "absent" THEN 404 ELSE 413
    BY <1>1, <1>3, FailFacts DEF Stat
  <2>2. AFile /\ Still => answer'.code = Promised(disk)'
    BY <1>1, <1>2, <1>3, <2>1, MetFile DEF Promised
  <2> QED BY <1>1, <1>2, <2>1, <2>2, NothingKind DEF AFile, Still
<1>4. CASE Met = "denied"
  <2>1. pc' = "down" /\ UNCHANGED answer BY <1>1, <1>4 DEF Stat
  <2>2. disk = "denied" BY <1>4 DEF Met
  <2> QED BY <1>1, <1>2, <2>1, <2>2
<1>5. CASE Met \notin {"absent", "denied", "huge"}
  <2>1. pc' = "open" /\ stat' = Met /\ UNCHANGED answer BY <1>1, <1>5 DEF Stat
  <2>2. AFile => disk \in {"small", "page"} /\ stat' = disk
    BY <1>5, <2>1, MetFile DEF OnDisk, Sizes
  <2> QED BY <1>1, <1>2, <2>1, <2>2
<1> QED BY <1>3, <1>4, <1>5

LEMMA OpenKeeps ==
  ASSUME GatewayInv, Open
  PROVE  GatewayInv'
<1> USE DEF GatewayInv, FreshInv, DiskInv, ServeInv, PagesAreWrapped, StillFileIsSent, Steps
<1>1. /\ pc = "open" /\ ct.class # "html" /\ found.kind = "local"
      /\ UNCHANGED <<bag, disk, seen, path, found, ct>>
      /\ AFile /\ Still => disk \in {"small", "page"} /\ (Page => disk = "page")
  BY DEF Open, request
<1>2. /\ Chosen' = Chosen /\ Page' = Page /\ AFile' = AFile /\ Still' = Still
      /\ Opens /\ Opens'
  BY <1>1 DEF Chosen, Page, AFile, Still, Opens, Opened, Place
<1>3. /\ pc' = "idle" /\ answer'.code \in {200, 500}
      /\ answer'.body \in {"none", "file"}
      /\ answer'.body = "file" => answer'.class # "html"
      /\ Met \notin {"absent", "denied"} =>
           answer'.code = 200 /\ answer'.body = "file" /\ answer'.size = Met
  BY <1>1, ReplyFacts, FailFacts DEF Open
<1>4. AFile /\ Still =>
        /\ answer'.code = Promised(disk)' /\ answer'.size = disk /\ answer'.body = "file"
        /\ ~(disk = "small" /\ Page)
  BY <1>1, <1>2, <1>3, MetFile DEF Promised
<1> QED BY <1>1, <1>2, <1>3, <1>4, NothingKind DEF AFile, Still, Page, Chosen

(* The daemon changes the file: it is not still any more. *)
LEMMA ChangeKeeps ==
  ASSUME GatewayInv, DiskChanges
  PROVE  GatewayInv'
<1> USE DEF GatewayInv, FreshInv, DiskInv, ServeInv, PagesAreWrapped, StillFileIsSent, Steps
<1>1. /\ pc \in {"lstat", "read", "stat", "open"} /\ UNCHANGED <<bag, pc, answer, path, found, ct>>
      /\ disk' \in OnDisk /\ disk' # disk /\ disk \in seen' /\ disk' \in seen'
  BY DEF DiskChanges, request
<1>2. Chosen' = Chosen /\ Page' = Page /\ ~Still' /\ Opens'
  BY <1>1 DEF Chosen, Page, Still, Opens, Opened
<1> QED BY <1>1, <1>2 DEF Still

LEMMA OverKeeps ==
  ASSUME GatewayInv, Over
  PROVE  GatewayInv'
<1>1. /\ pc' = "idle" /\ answer' = NoAnswer /\ found' = Nothing
      /\ disk' \in OnDisk /\ disk' \in seen'
  BY DEF Over, OnDisk
<1> QED BY <1>1, NothingKind DEF GatewayInv, FreshInv, DiskInv, ServeInv, PagesAreWrapped,
       StillFileIsSent, Steps

LEMMA MalformedKeeps ==
  ASSUME GatewayInv, GetMalformed
  PROVE  GatewayInv'
<1>1. /\ pc' = "idle" /\ answer'.code = 400 /\ answer'.body = "none"
      /\ found = Nothing /\ UNCHANGED <<found, disk, seen>>
  BY FailFacts DEF GetMalformed, request, GatewayInv, FreshInv
<1> QED BY <1>1, NothingKind DEF GatewayInv, FreshInv, DiskInv, ServeInv, PagesAreWrapped,
       StillFileIsSent, Steps

LEMMA InvStep == ASSUME GatewayInv, [Next]_vars PROVE GatewayInv'
<1>1. CASE UNCHANGED vars
  <2>1. UNCHANGED <<bag, disk, seen, pc, query, path, found, ct, stat, answer, link>>
    BY <1>1 DEF vars, request
  <2>2. Opened' = Opened BY <2>1 DEF Opened
  <2>3. /\ Opens' = Opens /\ Chosen' = Chosen /\ Page' = Page /\ AFile' = AFile /\ Still' = Still
        /\ Place' = Place /\ Promised(disk)' = Promised(disk)
    BY <2>1, <2>2 DEF Opens, Place, Chosen, Page, AFile, Still, Promised
  <2> QED BY <2>1, <2>2, <2>3 DEF GatewayInv, FreshInv, DiskInv, ServeInv, PagesAreWrapped,
       StillFileIsSent
<1>2. ASSUME NEW q \in Queries, Get(q) PROVE GatewayInv'
  BY <1>2, ReceiveKeeps DEF Get
<1>3. CASE Reload BY <1>3, ReceiveKeeps DEF Reload
<1>4. ASSUME NEW e \in found.entries, Follow(e) PROVE GatewayInv'
  BY <1>4, ReceiveKeeps DEF Follow
<1> QED BY <1>1, <1>2, <1>3, <1>4, MalformedKeeps, AskKeeps, ServeKeeps, LstatKeeps,
       ReadKeeps, StatKeeps, OpenKeeps, ChangeKeeps, OverKeeps DEF Next

(* The invariant of serveFile, for every bag, query and disk.              *)
THEOREM ServedCorrectly == Spec => []GatewayInv
  BY InvInit, InvStep, PTL DEF Spec

-----------------------------------------------------------------------------
LEMMA SeqOfMore ==
  ASSUME NEW S, NEW T, S \subseteq T, NEW q \in Seq(S)
  PROVE  q \in Seq(T)
  OBVIOUS

(* filepath.Clean one segment at a time. *)
LEMMA CleanCourse ==
  ASSUME NEW p \in Seq(Segments)
  PROVE  \E after \in [0..Len(p) -> Seq(Segments)] :
           /\ after[0] = <<>>
           /\ \A n \in 1..Len(p) : after[n] = Joined(Rooted(p), after[n - 1], p[n])
           /\ Clean(p) = [rooted |-> Rooted(p), names |-> after[Len(p)]]
<1> DEFINE N == Len(p)
           r == Rooted(p)
           T == Seq(Segments)
           Body(f) == [n \in 0..N |-> IF n = 0 THEN <<>> ELSE Joined(r, f[n - 1], p[n])]
           after == CHOOSE f : f = Body(f)
           step == [n \in 1..N |-> [x \in T |-> Joined(r, x, p[n])]]
<1>1. N \in Nat /\ \A n \in 1..N : p[n] \in Segments OBVIOUS
<1>2. \A x \in T, s \in Segments : Joined(r, x, s) \in T
  <2> TAKE x \in T, s \in Segments
  <2>1. Append(x, s) \in T OBVIOUS
  <2>2. x # <<>> => Front(x) \in T BY DEF Front
  <2> QED BY <2>1, <2>2 DEF Joined
<1>3. step \in [1..N -> [T -> T]] BY <1>1, <1>2
<1>4. \A n \in 1..N, x \in T : step[n][x] = Joined(r, x, p[n]) OBVIOUS
<1>5. <<>> \in T OBVIOUS
<1> HIDE DEF step, N, T, r
<1>6. PICK f \in [0..N -> T] : f[0] = <<>> /\ \A n \in 1..N : f[n] = step[n][f[n - 1]]
  <2> DEFINE base == <<>>
  <2>1. base \in T /\ N \in Nat BY <1>1, <1>5
  <2> HIDE DEF base
  <2>2. \A st \in [1..N -> [T -> T]] :
          \E f \in [0..N -> T] : f[0] = base /\ \A n \in 1..N : f[n] = st[n][f[n - 1]]
    BY <2>1, RecursionOnNat
  <2>3. \E f \in [0..N -> T] : f[0] = base /\ \A n \in 1..N : f[n] = step[n][f[n - 1]]
    BY <2>2, <1>3
  <2> QED BY <2>3 DEF base
<1>7. \A n \in 0..N : n # 0 => n \in 1..N /\ n - 1 \in 0..N BY <1>1
<1>8. f = Body(f) BY <1>4, <1>6, <1>7
<1>9. after = Body(after) BY <1>8
<1>10. Clean(p) = [rooted |-> r, names |-> after[N]] BY DEF Clean, r, N
<1> HIDE DEF after
<1>11. after[0] = <<>> /\ \A n \in 1..N : after[n] = Joined(r, after[n - 1], p[n])
  BY <1>1, <1>9
<1>12. after \in [0..N -> T]
  <2> DEFINE S == {n \in Nat : n <= N => after[n] \in T}
  <2>1. 0 \in S BY <1>5, <1>11
  <2>2. ASSUME NEW n \in Nat, n \in S PROVE n + 1 \in S
    <3> SUFFICES ASSUME n + 1 <= N PROVE after[n + 1] \in T OBVIOUS
    <3>1. n + 1 \in 1..N /\ n <= N /\ (n + 1) - 1 = n BY <1>1
    <3>2. after[n] \in T /\ p[n + 1] \in Segments BY <1>1, <2>2, <3>1
    <3> QED BY <1>2, <1>11, <3>1, <3>2
  <2> HIDE DEF S
  <2>3. \A n \in Nat : n \in S BY <2>1, <2>2, NatSetInduction
  <2>4. \A n \in 0..N : after[n] \in T BY <1>1, <2>3 DEF S
  <2>5. after = [n \in 0..N |-> after[n]] BY <1>9
  <2> QED BY <2>4, <2>5
<1> QED BY <1>10, <1>11, <1>12 DEF r, N, T

(* A path of names only is clean. *)
LEMMA CleanNames ==
  ASSUME NEW p \in Seq(Names), p # <<>>
  PROVE  Clean(p) = [rooted |-> FALSE, names |-> p]
<1>1. p \in Seq(Segments) /\ \A n \in 1..Len(p) : p[n] \in Names /\ p[n] \notin {"", ".", ".."}
  <2>1. Names \subseteq Segments /\ {"", ".", ".."} \cap Names = {}
    BY NamesAssumption DEF Segments
  <2>2. p \in Seq(Segments) BY <2>1, SeqOfMore
  <2>3. \A n \in 1..Len(p) : p[n] \in Names OBVIOUS
  <2> QED BY <2>1, <2>2, <2>3
<1>2. ~Rooted(p)
  <2>1. Len(p) \in Nat OBVIOUS
  <2>2. Len(p) > 1 => 1 \in 1..Len(p) BY <2>1
  <2> QED BY <1>1, <2>2 DEF Rooted
<1>3. PICK after \in [0..Len(p) -> Seq(Segments)] :
           /\ after[0] = <<>>
           /\ \A n \in 1..Len(p) : after[n] = Joined(Rooted(p), after[n - 1], p[n])
           /\ Clean(p) = [rooted |-> Rooted(p), names |-> after[Len(p)]]
  BY <1>1, CleanCourse
<1> DEFINE S == {n \in Nat : n <= Len(p) => after[n] = SubSeq(p, 1, n)}
<1>4. 0 \in S BY <1>3
<1>5. ASSUME NEW n \in Nat, n \in S PROVE n + 1 \in S
  <2> SUFFICES ASSUME n + 1 <= Len(p) PROVE after[n + 1] = SubSeq(p, 1, n + 1) OBVIOUS
  <2>1. n + 1 \in 1..Len(p) /\ n <= Len(p) /\ (n + 1) - 1 = n OBVIOUS
  <2>2. after[n + 1] = Append(SubSeq(p, 1, n), p[n + 1])
    BY <1>1, <1>3, <1>5, <2>1 DEF Joined
  <2>3. Append(SubSeq(p, 1, n), p[n + 1]) = SubSeq(p, 1, n + 1) BY <2>1
  <2> QED BY <2>2, <2>3
<1> HIDE DEF S
<1>6. \A n \in Nat : n \in S BY <1>4, <1>5, NatSetInduction
<1>7. Len(p) \in Nat OBVIOUS
<1>8. after[Len(p)] = SubSeq(p, 1, Len(p)) BY <1>6, <1>7 DEF S
<1>9. SubSeq(p, 1, Len(p)) = p OBVIOUS
<1>10. Rooted(p) = FALSE BY <1>2 DEF Rooted
<1> QED BY <1>3, <1>8, <1>9, <1>10

-----------------------------------------------------------------------------
(* How far down the first segments have gone, one segment at a time. *)
LEMMA CountTo ==
  ASSUME NEW S, NEW n \in Nat
  PROVE  /\ Cardinality({j \in 1..n : j \in S}) \in Nat
         /\ Cardinality({j \in 1..n + 1 : j \in S}) =
              Cardinality({j \in 1..n : j \in S}) + IF n + 1 \in S THEN 1 ELSE 0
<1> DEFINE A == {j \in 1..n : j \in S}
           B == {j \in 1..n + 1 : j \in S}
<1>1. IsFiniteSet(1..n) BY FS_Interval
<1>2. IsFiniteSet(A) BY <1>1, FS_Subset
<1>3. Cardinality(A) \in Nat BY <1>2, FS_CardinalityType
<1>4. CASE n + 1 \in S
  <2>1. B = A \cup {n + 1} /\ n + 1 \notin A BY <1>4
  <2> HIDE DEF A, B
  <2>2. Cardinality(A \cup {n + 1}) = Cardinality(A) + 1 BY <1>2, <2>1, FS_AddElement
  <2> QED BY <1>3, <1>4, <2>1, <2>2 DEF A, B
<1>5. CASE n + 1 \notin S
  <2>1. B = A BY <1>5
  <2> HIDE DEF A, B
  <2> QED BY <1>3, <1>5, <2>1 DEF A, B
<1> QED BY <1>4, <1>5

Pace(s) == IF s \in Names THEN 1 ELSE IF s = ".." THEN -1 ELSE 0

LEMMA DepthSteps ==
  ASSUME NEW p \in Seq(Segments)
  PROVE  /\ Depth(p, 0) = 0
         /\ \A n \in Nat : Depth(p, n) \in Int
         /\ \A n \in Nat : Depth(p, n + 1) = Depth(p, n) + Pace(p[n + 1])
<1> DEFINE U == {j \in Nat : p[j] \in Names}
           V == {j \in Nat : p[j] = ".."}
           Count(S, n) == Cardinality({j \in 1..n : j \in S})
<1>1. \A n \in Nat : {j \in 1..n : p[j] \in Names} = {j \in 1..n : j \in U}
                  /\ {j \in 1..n : p[j] = ".."} = {j \in 1..n : j \in V}
  OBVIOUS
<1>2. \A n \in Nat : Depth(p, n) = Count(U, n) - Count(V, n) BY <1>1 DEF Depth
<1>3. \A n \in Nat : n + 1 \in U <=> p[n + 1] \in Names OBVIOUS
<1>4. \A n \in Nat : n + 1 \in V <=> p[n + 1] = ".." OBVIOUS
<1> HIDE DEF U, V
<1>5. \A S : \A n \in Nat : /\ Count(S, n) \in Nat
                            /\ Count(S, n + 1) = Count(S, n) + IF n + 1 \in S THEN 1 ELSE 0
  BY CountTo
<1>6. \A S : Count(S, 0) = 0
  <2> TAKE S
  <2>1. {j \in 1..0 : j \in S} = {} OBVIOUS
  <2> QED BY <2>1, FS_EmptySet
<1> HIDE DEF Count
<1>7. ".." \notin Names BY NamesAssumption
<1>8. Depth(p, 0) = 0 BY <1>2, <1>6
<1>9. \A n \in Nat : Depth(p, n) \in Int BY <1>2, <1>5
<1>10. ASSUME NEW n \in Nat PROVE Depth(p, n + 1) = Depth(p, n) + Pace(p[n + 1])
  <2>1. n + 1 \in Nat OBVIOUS
  <2>2. /\ Depth(p, n) = Count(U, n) - Count(V, n)
        /\ Depth(p, n + 1) = Count(U, n + 1) - Count(V, n + 1)
    BY <1>2, <2>1
  <2>3. /\ Count(U, n) \in Nat /\ Count(V, n) \in Nat
        /\ Count(U, n + 1) = Count(U, n) + IF p[n + 1] \in Names THEN 1 ELSE 0
        /\ Count(V, n + 1) = Count(V, n) + IF p[n + 1] = ".." THEN 1 ELSE 0
    BY <1>3, <1>4, <1>5
  <2> QED BY <1>7, <2>2, <2>3 DEF Pace
<1> QED BY <1>8, <1>9, <1>10

(* The names that nothing among the first n segments takes back, and where *)
(* Clean has them: in their order, each at the place its depth gives.      *)
KeptTo(p, n) ==
  {i \in 1..n : p[i] \in Names /\ \A j \in i..n : Depth(p, j) >= Depth(p, i)}
Placed(p, n, names, ks) ==
  /\ names \in Seq(Names) /\ ks \in [1..Len(names) -> KeptTo(p, n)]
  /\ \A i \in KeptTo(p, n) : \E x \in 1..Len(names) : ks[x] = i
  /\ \A x \in 1..Len(names) :
       /\ names[x] = p[ks[x]] /\ Depth(p, ks[x]) = Depth(p, n) - Len(names) + x
       /\ \A y \in 1..x - 1 : ks[y] < ks[x]

LEMMA FrontIs ==
  ASSUME NEW S, NEW q \in Seq(S), q # <<>>
  PROVE  /\ Len(q) \in Nat \ {0} /\ Front(q) \in Seq(S) /\ Len(Front(q)) = Len(q) - 1
         /\ \A x \in 1..Len(q) - 1 : Front(q)[x] = q[x]
         /\ Last(q) \in S /\ Last(q) = q[Len(q)]
<1>1. Len(q) \in Nat \ {0} OBVIOUS
<1>2. Front(q) \in Seq(S) /\ Len(Front(q)) = Len(q) - 1
  <2> DEFINE m == Len(q) - 1
  <2>1. m \in Nat /\ 1 \in Int /\ m \in Int /\ \A x \in 1..m : q[x] \in S BY <1>1
  <2> HIDE DEF m
  <2>2. SubSeq(q, 1, m) \in Seq(S) /\ Len(SubSeq(q, 1, m)) = IF 1 <= m THEN m - 1 + 1 ELSE 0
    BY <2>1, SubSeqProperties
  <2>3. Len(SubSeq(q, 1, m)) = m BY <2>1, <2>2
  <2> QED BY <2>2, <2>3 DEF Front, m
<1>3. \A x \in 1..Len(q) - 1 : Front(q)[x] = q[x] BY <1>1 DEF Front
<1> QED BY <1>1, <1>2, <1>3 DEF Last

LEMMA KeptStep ==
  ASSUME NEW p \in Seq(Segments), NEW n \in Nat, n + 1 <= Len(p),
         \A i \in KeptTo(p, n) : Depth(p, i) <= Depth(p, n)
  PROVE  KeptTo(p, n + 1) =
           {i \in KeptTo(p, n) : Depth(p, i) <= Depth(p, n + 1)}
             \cup IF p[n + 1] \in Names THEN {n + 1} ELSE {}
<1>1. \A i \in 1..n : i..n+1 = (i..n) \cup {n + 1} OBVIOUS
<1>2. (n + 1)..(n + 1) = {n + 1} /\ 1..n+1 = (1..n) \cup {n + 1} /\ n + 1 \notin 1..n OBVIOUS
<1>3. \A i \in Nat : Depth(p, i) \in Int BY DepthSteps
<1>4. \A i \in 1..n : i \in KeptTo(p, n + 1) <=> i \in KeptTo(p, n) /\ Depth(p, i) <= Depth(p, n + 1)
  BY <1>1, <1>2, <1>3 DEF KeptTo
<1>5. n + 1 \in KeptTo(p, n + 1) <=> p[n + 1] \in Names
  BY <1>2, <1>3 DEF KeptTo
<1>6. KeptTo(p, n) \subseteq 1..n /\ KeptTo(p, n + 1) \subseteq 1..n+1 BY DEF KeptTo
<1> QED BY <1>2, <1>4, <1>5, <1>6

LEMMA PlacedStep ==
  ASSUME NEW p \in Seq(Segments), NEW n \in Nat, n + 1 <= Len(p),
         NEW names, NEW ks, Placed(p, n, names, ks), NEW rooted,
         p[n + 1] = ".." /\ names = <<>> => rooted
  PROVE  \E k2 : Placed(p, n + 1, Joined(rooted, names, p[n + 1]), k2)
<1> DEFINE s == p[n + 1]
           L == Len(names)
           K == KeptTo(p, n)
<1>1. s \in Names \cup {"", ".", ".."} /\ {"", ".", ".."} \cap Names = {}
  <2>1. n + 1 \in 1..Len(p) OBVIOUS
  <2>2. s \in Segments BY <2>1
  <2> QED BY <2>2, NamesAssumption DEF Segments
<1>2. /\ \A i \in Nat : Depth(p, i) \in Int
      /\ Depth(p, n + 1) = Depth(p, n) + Pace(s)
  BY DepthSteps
<1>3. /\ L \in Nat /\ names \in Seq(Names) /\ ks \in [1..L -> K] /\ K \subseteq 1..n
      /\ \A i \in K : \E x \in 1..L : ks[x] = i
      /\ \A x \in 1..L :
           /\ names[x] = p[ks[x]] /\ Depth(p, ks[x]) = Depth(p, n) - L + x
           /\ \A y \in 1..x - 1 : ks[y] < ks[x]
  BY DEF Placed, KeptTo
<1>4. \A i \in K : Depth(p, i) <= Depth(p, n) BY <1>2, <1>3
<1>5. KeptTo(p, n + 1) =
           {i \in K : Depth(p, i) <= Depth(p, n + 1)} \cup IF s \in Names THEN {n + 1} ELSE {}
  BY <1>4, KeptStep
<1> HIDE DEF s, L, K
<1>6. CASE s \in Names
  <2> DEFINE k2 == [x \in 1..L + 1 |-> IF x = L + 1 THEN n + 1 ELSE ks[x]]
             all == Append(names, s)
  <2>1. Depth(p, n + 1) = Depth(p, n) + 1 BY <1>2, <1>6 DEF Pace
  <2>2. KeptTo(p, n + 1) = K \cup {n + 1}
    <3>1. \A i \in K : Depth(p, i) <= Depth(p, n + 1)
      BY <1>2, <1>3, <1>4, <2>1
    <3> QED BY <1>5, <1>6, <3>1
  <2>3. all \in Seq(Names) /\ Len(all) = L + 1 /\ all[L + 1] = s /\ \A x \in 1..L : all[x] = names[x]
    BY <1>3, <1>6 DEF L
  <2>4. k2 \in [1..L + 1 -> K \cup {n + 1}] BY <1>3
  <2>5. k2[L + 1] = n + 1 /\ \A x \in 1..L : k2[x] = ks[x] /\ k2[x] \in 1..n
    <3>1. \A x \in 1..L : k2[x] = ks[x] BY <1>3
    <3>2. \A x \in 1..L : ks[x] \in 1..n BY <1>3
    <3>3. k2[L + 1] = n + 1 BY <1>3
    <3> QED BY <3>1, <3>2, <3>3
  <2>6. Joined(rooted, names, s) = all BY <1>1, <1>6 DEF Joined
  <2> HIDE DEF k2, all
  <2>7. \A i \in K \cup {n + 1} : \E x \in 1..L + 1 : k2[x] = i
    BY <1>3, <2>5
  <2>8. ASSUME NEW x \in 1..L + 1
        PROVE  /\ all[x] = p[k2[x]] /\ Depth(p, k2[x]) = Depth(p, n + 1) - (L + 1) + x
               /\ \A y \in 1..x - 1 : k2[y] < k2[x]
    <3>1. CASE x = L + 1
      <4>1. \A y \in 1..x - 1 : k2[y] < k2[x] BY <1>3, <2>5, <3>1
      <4>2. Depth(p, n + 1) \in Int BY <1>2
      <4> QED BY <1>3, <2>3, <2>5, <3>1, <4>1, <4>2 DEF s
    <3>2. CASE x \in 1..L
      <4>1. \A y \in 1..x - 1 : y \in 1..L /\ ks[y] < ks[x] BY <1>3, <3>2
      <4>2. \A y \in 1..x - 1 : k2[y] < k2[x] BY <2>5, <3>2, <4>1
      <4>3. Depth(p, n) \in Int BY <1>2
      <4> QED BY <1>3, <2>1, <2>3, <2>5, <3>2, <4>2, <4>3
    <3> QED BY <1>3, <3>1, <3>2
  <2>9. Placed(p, n + 1, all, k2) BY <2>2, <2>3, <2>4, <2>7, <2>8 DEF Placed
  <2> QED BY <2>6, <2>9 DEF s
<1>7. CASE s \in {"", "."}
  <2>0. Pace(s) = 0 BY <1>1, <1>7 DEF Pace
  <2>1. Depth(p, n + 1) = Depth(p, n) BY <1>2, <2>0
  <2>2. KeptTo(p, n + 1) = K BY <1>1, <1>4, <1>5, <1>7, <2>1
  <2>3. Joined(rooted, names, s) = names BY <1>7 DEF Joined
  <2>4. Placed(p, n + 1, names, ks) BY <1>3, <2>1, <2>2 DEF Placed, L
  <2> QED BY <2>3, <2>4 DEF s
<1>8. CASE s = ".." /\ names = <<>>
  <2>1. rooted BY <1>8 DEF s
  <2>2. L = 0 /\ K = {} BY <1>3, <1>8 DEF L
  <2>3. KeptTo(p, n + 1) = {} BY <1>1, <1>5, <1>8, <2>2
  <2>4. Joined(rooted, names, s) = names BY <1>8, <2>1 DEF Joined
  <2>5. Placed(p, n + 1, names, ks) BY <1>3, <2>2, <2>3 DEF Placed, L
  <2> QED BY <2>4, <2>5 DEF s
<1>9. CASE s = ".." /\ names # <<>>
  <2> DEFINE k2 == [x \in 1..L - 1 |-> ks[x]]
             rest == Front(names)
  <2>1. Depth(p, n + 1) = Depth(p, n) - 1 BY <1>1, <1>2, <1>9 DEF Pace
  <2>2. L > 0 /\ Last(names) \in Names BY <1>3, <1>9, FrontIs DEF L
  <2>3. Joined(rooted, names, s) = rest BY <1>1, <1>9, <2>2 DEF Joined
  <2>4. rest \in Seq(Names) /\ Len(rest) = L - 1 /\ \A x \in 1..L - 1 : rest[x] = names[x]
    BY <1>3, <1>9, FrontIs DEF L
  <2>5. \A x \in 1..L : ks[x] \in KeptTo(p, n + 1) <=> x \in 1..L - 1
    <3>1. KeptTo(p, n + 1) = {i \in K : Depth(p, i) <= Depth(p, n) - 1}
      BY <1>1, <1>5, <1>9, <2>1
    <3> TAKE x \in 1..L
    <3>2. ks[x] \in K /\ Depth(p, ks[x]) = Depth(p, n) - L + x BY <1>3
    <3>3. Depth(p, n) \in Int /\ L \in Nat BY <1>2, <1>3
    <3>4. Depth(p, ks[x]) <= Depth(p, n) - 1 <=> x \in 1..L - 1 BY <3>2, <3>3
    <3> QED BY <3>1, <3>2, <3>4
  <2>6. KeptTo(p, n + 1) \subseteq K BY <1>1, <1>5, <1>9
  <2>7. k2 \in [1..L - 1 -> KeptTo(p, n + 1)] BY <1>3, <2>5
  <2>8. \A x \in 1..L - 1 : x \in 1..L /\ k2[x] = ks[x] BY <1>3
  <2> HIDE DEF k2, rest
  <2>9. \A i \in KeptTo(p, n + 1) : \E x \in 1..L - 1 : k2[x] = i
    BY <1>3, <2>5, <2>6, <2>8
  <2>10. ASSUME NEW x \in 1..L - 1
         PROVE  /\ rest[x] = p[k2[x]] /\ Depth(p, k2[x]) = Depth(p, n + 1) - (L - 1) + x
                /\ \A y \in 1..x - 1 : k2[y] < k2[x]
    <3>1. \A y \in 1..x - 1 : y \in 1..L - 1 /\ ks[y] < ks[x] BY <1>3
    <3>2. Depth(p, n) \in Int BY <1>2
    <3>3. \A y \in 1..x - 1 : k2[y] < k2[x] BY <2>8, <3>1
    <3>4. x \in 1..L /\ k2[x] = ks[x] /\ rest[x] = names[x] BY <2>4, <2>8
    <3>5. names[x] = p[ks[x]] /\ Depth(p, ks[x]) = Depth(p, n) - L + x BY <1>3, <3>4
    <3>6. Depth(p, n) - L + x = Depth(p, n) - 1 - (L - 1) + x BY <1>3, <3>2
    <3> QED BY <2>1, <3>3, <3>4, <3>5, <3>6
  <2>11. Placed(p, n + 1, rest, k2) BY <2>4, <2>7, <2>9, <2>10 DEF Placed
  <2> QED BY <2>3, <2>11 DEF s
<1> QED BY <1>1, <1>6, <1>7, <1>8, <1>9

(* After n segments: the names that are kept, each in its place; or, once   *)
(* a path without a slash in front has climbed, a ".." in front.           *)
Level(p, n) == Rooted(p) \/ \A j \in 1..n : Depth(p, j) >= 0
Course(p, n, names) ==
  /\ names \in Seq(Segments)
  /\ Level(p, n) =>
       /\ \E ks : Placed(p, n, names, ks)
       /\ ~Rooted(p) => Depth(p, n) = Len(names)
  /\ ~Level(p, n) => names # <<>> /\ names[1] = ".."

LEMMA JoinedLength ==
  ASSUME NEW names \in Seq(Names), NEW s \in Segments, s = ".." => names # <<>>, NEW rooted
  PROVE  Len(Joined(rooted, names, s)) = Len(names) + Pace(s)
<1>1. s \in Names \cup {"", ".", ".."} /\ {"", ".", ".."} \cap Names = {}
  BY NamesAssumption DEF Segments
<1>2. CASE s \in Names
  <2>1. Joined(rooted, names, s) = Append(names, s) BY <1>1, <1>2 DEF Joined
  <2> QED BY <1>2, <2>1 DEF Pace
<1>3. CASE s \in {"", "."}
  <2>1. Pace(s) = 0 BY <1>1, <1>3 DEF Pace
  <2>2. Joined(rooted, names, s) = names BY <1>3 DEF Joined
  <2>3. Len(names) \in Nat OBVIOUS
  <2> QED BY <2>1, <2>2, <2>3
<1>4. CASE s = ".."
  <2>1. names # <<>> /\ Pace(s) = -1 BY <1>1, <1>4 DEF Pace
  <2>2. Last(names) \in Names BY <2>1, FrontIs
  <2>3. Joined(rooted, names, s) = Front(names) BY <1>1, <1>4, <2>1, <2>2 DEF Joined
  <2>4. Len(names) \in Nat /\ Len(Front(names)) = Len(names) - 1 BY <2>1, FrontIs
  <2> QED BY <2>1, <2>3, <2>4
<1> QED BY <1>1, <1>2, <1>3, <1>4

LEMMA JoinedIs ==
  ASSUME NEW names \in Seq(Segments), NEW s \in Segments, NEW rooted
  PROVE  Joined(rooted, names, s) \in Seq(Segments)
<1>1. names # <<>> => Front(names) \in Seq(Segments) BY FrontIs
<1>2. Append(names, s) \in Seq(Segments) OBVIOUS
<1> QED BY <1>1, <1>2 DEF Joined

LEMMA CourseStep ==
  ASSUME NEW p \in Seq(Segments), NEW n \in Nat, n + 1 <= Len(p),
         NEW names, Course(p, n, names)
  PROVE  Course(p, n + 1, Joined(Rooted(p), names, p[n + 1]))
<1> DEFINE s == p[n + 1]
           r == Rooted(p)
           next == Joined(r, names, s)
<1>1. s \in Segments
  <2>1. n + 1 \in 1..Len(p) OBVIOUS
  <2> QED BY <2>1
<1>2. names \in Seq(Segments) /\ next \in Seq(Segments) BY <1>1, JoinedIs DEF Course
<1>3. /\ Depth(p, n) \in Int /\ Depth(p, n + 1) = Depth(p, n) + Pace(s)
      /\ Pace(s) \in {-1, 0, 1} /\ (Pace(s) = -1 => s = "..")
  BY DepthSteps DEF Pace
<1>4. 1..n+1 = (1..n) \cup {n + 1} OBVIOUS
<1>5. Level(p, n + 1) <=> Level(p, n) /\ (r \/ Depth(p, n + 1) >= 0)
  BY <1>4 DEF Level
<1> HIDE DEF s, r, next
<1>6. CASE Level(p, n + 1)
  <2>1. PICK ks : Placed(p, n, names, ks) BY <1>5, <1>6 DEF Course
  <2>2. ~r => Depth(p, n) = Len(names) BY <1>5, <1>6 DEF Course, r
  <2>3. names \in Seq(Names) BY <2>1 DEF Placed
  <2>4. ~r => (s = ".." => names # <<>>)
    <3>1. ".." \notin Names BY NamesAssumption
    <3>2. s = ".." => Pace(s) = -1 BY <3>1 DEF Pace
    <3>3. names = <<>> => Len(names) = 0 OBVIOUS
    <3> QED BY <1>3, <1>5, <1>6, <2>2, <3>2, <3>3
  <2>5. \E k2 : Placed(p, n + 1, next, k2)
    <3>1. p[n + 1] = ".." /\ names = <<>> => Rooted(p) BY <2>4 DEF s, r
    <3>2. \E k2 : Placed(p, n + 1, Joined(Rooted(p), names, p[n + 1]), k2)
      BY <2>1, <3>1, PlacedStep
    <3> QED BY <3>2 DEF next, s, r
  <2>6. ~r => Depth(p, n + 1) = Len(next)
    <3>1. CASE ~r
      <4>1. Len(next) = Len(names) + Pace(s)
        BY <1>1, <2>3, <2>4, <3>1, JoinedLength DEF next
      <4> QED BY <1>3, <2>2, <3>1, <4>1
    <3> QED BY <3>1
  <2> QED BY <1>2, <1>6, <2>5, <2>6 DEF Course, next, s, r
<1>7. CASE ~Level(p, n + 1) /\ Level(p, n)
  <2>1. ~r /\ Depth(p, n + 1) < 0
    <3>1. Depth(p, n + 1) \in Int BY <1>3
    <3> QED BY <1>5, <1>7, <3>1
  <2>2. Depth(p, n) = Len(names) /\ Len(names) \in Nat
    BY <1>2, <1>7, <2>1 DEF Course, r
  <2>3. s = ".." /\ Len(names) = 0 BY <1>3, <2>1, <2>2
  <2>4. names = <<>> BY <1>2, <2>3
  <2>5. next = <<"..">> BY <2>1, <2>3, <2>4 DEF Joined, next
  <2> QED BY <1>2, <1>7, <2>5 DEF Course, next, s, r
<1>8. CASE ~Level(p, n)
  <2>1. names # <<>> /\ names[1] = ".." /\ ~r BY <1>8 DEF Course, Level, r
  <2>2. Len(names) \in Nat \ {0} BY <1>2, <2>1
  <2>3. next # <<>> /\ next[1] = ".."
    <3>1. CASE next = names BY <2>1, <3>1
    <3>2. CASE next = Append(names, s) BY <1>2, <2>1, <2>2, <3>2
    <3>3. CASE next = Front(names) /\ Last(names) # ".."
      <4>1. Len(names) # 1 BY <2>1, <3>3 DEF Last
      <4>2. /\ Len(Front(names)) = Len(names) - 1 /\ Front(names) \in Seq(Segments)
            /\ \A x \in 1..Len(names) - 1 : Front(names)[x] = names[x]
        BY <1>2, <2>1, FrontIs
      <4>3. 1 \in 1..Len(names) - 1 /\ Len(Front(names)) # 0 BY <2>2, <4>1, <4>2
      <4> QED BY <2>1, <3>3, <4>2, <4>3
    <3> QED BY <2>1, <3>1, <3>2, <3>3 DEF next, Joined
  <2> QED BY <1>2, <1>5, <1>8, <2>3 DEF Course, next, s, r
<1> QED BY <1>6, <1>7, <1>8

(* What Clean leaves of a path. *)
InPlace(p, names) ==
  /\ names \in Seq(Names)
  /\ \E kept \in [DOMAIN names -> Kept(p)] :
       /\ Range(kept) = Kept(p)
       /\ \A k \in DOMAIN kept : names[k] = p[kept[k]] /\ \A j \in 1..k - 1 : kept[j] < kept[k]

LEMMA CleanIs ==
  ASSUME NEW p \in Seq(Segments)
  PROVE  /\ Clean(p).rooted = Rooted(p) /\ Clean(p).names \in Seq(Segments)
         /\ Climbs(p) => ".." \in Range(Clean(p).names)
         /\ ~Climbs(p) => InPlace(p, Clean(p).names)
<1>1. PICK after \in [0..Len(p) -> Seq(Segments)] :
           /\ after[0] = <<>>
           /\ \A n \in 1..Len(p) : after[n] = Joined(Rooted(p), after[n - 1], p[n])
           /\ Clean(p) = [rooted |-> Rooted(p), names |-> after[Len(p)]]
  BY CleanCourse
<1> DEFINE S == {n \in Nat : n <= Len(p) => Course(p, n, after[n])}
<1>2. 0 \in S
  <2>1. KeptTo(p, 0) = {} /\ Depth(p, 0) = 0 BY DepthSteps DEF KeptTo
  <2> DEFINE ks == [x \in 1..0 |-> 0]
  <2>2. ks \in [1..0 -> KeptTo(p, 0)] OBVIOUS
  <2> HIDE DEF ks
  <2>3. Placed(p, 0, <<>>, ks) BY <2>1, <2>2 DEF Placed
  <2>4. Course(p, 0, <<>>) BY <2>1, <2>3 DEF Course, Level
  <2> QED BY <1>1, <2>4
<1>3. ASSUME NEW n \in Nat, n \in S PROVE n + 1 \in S
  <2> SUFFICES ASSUME n + 1 <= Len(p) PROVE Course(p, n + 1, after[n + 1]) OBVIOUS
  <2>1. n + 1 \in 1..Len(p) /\ n <= Len(p) /\ (n + 1) - 1 = n OBVIOUS
  <2>2. after[n + 1] = Joined(Rooted(p), after[n], p[n + 1]) BY <1>1, <2>1
  <2>3. Course(p, n, after[n]) BY <1>3, <2>1
  <2> HIDE DEF S
  <2> QED BY <2>2, <2>3, CourseStep
<1> HIDE DEF S
<1>4. \A n \in Nat : n \in S BY <1>2, <1>3, NatSetInduction
<1>5. Len(p) \in Nat OBVIOUS
<1> DEFINE c == after[Len(p)]
<1>6. Course(p, Len(p), c) /\ Clean(p).names = c /\ Clean(p).rooted = Rooted(p)
  BY <1>1, <1>4, <1>5 DEF S
<1> HIDE DEF c
<1>7. \A j \in 1..Len(p) : Depth(p, j) \in Int BY DepthSteps
<1>8. DOMAIN p = 1..Len(p) /\ (Climbs(p) <=> ~Level(p, Len(p)))
  <2>1. DOMAIN p = 1..Len(p) OBVIOUS
  <2>2. \A j \in 1..Len(p) : ~(Depth(p, j) >= 0) <=> Depth(p, j) < 0 BY <1>7
  <2>3. (\E j \in 1..Len(p) : Depth(p, j) < 0) <=> ~\A j \in 1..Len(p) : Depth(p, j) >= 0 BY <2>2
  <2> QED BY <2>1, <2>3 DEF Climbs, Level
<1>9. Kept(p) = KeptTo(p, Len(p)) BY <1>8 DEF Kept, KeptTo
<1>10. Climbs(p) => ".." \in Range(c)
  <2>1. Climbs(p) => c \in Seq(Segments) /\ c # <<>> /\ c[1] = ".." BY <1>6, <1>8 DEF Course
  <2>2. c \in Seq(Segments) /\ c # <<>> => 1 \in DOMAIN c OBVIOUS
  <2> QED BY <2>1, <2>2 DEF Range
<1>11. ~Climbs(p) => InPlace(p, c)
  <2> SUFFICES ASSUME ~Climbs(p) PROVE InPlace(p, c) OBVIOUS
  <2>1. PICK ks : Placed(p, Len(p), c, ks) BY <1>6, <1>8 DEF Course
  <2>2. c \in Seq(Names) /\ DOMAIN c = 1..Len(c) /\ ks \in [DOMAIN c -> Kept(p)]
    BY <1>9, <2>1 DEF Placed
  <2>3. Range(ks) = Kept(p) BY <1>9, <2>1, <2>2 DEF Placed, Range
  <2>4. \A k \in DOMAIN ks : c[k] = p[ks[k]] /\ \A j \in 1..k - 1 : ks[j] < ks[k]
    BY <2>1, <2>2 DEF Placed
  <2> QED BY <2>2, <2>3, <2>4 DEF InPlace
<1> QED BY <1>6, <1>10, <1>11 DEF Course

LEMMA TrimmedIs ==
  ASSUME NEW q \in Seq(Segments) \ {<<>>}
  PROVE  TrimSpace(q) \in Seq(Segments) \ {<<>>}
<1>1. Len(q) \in Nat /\ DOMAIN q = 1..Len(q) /\ \A i \in 1..Len(q) : q[i] \in Segments OBVIOUS
<1>2. /\ DOMAIN TrimSpace(q) = 1..Len(q)
      /\ \A i \in 1..Len(q) : TrimSpace(q)[i] \in Segments
  BY <1>1, NamesAssumption DEF TrimSpace
<1>3. TrimSpace(q) = [i \in 1..Len(q) |-> TrimSpace(q)[i]] BY <1>1 DEF TrimSpace
<1>4. Len(TrimSpace(q)) = Len(q) BY <1>1, <1>2, <1>3
<1>5. TrimSpace(q) \in Seq(Segments) BY <1>1, <1>2, <1>3
<1>6. Len(q) # 0 OBVIOUS
<1> QED BY <1>4, <1>5, <1>6

Plain(p) == \A i \in DOMAIN p : p[i] \in {"", "."}

LEMMA ShortPlain ==
  \A x, y : x \in {"", "."} /\ y \in {"", "."} => Plain(<<x>>) /\ Plain(<<x, y>>)
<1>1. \A x : \A i \in DOMAIN (<<x>>) : <<x>>[i] = x OBVIOUS
<1>2. \A x, y : \A i \in DOMAIN (<<x, y>>) : <<x, y>>[i] \in {x, y} OBVIOUS
<1>3. ASSUME NEW x, NEW y, x \in {"", "."}, y \in {"", "."} PROVE Plain(<<x>>) /\ Plain(<<x, y>>)
  <2>1. \A i \in DOMAIN (<<x>>) : <<x>>[i] \in {"", "."} BY <1>1, <1>3, Zenon
  <2>2. {x, y} \subseteq {"", "."} BY <1>3, Zenon
  <2> DEFINE t == <<x, y>>
  <2>3. \A i \in DOMAIN t : t[i] \in {x, y} BY <1>2
  <2> HIDE DEF t
  <2>4. Plain(t) BY <2>2, <2>3, Zenon DEF Plain
  <2> QED BY <2>1, <2>4, Zenon DEF Plain, t
<1> QED BY <1>3, Zenon

LEMMA PlainPaths ==
  ASSUME NEW p \in Seq(Segments), Plain(p)
  PROVE  ~Climbs(p) /\ Kept(p) = {} /\ InPlace(p, <<>>)
<1>1. \A i \in DOMAIN p : p[i] \notin Names /\ p[i] # ".." BY NamesAssumption DEF Plain
<1>2. \A i \in DOMAIN p : 1..i \subseteq DOMAIN p
  <2>1. DOMAIN p = 1..Len(p) /\ Len(p) \in Nat OBVIOUS
  <2> QED BY <2>1
<1>3. \A i \in DOMAIN p : Depth(p, i) = 0
  <2> TAKE i \in DOMAIN p
  <2>1. \A j \in 1..i : p[j] \notin Names /\ p[j] # ".." BY <1>1, <1>2
  <2>2. {j \in 1..i : p[j] \in Names} = {} BY <2>1
  <2>3. {j \in 1..i : p[j] = ".."} = {} BY <2>1
  <2>4. Depth(p, i) = Cardinality({}) - Cardinality({}) BY <2>2, <2>3 DEF Depth
  <2>5. Cardinality({}) = 0 BY FS_EmptySet
  <2> QED BY <2>4, <2>5
<1>4. ~Climbs(p)
  <2>1. \A i \in DOMAIN p : ~(Depth(p, i) < 0) BY <1>3
  <2> QED BY <2>1 DEF Climbs
<1>5. Kept(p) = {} BY <1>1 DEF Kept
<1>6. InPlace(p, <<>>)
  <2> DEFINE kept == [k \in {} |-> 0]
  <2>1. DOMAIN (<<>>) = {}
    <3>1. <<>> \in Seq(Names) /\ Len(<<>>) = 0 OBVIOUS
    <3>2. \A s \in Seq(Names) : DOMAIN s = 1..Len(s) OBVIOUS
    <3>3. 1..0 = {} OBVIOUS
    <3> QED BY <3>1, <3>2, <3>3
  <2>2. kept \in [DOMAIN (<<>>) -> Kept(p)] /\ DOMAIN kept = {} BY <2>1
  <2> HIDE DEF kept
  <2>3. Range(kept) = Kept(p)
    <3>1. Range(kept) = {} BY <2>2 DEF Range
    <3> QED BY <1>5, <3>1
  <2>4. <<>> \in Seq(Names) OBVIOUS
  <2> QED BY <2>2, <2>3, <2>4 DEF InPlace
<1> QED BY <1>4, <1>5, <1>6

(* What sanitizePath makes of a path. *)
LEMMA SanitizedIs ==
  ASSUME NEW q \in Seq(Segments) \ {<<>>}
  PROVE  LET p == TrimSpace(q) IN
         IF Climbs(p) \/ \E i \in Kept(p) : p[i] \in Unfit THEN Sanitize(q) = Refused
         ELSE Sanitize(q) # Refused /\ InPlace(p, Sanitize(q).names)
<1> DEFINE p == TrimSpace(q)
           special == p \in {<<"">>, <<".">>, <<"", "">>}
           c == Clean(p)
           bad == Range(c.names) \cap (Unfit \cup {".."}) # {}
<1>1. p \in Seq(Segments) BY TrimmedIs
<1>2. Sanitize(q) = IF special THEN Root ELSE IF bad THEN Refused ELSE c BY DEF Sanitize
<1> HIDE DEF p
<1>3. CASE special
  <2>1. Plain(p) BY <1>3, ShortPlain, Zenon
  <2>2. ~Climbs(p) /\ Kept(p) = {} /\ InPlace(p, <<>>) BY <1>1, <2>1, PlainPaths
  <2>3. Root # Refused /\ Root.names = <<>> BY DEF Root, Refused
  <2> QED BY <1>2, <1>3, <2>2, <2>3 DEF p
<1>4. CASE ~special
  <2>1. /\ Climbs(p) => ".." \in Range(c.names)
        /\ ~Climbs(p) => InPlace(p, c.names)
    BY <1>1, CleanIs
  <2>2. Climbs(p) => bad BY <2>1
  <2>3. ASSUME ~Climbs(p)
        PROVE  (bad <=> \E i \in Kept(p) : p[i] \in Unfit) /\ c # Refused
    <3>1. PICK kept \in [DOMAIN c.names -> Kept(p)] :
             /\ Range(kept) = Kept(p)
             /\ \A k \in DOMAIN kept : c.names[k] = p[kept[k]]
      BY <2>1, <2>3 DEF InPlace
    <3>2. c.names \in Seq(Names) BY <2>1, <2>3 DEF InPlace
    <3>3. Range(c.names) \subseteq Names BY <3>2 DEF Range
    <3>4. ".." \notin Names /\ "refused" \notin Names BY NamesAssumption
    <3>5. \A i \in Kept(p) : \E k \in DOMAIN c.names : kept[k] = i BY <3>1 DEF Range
    <3>6. bad <=> \E k \in DOMAIN c.names : c.names[k] \in Unfit BY <3>3, <3>4 DEF Range
    <3>7. \A k \in DOMAIN c.names : c.names[k] = p[kept[k]] /\ kept[k] \in Kept(p) BY <3>1
    <3>8. bad <=> \E i \in Kept(p) : p[i] \in Unfit BY <3>5, <3>6, <3>7
    <3>9. "refused" \notin Range(c.names) BY <3>3, <3>4
    <3>10. Refused.names = <<"refused">> /\ "refused" \in Range(Refused.names)
      <4>1. Refused.names = <<"refused">> BY DEF Refused
      <4>2. 1 \in DOMAIN (<<"refused">>) /\ (<<"refused">>)[1] = "refused" OBVIOUS
      <4> QED BY <4>1, <4>2 DEF Range
    <3> QED BY <3>8, <3>9, <3>10
  <2> HIDE DEF c
  <2> QED BY <1>2, <1>4, <2>1, <2>2, <2>3 DEF p
<1> QED BY <1>3, <1>4

(* A sequence with one more in front. *)
LEMMA ConsIs ==
  ASSUME NEW S, NEW x \in S, NEW w \in Seq(S)
  PROVE  /\ <<x>> \o w \in Seq(S) /\ Len(<<x>> \o w) = Len(w) + 1 /\ (<<x>> \o w)[1] = x
         /\ \A n \in 1..Len(w) : (<<x>> \o w)[n + 1] = w[n]
<1> DEFINE z == <<x>>
<1>1. z \in Seq(S) /\ Len(z) = 1 /\ z[1] = x OBVIOUS
<1> HIDE DEF z
<1>2. z \o w \in Seq(S) /\ Len(z \o w) = 1 + Len(w) BY <1>1, ConcatProperties
<1>3. \A n \in 1..1 + Len(w) : (z \o w)[n] = IF n <= 1 THEN z[n] ELSE w[n - 1]
  <2>1. \A n \in 1..Len(z) + Len(w) :
          (z \o w)[n] = IF n <= Len(z) THEN z[n] ELSE w[n - Len(z)]
    BY <1>1, ConcatProperties, Zenon
  <2>2. Len(z) = 1 BY <1>1
  <2> QED BY <2>1, <2>2, Zenon
<1>4. Len(w) \in Nat OBVIOUS
<1>5. (z \o w)[1] = x BY <1>1, <1>3, <1>4
<1>6. \A n \in 1..Len(w) : (z \o w)[n + 1] = w[n]
  <2> TAKE n \in 1..Len(w)
  <2>1. n + 1 \in 1..1 + Len(w) /\ ~(n + 1 <= 1) /\ (n + 1) - 1 = n BY <1>4
  <2> QED BY <1>3, <2>1
<1> QED BY <1>2, <1>4, <1>5, <1>6 DEF z

LEMMA SlashIs == "" \in Segments /\ Names \subseteq Segments
  BY DEF Segments

(* A path of names from the root of the disk is clean. *)
LEMMA RootedNames ==
  ASSUME NEW w \in Seq(Names), Len(w) > 1
  PROVE  Clean(<<"">> \o w) = [rooted |-> TRUE, names |-> w]
<1> DEFINE p == <<"">> \o w
           W == Len(w)
<1>1. /\ Names \subseteq Segments /\ "" \in Segments /\ {"", ".", ".."} \cap Names = {}
  BY NamesAssumption DEF Segments
<1>2. W \in Nat /\ \A n \in 1..W : w[n] \in Names OBVIOUS
<1>3. p \in Seq(Segments) /\ Len(p) = W + 1 /\ p[1] = "" /\ \A n \in 1..W : p[n + 1] = w[n]
  <2>1. w \in Seq(Segments) BY SlashIs, SeqOfMore
  <2>2. \A x \in Segments : /\ <<x>> \o w \in Seq(Segments) /\ Len(<<x>> \o w) = W + 1
                            /\ (<<x>> \o w)[1] = x
                            /\ \A n \in 1..W : (<<x>> \o w)[n + 1] = w[n]
    BY <2>1, ConsIs
  <2> QED BY <2>2, SlashIs, Zenon
<1>4. SubSeq(w, 1, W) = w OBVIOUS
<1>5. W > 1 OBVIOUS
<1> HIDE DEF p, W
<1>6. Rooted(p) = TRUE
  <2>1. Len(p) = W + 1 /\ p[1] = "" BY <1>3
  <2>2. Len(p) > 1
    <3>1. Len(p) = W + 1 BY <2>1
    <3> QED BY <1>2, <1>5, <3>1
  <2> QED BY <2>1, <2>2, Zenon DEF Rooted
<1>7. PICK after \in [0..Len(p) -> Seq(Segments)] :
           /\ after[0] = <<>>
           /\ \A n \in 1..Len(p) : after[n] = Joined(Rooted(p), after[n - 1], p[n])
           /\ Clean(p) = [rooted |-> Rooted(p), names |-> after[Len(p)]]
  <2>1. p \in Seq(Segments) BY <1>3
  <2> QED BY <2>1, CleanCourse
<1>8. \A n \in 0..W : after[n + 1] = Joined(TRUE, after[n], p[n + 1])
  <2> TAKE n \in 0..W
  <2>1. n + 1 \in 1..W + 1 /\ (n + 1) - 1 = n BY <1>2
  <2>2. Len(p) = W + 1 BY <1>3
  <2> QED BY <1>6, <1>7, <2>1, <2>2
<1> DEFINE S == {n \in Nat : n <= W => after[n + 1] = SubSeq(w, 1, n)}
<1>9. 0 \in S
  <2>1. 0 \in 0..W BY <1>2
  <2>2. after[0 + 1] = Joined(TRUE, after[0], p[0 + 1]) BY <1>8, <2>1
  <2>3. p[0 + 1] = "" /\ after[0] = <<>>
    <3>1. 0 + 1 = 1 OBVIOUS
    <3> QED BY <1>3, <1>7, <3>1, Zenon
  <2>4. \A x : Joined(TRUE, x, "") = x BY DEF Joined
  <2>5. SubSeq(w, 1, 0) = <<>> OBVIOUS
  <2> QED BY <2>2, <2>3, <2>4, <2>5
<1>10. ASSUME NEW n \in Nat, n \in S PROVE n + 1 \in S
  <2> SUFFICES ASSUME n + 1 <= W PROVE after[n + 1 + 1] = SubSeq(w, 1, n + 1) OBVIOUS
  <2>1. n <= W /\ n + 1 \in 0..W /\ n + 1 \in 1..W BY <1>2
  <2>2. after[n + 1] = SubSeq(w, 1, n) BY <1>10, <2>1
  <2>3. p[n + 1 + 1] = w[n + 1] /\ w[n + 1] \in Names BY <1>2, <1>3, <2>1
  <2>4. \A x, y : y \in Names => Joined(TRUE, x, y) = Append(x, y)
    BY <1>1 DEF Joined
  <2>5. after[n + 1 + 1] = Joined(TRUE, after[n + 1], p[n + 1 + 1]) BY <1>8, <2>1
  <2>6. after[n + 1 + 1] = Append(SubSeq(w, 1, n), w[n + 1]) BY <2>2, <2>3, <2>4, <2>5
  <2>7. Append(SubSeq(w, 1, n), w[n + 1]) = SubSeq(w, 1, n + 1) BY <2>1 DEF W
  <2> QED BY <2>6, <2>7
<1> HIDE DEF S
<1>11. \A n \in Nat : n \in S BY <1>9, <1>10, NatSetInduction
<1>12. after[W + 1] = SubSeq(w, 1, W)
  <2>1. W \in Nat /\ W <= W BY <1>2
  <2> QED BY <1>11, <2>1 DEF S
<1> QED BY <1>3, <1>4, <1>6, <1>7, <1>12 DEF p

(* What sanitizePath makes of the path of a file in the bag's folder: the  *)
(* same, but for the blanks its last name ends in.                         *)
LEMMA OpenedIs ==
  ASSUME NEW q \in Seq(Names), q # <<>>, \A i \in 1..Len(q) : q[i] \notin Unfit,
         NEW name \in Names \ Unfit, name = RightTrimmed[Last(q)]
  PROVE  LET o == Sanitize(<<"">> \o Dir \o q) IN
         o # Refused /\ SubSeq(o.names, Len(Dir) + 1, Len(o.names)) = Append(Front(q), name)
<1> DEFINE D == Len(Dir)
           L == Len(q)
           e == Append(Front(q), name)
           w == Dir \o e
           slash == ""
           z == <<slash>>
           r == z \o Dir \o q
           p == z \o w
<1>1. D \in Nat /\ D > 1 /\ Dir \in Seq(Names) /\ \A i \in 1..D : Dir[i] \in Names \ Unfit
  <2>1. Dir \in Seq(Names \ Unfit) /\ D > 1 BY GatewayAssumption
  <2>2. Dir \in Seq(Names) BY <2>1, SeqOfMore
  <2> QED BY <2>1, <2>2
<1>2. /\ L \in Nat \ {0} /\ Front(q) \in Seq(Names) /\ Len(Front(q)) = L - 1
      /\ \A i \in 1..L - 1 : Front(q)[i] = q[i]
      /\ Last(q) = q[L]
  BY FrontIs
<1>3. /\ e \in Seq(Names) /\ Len(e) = L /\ e[L] = name /\ \A i \in 1..L - 1 : e[i] = q[i]
  BY <1>2
<1>4. slash \in Segments /\ LeftTrimmed[slash] = slash BY SlashIs, NamesAssumption, Zenon
<1> HIDE DEF slash
<1>4a. /\ z \in Seq(Segments) /\ Dir \in Seq(Segments) /\ q \in Seq(Segments)
      /\ z \o Dir \in Seq(Segments)
  <2>1. z \in Seq(Segments) BY <1>4
  <2>2. Dir \in Seq(Segments) BY <1>1, SlashIs, SeqOfMore
  <2>3. q \in Seq(Segments) BY SlashIs, SeqOfMore
  <2> QED BY <2>1, <2>2, <2>3, ConcatProperties
<1> HIDE DEF e
<1>5. /\ w \in Seq(Names) /\ Len(w) = D + L
      /\ \A i \in 1..D : w[i] = Dir[i]
      /\ \A i \in 1..L : w[D + i] = e[i]
  <2>1. w \in Seq(Names) /\ Len(w) = D + L BY <1>1, <1>3, ConcatProperties
  <2>2. \A i \in 1..D + L : w[i] = IF i <= D THEN Dir[i] ELSE e[i - D]
    BY <1>1, <1>3, ConcatProperties
  <2> HIDE DEF w, D, L
  <2>3. \A i \in 1..D : i \in 1..D + L /\ i <= D BY <1>1, <1>2
  <2>4. \A i \in 1..L : D + i \in 1..D + L /\ ~(D + i <= D) /\ (D + i) - D = i BY <1>1, <1>2
  <2> QED BY <2>1, <2>2, <2>3, <2>4
<1>6. /\ DOMAIN r = 1..1 + D + L /\ Len(r) = 1 + D + L /\ r[1] = slash
      /\ \A i \in 1..D : r[1 + i] = Dir[i]
      /\ \A i \in 1..L : r[1 + D + i] = q[i]
  <2> DEFINE x == z \o Dir
  <2>1. /\ Len(x) = D + 1 /\ x[1] = slash /\ \A i \in 1..D : x[i + 1] = Dir[i]
    BY <1>4, <1>4a, ConsIs
  <2>2. x \in Seq(Segments) BY <1>4a
  <2> HIDE DEF x
  <2>3. x \o q \in Seq(Segments) /\ Len(x \o q) = Len(x) + L BY <1>4a, <2>2, ConcatProperties
  <2>4. \A i \in 1..Len(x) + L : (x \o q)[i] = IF i <= Len(x) THEN x[i] ELSE q[i - Len(x)]
    BY <1>4a, <2>2, ConcatProperties
  <2>5. r = x \o q BY DEF x
  <2> HIDE DEF r, D, L
  <2>6. Len(r) = 1 + D + L /\ r \in Seq(Segments)
    <3>1. Len(r) = D + 1 + L BY <2>1, <2>3, <2>5
    <3> QED BY <1>1, <1>2, <2>3, <2>5, <3>1
  <2>7. \A i \in 1..1 + D + L : r[i] = IF i <= 1 + D THEN x[i] ELSE q[i - (1 + D)]
    <3>1. Len(x) = 1 + D /\ Len(x) + L = 1 + D + L BY <1>1, <1>2, <2>1
    <3> QED BY <2>4, <2>5, <3>1
  <2>8. DOMAIN r = 1..1 + D + L BY <2>6
  <2>9. r[1] = slash
    <3>1. 1 \in 1..1 + D + L /\ 1 <= 1 + D BY <1>1, <1>2
    <3> QED BY <2>1, <2>7, <3>1
  <2>10. \A i \in 1..D : r[1 + i] = Dir[i]
    <3> TAKE i \in 1..D
    <3>1. 1 + i \in 1..1 + D + L /\ 1 + i <= 1 + D /\ 1 + i = i + 1 BY <1>1, <1>2
    <3> QED BY <2>1, <2>7, <3>1
  <2>11. \A i \in 1..L : r[1 + D + i] = q[i]
    <3> TAKE i \in 1..L
    <3>1. /\ 1 + D + i \in 1..1 + D + L /\ ~(1 + D + i <= 1 + D)
          /\ (1 + D + i) - (1 + D) = i
      BY <1>1, <1>2
    <3> QED BY <2>7, <3>1
  <2> QED BY <2>6, <2>8, <2>9, <2>10, <2>11
<1> HIDE DEF w
<1>7. /\ Len(p) = 1 + D + L /\ DOMAIN p = 1..1 + D + L /\ p[1] = slash
      /\ \A i \in 1..D + L : p[1 + i] = w[i]
      /\ p = [i \in 1..1 + D + L |-> p[i]]
  <2>1. w \in Seq(Segments) BY <1>5, SlashIs, SeqOfMore
  <2>2. /\ p \in Seq(Segments) /\ Len(p) = Len(w) + 1 /\ p[1] = slash
        /\ \A i \in 1..Len(w) : p[i + 1] = w[i]
    BY <1>4, <2>1, ConsIs
  <2> HIDE DEF p, D, L
  <2>3. Len(p) = 1 + D + L BY <1>1, <1>2, <1>5, <2>2
  <2>4. \A i \in 1..D + L : p[1 + i] = w[i]
    <3> TAKE i \in 1..D + L
    <3>1. i \in 1..Len(w) /\ 1 + i = i + 1 BY <1>1, <1>2, <1>5
    <3> QED BY <2>2, <3>1
  <2> QED BY <2>2, <2>3, <2>4
<1> HIDE DEF p, r, D, L
<1>8. SubSeq(w, D + 1, D + L) = e
  <2>1. D + 1 \in Int /\ D + L \in Int /\ D + 1 <= D + L /\ (D + L) - (D + 1) + 1 = L
        /\ \A i \in D + 1..D + L : w[i] \in Names
    BY <1>1, <1>2, <1>5
  <2> DEFINE t == SubSeq(w, D + 1, D + L)
  <2>2. t \in Seq(Names) /\ Len(t) = L /\ \A i \in 1..L : t[i] = w[D + 1 + i - 1]
    BY <2>1, SubSeqProperties
  <2> HIDE DEF t
  <2>3. \A i \in 1..L : t[i] = e[i]
    <3> TAKE i \in 1..L
    <3>1. D + 1 + i - 1 = D + i BY <1>1, <1>2
    <3> QED BY <1>5, <2>2, <3>1
  <2>4. t = e BY <1>3, <2>2, <2>3
  <2> QED BY <2>4 DEF t
<1>9. \A i \in 1..D + L : w[i] \in Names \ Unfit
  <2> TAKE i \in 1..D + L
  <2>1. CASE i \in 1..D BY <1>1, <1>5, <2>1
  <2>2. CASE i \notin 1..D
    <3>1. i - D \in 1..L /\ D + (i - D) = i BY <1>1, <1>2, <2>2
    <3>2. w[i] = e[i - D] BY <1>5, <3>1
    <3>3. CASE i - D = L BY <1>3, <3>2, <3>3
    <3>4. CASE i - D # L
      <4>1. i - D \in 1..L - 1 BY <1>2, <3>1, <3>4
      <4>2. w[i] = q[i - D] BY <1>3, <3>2, <4>1
      <4>3. q[i - D] \in Names BY <3>1 DEF L
      <4> QED BY <3>1, <4>2, <4>3 DEF L
    <3> QED BY <3>3, <3>4
  <2> QED BY <2>1, <2>2
<1>10. TrimSpace(r) = p
  <2>3. ASSUME NEW i \in 1..1 + D + L
        PROVE  (LET s == IF i = 1 THEN LeftTrimmed[r[i]] ELSE r[i]
                IN  IF i = 1 + D + L THEN RightTrimmed[s] ELSE s) = p[i]
    <3>1. CASE i = 1
      <4>1. i # 1 + D + L BY <1>1, <1>2, <3>1
      <4> QED BY <1>4, <1>6, <1>7, <3>1, <4>1
    <3>2. CASE i # 1 /\ i <= 1 + D
      <4> DEFINE j == i - 1
      <4>1. j \in 1..D /\ j \in 1..D + L /\ 1 + j = i /\ i # 1 + D + L BY <1>1, <1>2, <3>2
      <4> HIDE DEF j
      <4>2. r[i] = Dir[j] /\ p[i] = w[j] /\ w[j] = Dir[j] BY <1>5, <1>6, <1>7, <4>1
      <4> QED BY <3>2, <4>1, <4>2
    <3>3. CASE i > 1 + D
      <4> DEFINE j == i - 1 - D
      <4>1. /\ j \in 1..L /\ D + j \in 1..D + L /\ 1 + D + j = i /\ 1 + (D + j) = i
            /\ i # 1 /\ (i = 1 + D + L <=> j = L) /\ (j # L => j \in 1..L - 1)
        <5>1. i \in Int /\ 1 <= i /\ i <= 1 + D + L /\ L \in Int /\ L > 0 /\ D \in Int /\ D > 1
          BY <1>1, <1>2
        <5>2. j \in Int /\ 1 <= j /\ j <= L BY <3>3, <5>1
        <5>3. i = 1 + D + L <=> j = L BY <5>1
        <5> QED BY <5>1, <5>2, <5>3
      <4> HIDE DEF j
      <4>2. r[i] = q[j] BY <1>6, <4>1
      <4>3. p[i] = w[D + j] BY <1>7, <4>1
      <4>4. w[D + j] = e[j] BY <1>5, <4>1
      <4>5. CASE j = L BY <1>2, <1>3, <4>1, <4>2, <4>3, <4>4, <4>5
      <4>6. CASE j # L
        <5>1. e[j] = q[j] BY <1>3, <4>1, <4>6
        <5> QED BY <4>1, <4>2, <4>3, <4>4, <4>6, <5>1
      <4> QED BY <4>5, <4>6
    <3>4. i \in Int /\ D \in Int BY <1>1
    <3> QED BY <3>1, <3>2, <3>3, <3>4
  <2>4. TrimSpace(r) = [i \in 1..1 + D + L |->
           LET s == IF i = 1 THEN LeftTrimmed[r[i]] ELSE r[i]
           IN  IF i = 1 + D + L THEN RightTrimmed[s] ELSE s]
    BY <1>6 DEF TrimSpace
  <2> QED BY <1>7, <2>3, <2>4
<1>11. Clean(p) = [rooted |-> TRUE, names |-> w]
  <2>1. Len(w) > 1 /\ w \in Seq(Names) BY <1>1, <1>2, <1>5
  <2>2. Clean(<<"">> \o w) = [rooted |-> TRUE, names |-> w] BY <2>1, RootedNames
  <2> QED BY <2>2 DEF p, slash
<1>12. p \notin {<<"">>, <<".">>, <<"", "">>}
  <2>1. Len(p) > 2 BY <1>1, <1>2, <1>7
  <2>2. \A x, y : ~(Len(<<x>>) > 2) /\ ~(Len(<<x, y>>) > 2) OBVIOUS
  <2>3. \A x, y : p # <<x>> /\ p # <<x, y>> BY <2>1, <2>2, Zenon
  <2> QED BY <2>3, Zenon
<1>13. Range(w) \cap (Unfit \cup {".."}) = {}
  <2>1. DOMAIN w = 1..D + L BY <1>5
  <2>2. ".." \notin Names BY NamesAssumption
  <2>3. \A x \in Range(w) : x \in Names \ Unfit BY <1>9, <2>1 DEF Range
  <2> QED BY <2>2, <2>3
<1> DEFINE c == [rooted |-> TRUE, names |-> w]
<1>14. c.names = w /\ c # Refused BY DEF Refused
<1>15. Clean(p) = c BY <1>11
<1> HIDE DEF c
<1>16. Sanitize(r) = c BY <1>10, <1>12, <1>13, <1>14, <1>15, Zenon DEF Sanitize
<1>17. Len(c.names) = D + L BY <1>5, <1>14
<1> QED BY <1>8, <1>14, <1>16, <1>17 DEF r, slash, D, e

-----------------------------------------------------------------------------
(* Paths one below the other. *)
LEMMA PrefixIs ==
  ASSUME NEW S, NEW q \in Seq(S), NEW p \in Seq(S)
  PROVE  IsPrefix(q, p) <=> Len(q) <= Len(p) /\ \A i \in 1..Len(q) : q[i] = p[i]
<1> DEFINE L == Len(q)
<1>1. L \in Nat /\ Len(p) \in Nat /\ \A i \in 1..L : q[i] \in S OBVIOUS
<1>2. SubSeq(q, 1, L) = q OBVIOUS
<1>3. ASSUME L <= Len(p) PROVE SubSeq(p, 1, L) = q <=> \A i \in 1..L : q[i] = p[i]
  <2>1. 1 \in Int /\ L \in Int /\ \A i \in 1..L : p[i] \in S BY <1>1, <1>3
  <2> HIDE DEF L
  <2>2. /\ SubSeq(p, 1, L) \in Seq(S)
        /\ Len(SubSeq(p, 1, L)) = IF 1 <= L THEN L - 1 + 1 ELSE 0
        /\ \A i \in 1..L - 1 + 1 : SubSeq(p, 1, L)[i] = p[1 + i - 1]
    BY <2>1, SubSeqProperties
  <2> DEFINE s == SubSeq(p, 1, L)
  <2> HIDE DEF s
  <2>3. s \in Seq(S) /\ Len(s) = L /\ \A i \in 1..L : s[i] = p[i]
    <3>1. L - 1 + 1 = L /\ \A i \in 1..L : 1 + i - 1 = i BY <1>1
    <3>2. IF 1 <= L THEN L - 1 + 1 = L ELSE 0 = L BY <1>1
    <3> QED BY <2>2, <3>1, <3>2 DEF s
  <2>4. s = q <=> \A i \in 1..L : s[i] = q[i]
    <3>1. q \in Seq(S) /\ Len(q) = L BY DEF L
    <3> QED BY <2>3, <3>1
  <2> QED BY <2>3, <2>4 DEF s
<1> QED BY <1>1, <1>2, <1>3 DEF IsPrefix

LEMMA BelowIs ==
  ASSUME NEW S, NEW q \in Seq(S), NEW n \in S, NEW f, f.path \in Seq(S)
  PROVE  /\ Below(f, q) => /\ f.path[Len(q) + 1] \in S
                           /\ Len(f.path) \in Nat /\ Len(f.path) >= Len(q) + 1
         /\ Below(f, Append(q, n)) <=>
              Below(f, q) /\ Len(f.path) > Len(q) + 1 /\ f.path[Len(q) + 1] = n
         /\ f.path = Append(q, n) <=>
              Below(f, q) /\ Len(f.path) = Len(q) + 1 /\ f.path[Len(q) + 1] = n
<1> DEFINE p == f.path
           L == Len(q)
           a == Append(q, n)
<1>1. p \in Seq(S) /\ L \in Nat /\ Len(p) \in Nat OBVIOUS
<1>2. a \in Seq(S) /\ Len(a) = L + 1 /\ a[L + 1] = n /\ \A i \in 1..L : a[i] = q[i] OBVIOUS
<1>3. 1..L + 1 = (1..L) \cup {L + 1} /\ \A i \in 1..Len(p) : p[i] \in S BY <1>1
<1> HIDE DEF p
<1>0. \A z \in Seq(S) : IsPrefix(z, p) <=> Len(z) <= Len(p) /\ \A i \in 1..Len(z) : z[i] = p[i]
  BY <1>1, PrefixIs
<1>4. IsPrefix(q, p) <=> L <= Len(p) /\ \A i \in 1..L : q[i] = p[i] BY <1>0
<1> HIDE DEF L, a
<1>5. IsPrefix(a, p) <=> Len(a) <= Len(p) /\ \A i \in 1..Len(a) : a[i] = p[i]
  BY <1>0, <1>2
<1>6. Below(f, q) <=> Len(p) > L /\ \A i \in 1..L : q[i] = p[i]
  BY <1>1, <1>4 DEF Below, p, L
<1>7. Below(f, a) <=> Len(p) > L + 1 /\ \A i \in 1..L + 1 : a[i] = p[i]
  BY <1>1, <1>2, <1>5 DEF Below, p
<1>8. (\A i \in 1..L + 1 : a[i] = p[i]) <=> (\A i \in 1..L : q[i] = p[i]) /\ p[L + 1] = n
  BY <1>2, <1>3
<1>9. p = a <=> Len(p) = L + 1 /\ \A i \in 1..L + 1 : a[i] = p[i]
  BY <1>1, <1>2
<1>10. Below(f, q) => L + 1 \in 1..Len(p) /\ Len(p) >= L + 1 BY <1>1, <1>6
<1>11. Below(f, a) <=> Below(f, q) /\ Len(p) > L + 1 /\ p[L + 1] = n
  BY <1>1, <1>6, <1>7, <1>8
<1>12. p = a <=> Below(f, q) /\ Len(p) = L + 1 /\ p[L + 1] = n
  BY <1>1, <1>6, <1>8, <1>9
<1> QED BY <1>1, <1>3, <1>10, <1>11, <1>12 DEF p, L, a

LEMMA BagIs ==
  ASSUME NEW b \in Bags
  PROVE  /\ IsFiniteSet(b)
         /\ \A f \in b : f.path \in Seq(Names) /\ f.path # <<>> /\ Len(f.path) \in Nat /\ f.size \in Sizes
         /\ \A f, g \in b : IsPrefix(f.path, g.path) => f = g
<1>1. /\ IsFiniteSet(b) /\ b \subseteq [path : Seq(Names) \ {<<>>}, size : Sizes]
      /\ \A f, g \in b : IsPrefix(f.path, g.path) => f = g
  BY BagsAssumption
<1>2. \A f \in b : f.path \in Seq(Names) /\ f.path # <<>> /\ f.size \in Sizes BY <1>1
<1>3. \A p \in Seq(Names) : Len(p) \in Nat OBVIOUS
<1> QED BY <1>1, <1>2, <1>3

LEMMA SamePath ==
  ASSUME NEW b \in Bags, NEW f \in b, NEW g \in b, f.path = g.path
  PROVE  f = g
<1>1. f.path \in Seq(Names) /\ g.path \in Seq(Names) BY BagIs
<1>2. IsPrefix(f.path, g.path)
  <2> DEFINE p == f.path
  <2>1. p \in Seq(Names) /\ g.path = p BY <1>1
  <2> HIDE DEF p
  <2>2. Len(p) <= Len(p) /\ \A i \in 1..Len(p) : p[i] = p[i] BY <2>1
  <2> QED BY <2>1, <2>2, PrefixIs DEF p
<1> QED BY <1>2, BagIs

(* At a file there is that file and nothing else. *)
LEMMA LsOfFile ==
  ASSUME NEW b \in Bags, NEW q \in Seq(Names), IsFile(b, q)
  PROVE  /\ q # <<>> /\ Last(q) \in Names /\ ~IsFolder(b, q)
         /\ \E f \in b : Ls(b, q) = {File(f)} /\ File(f).name = Last(q) /\ File(f).folder = FALSE
<1>1. PICK f \in b : f.path = q BY DEF IsFile
<1>2. q # <<>> /\ Len(q) \in Nat BY <1>1, BagIs
<1>3. Last(q) \in Names BY <1>2, FrontIs
<1>4. \A g \in b : ~Below(g, q)
  <2> SUFFICES ASSUME NEW g \in b, Below(g, q) PROVE FALSE OBVIOUS
  <2>1. f = g /\ Len(g.path) > Len(q) BY <1>1, BagIs DEF Below
  <2> QED BY <1>1, <1>2, <2>1
<1>5. {g \in b : g.path = q} = {f} BY <1>1, SamePath
<1>6. Ls(b, q) = {File(f)}
  <2>1. {g \in b : Below(g, q) /\ Len(g.path) > Len(q) + 1} = {} BY <1>4
  <2>2. {g \in b : Below(g, q) /\ Len(g.path) = Len(q) + 1} = {} BY <1>4
  <2> QED BY <1>5, <2>1, <2>2 DEF Ls
<1> QED BY <1>1, <1>2, <1>3, <1>4, <1>6 DEF IsFolder, File

(* What ls tells of a path that is no file's. *)
LEMMA LsOfFolder ==
  ASSUME NEW b \in Bags, NEW q \in Seq(Names), ~IsFile(b, q)
  PROVE  \A e :
           e \in Ls(b, q) <=>
             \E f \in b :
               /\ Below(f, q)
               /\ e = IF Len(f.path) > Len(q) + 1 THEN Folder(f.path[Len(q) + 1]) ELSE File(f)
<1>1. \A f \in b : f.path \in Seq(Names) /\ Len(f.path) \in Nat BY BagIs
<1>2. Len(q) \in Nat OBVIOUS
<1>3. \A f \in b : Below(f, q) => Len(f.path) > Len(q) BY DEF Below
<1>4. \A f \in b : Below(f, q) => (Len(f.path) = Len(q) + 1 <=> ~(Len(f.path) > Len(q) + 1))
  BY <1>1, <1>2, <1>3
<1>5. {g \in b : g.path = q} = {} BY DEF IsFile
<1>6. Ls(b, q) =
  {Folder(f.path[Len(q) + 1]) : f \in {g \in b : Below(g, q) /\ Len(g.path) > Len(q) + 1}}
  \cup {File(f) : f \in {g \in b : Below(g, q) /\ Len(g.path) = Len(q) + 1}}
  BY <1>5 DEF Ls
<1> QED BY <1>4, <1>6

LEMMA EntryIs ==
  /\ \A f : File(f).name = Last(f.path) /\ File(f).folder = FALSE /\ File(f).size = f.size
  /\ \A n : Folder(n).name = n /\ Folder(n).folder = TRUE
  BY DEF File, Folder

Shown(e) == [name |-> e.name, folder |-> e.folder]

(* Each file below q is under the entry of its name there. *)
LEMMA EntryOf ==
  ASSUME NEW b \in Bags, NEW q \in Seq(Names), NEW f \in b, Below(f, q)
  PROVE  LET n == f.path[Len(q) + 1]
             e == IF Len(f.path) > Len(q) + 1 THEN Folder(n) ELSE File(f)
         IN  n \in Names /\ e.name = n /\ e.folder = IsFolder(b, Append(q, n))
<1> DEFINE n == f.path[Len(q) + 1]
           e == IF Len(f.path) > Len(q) + 1 THEN Folder(n) ELSE File(f)
           a == Append(q, n)
<1>1. \A g \in b : g.path \in Seq(Names) /\ Len(g.path) \in Nat /\ g.path # <<>> BY BagIs
<1>2. n \in Names /\ Len(f.path) >= Len(q) + 1 BY <1>1, BelowIs
<1>3. \A g \in b : /\ Below(g, a) <=> Below(g, q) /\ Len(g.path) > Len(q) + 1 /\ g.path[Len(q) + 1] = n
                   /\ g.path = a <=> Below(g, q) /\ Len(g.path) = Len(q) + 1 /\ g.path[Len(q) + 1] = n
  BY <1>1, <1>2, BelowIs
<1>4. CASE Len(f.path) > Len(q) + 1
  <2>1. Below(f, a) BY <1>3, <1>4
  <2>2. IsFolder(b, a) BY <2>1 DEF IsFolder
  <2>3. e = Folder(n) BY <1>4
  <2>4. IsFolder(b, a) = TRUE BY <2>2 DEF IsFolder
  <2> QED BY <1>2, <2>3, <2>4, EntryIs
<1>5. CASE ~(Len(f.path) > Len(q) + 1)
  <2>0. Len(q) \in Nat OBVIOUS
  <2>1. Len(f.path) = Len(q) + 1 BY <1>1, <1>2, <1>5, <2>0
  <2>2. f.path = a BY <1>3, <2>1
  <2>3. IsFile(b, a) /\ a \in Seq(Names) BY <1>2, <2>2 DEF IsFile
  <2>4. ~IsFolder(b, a) BY <2>3, LsOfFile
  <2>5. e = File(f) BY <1>5
  <2>6. Last(f.path) = n BY <2>1 DEF Last
  <2>7. IsFolder(b, a) = FALSE BY <2>4 DEF IsFolder
  <2> QED BY <1>2, <2>5, <2>6, <2>7, EntryIs
<1> QED BY <1>4, <1>5

LEMMA ListingIs ==
  ASSUME NEW b \in Bags, NEW q \in Seq(Names), ~IsFile(b, q)
  PROVE  /\ {Shown(e) : e \in Ls(b, q)} = Children(b, q)
         /\ Ls(b, q) # {} <=> IsFolder(b, q)
         /\ \A e \in Ls(b, q) : e.name \in Names /\ e.folder = IsFolder(b, Append(q, e.name))
         /\ \A e \in Ls(b, q) : IsFile(b, Append(q, e.name)) \/ IsFolder(b, Append(q, e.name))
<1> DEFINE n(f) == f.path[Len(q) + 1]
           e(f) == IF Len(f.path) > Len(q) + 1 THEN Folder(n(f)) ELSE File(f)
           B == {f \in b : Below(f, q)}
<1>1. \A x : x \in Ls(b, q) <=> \E f \in b : Below(f, q) /\ x = e(f) BY LsOfFolder
<1>2. \A f \in b : Below(f, q) =>
         n(f) \in Names /\ e(f).name = n(f) /\ e(f).folder = IsFolder(b, Append(q, n(f)))
  BY EntryOf
<1>3. Children(b, q) = {[name |-> n(f), folder |-> IsFolder(b, Append(q, n(f)))] : f \in B}
  BY DEF Children
<1>4. \A f \in b : Below(f, q) => IsFile(b, Append(q, n(f))) \/ IsFolder(b, Append(q, n(f)))
  <2> TAKE f \in b
  <2> HAVE Below(f, q)
  <2>1. n(f) \in Names BY <1>2
  <2>2. f.path \in Seq(Names) /\ Len(f.path) \in Nat /\ Len(q) \in Nat BY BagIs
  <2>3. /\ Len(f.path) >= Len(q) + 1
        /\ Below(f, Append(q, n(f))) <=> Below(f, q) /\ Len(f.path) > Len(q) + 1 /\ f.path[Len(q) + 1] = n(f)
        /\ f.path = Append(q, n(f)) <=>
             Below(f, q) /\ Len(f.path) = Len(q) + 1 /\ f.path[Len(q) + 1] = n(f)
    BY <2>1, <2>2, BelowIs
  <2>4. Len(f.path) > Len(q) + 1 \/ Len(f.path) = Len(q) + 1 BY <2>2, <2>3
  <2> QED BY <2>3, <2>4 DEF IsFile, IsFolder
<1> HIDE DEF n, e
<1>5. Ls(b, q) = {e(f) : f \in B} BY <1>1
<1>6. {Shown(x) : x \in Ls(b, q)} = Children(b, q) BY <1>2, <1>3, <1>5 DEF Shown
<1>7. Ls(b, q) # {} <=> IsFolder(b, q) BY <1>5 DEF IsFolder
<1>8. \A x \in Ls(b, q) : x.name \in Names /\ x.folder = IsFolder(b, Append(q, x.name))
  BY <1>1, <1>2
<1>9. \A x \in Ls(b, q) : IsFile(b, Append(q, x.name)) \/ IsFolder(b, Append(q, x.name))
  BY <1>1, <1>2, <1>4
<1> QED BY <1>6, <1>7, <1>8, <1>9

(* The entries are one file, of that name. *)
Alone(entries, name) == (\E e \in entries : ~e.folder /\ e.name = name) /\ IsSingleFile(entries)

LEMMA SingleIs ==
  ASSUME NEW b \in Bags, NEW q \in Seq(Names), ~IsFile(b, q), NEW name
  PROVE  Alone(Ls(b, q), name) <=> Children(b, q) = {[name |-> name, folder |-> FALSE]}
<1> DEFINE S == Ls(b, q)
           C == Children(b, q)
           one == [name |-> name, folder |-> FALSE]
<1>1. C = {Shown(e) : e \in S} BY ListingIs
<1>2. \A e \in S : e.folder \in BOOLEAN BY ListingIs DEF IsFolder
<1>3. \A d, e \in S : d.name = e.name /\ ~d.folder /\ ~e.folder => d = e
  <2> SUFFICES ASSUME NEW d \in S, NEW e \in S, d.name = e.name, ~d.folder, ~e.folder
               PROVE  d = e
    OBVIOUS
  <2>1. \A x \in S : ~x.folder => \E f \in b : Below(f, q) /\ x = File(f) /\ ~(Len(f.path) > Len(q) + 1)
    BY LsOfFolder, EntryIs
  <2>2. PICK f \in b, g \in b : /\ Below(f, q) /\ d = File(f) /\ ~(Len(f.path) > Len(q) + 1)
                                /\ Below(g, q) /\ e = File(g) /\ ~(Len(g.path) > Len(q) + 1)
    BY <2>1
  <2>3. \A x \in {f, g} : /\ x.path \in Seq(Names) /\ Len(x.path) \in Nat /\ Len(q) \in Nat
                          /\ Below(x, q) /\ ~(Len(x.path) > Len(q) + 1)
    BY <2>2, BagIs
  <2>4. \A x \in {f, g} : Len(x.path) > Len(q) BY <2>3 DEF Below
  <2>5. \A x \in {f, g} : Len(x.path) = Len(q) + 1
    <3>1. \A m, k \in Nat : m > k /\ ~(m > k + 1) => m = k + 1 OBVIOUS
    <3> QED BY <2>3, <2>4, <3>1
  <2>6. \A x \in {f, g} : Last(x.path) = x.path[Len(q) + 1] /\ Last(x.path) = File(x).name
    BY <2>5, EntryIs DEF Last
  <2>7. d.name \in Names BY ListingIs
  <2>8. \A x \in {f, g} : x.path[Len(q) + 1] = d.name BY <2>2, <2>6
  <2>9. \A x \in {f, g} : x.path = Append(q, d.name) BY <2>3, <2>5, <2>7, <2>8, BelowIs
  <2>10. f = g BY <2>9, SamePath
  <2> QED BY <2>2, <2>10
<1>4. IsFiniteSet(S)
  <2> DEFINE e(f) == IF Len(f.path) > Len(q) + 1 THEN Folder(f.path[Len(q) + 1]) ELSE File(f)
             B == {f \in b : Below(f, q)}
  <2>1. IsFiniteSet(b) BY BagIs
  <2>2. IsFiniteSet(B) BY <2>1, FS_Subset
  <2>3. S = {e(f) : f \in B} BY LsOfFolder
  <2> DEFINE M == [f \in B |-> e(f)]
  <2> HIDE DEF S, B, e
  <2>4. M \in [B -> S] /\ \A x \in S : \E f \in B : M[f] = x BY <2>3
  <2> HIDE DEF M
  <2>5. M \in Surjection(B, S) BY <2>4 DEF Surjection
  <2> QED BY <2>2, <2>5, FS_Surjection
<1> HIDE DEF S, C
<1>5. ASSUME \E e \in S : ~e.folder /\ e.name = name, IsSingleFile(S) PROVE C = {one}
  <2>1. PICK e : S = {e} BY <1>4, <1>5, FS_Singleton DEF IsSingleFile
  <2>2. e.folder = FALSE /\ e.name = name BY <1>2, <1>5, <2>1
  <2> QED BY <1>1, <2>1, <2>2 DEF Shown
<1>6. ASSUME C = {one} PROVE (\E e \in S : ~e.folder /\ e.name = name) /\ IsSingleFile(S)
  <2>1. \A e \in S : Shown(e) = one BY <1>1, <1>6
  <2>2. \A e \in S : e.name = name /\ e.folder = FALSE BY <2>1 DEF Shown
  <2>3. PICK e : e \in S BY <1>1, <1>6
  <2>4. S = {e} BY <1>3, <2>2, <2>3
  <2>5. Cardinality(S) = 1 BY <2>4, FS_Singleton
  <2> QED BY <2>2, <2>3, <2>5 DEF IsSingleFile
<1> QED BY <1>5, <1>6 DEF S, C, Alone

-----------------------------------------------------------------------------
(* The request's path is what is asked for; a listing is what the bag has  *)
(* there, and a link is for an entry of one.                               *)
Asked == [path : Seq(Segments) \ {<<>>}, direct : BOOLEAN,
          dest : {"none", "document", "other"}, html : BOOLEAN]
LinkFor(k, q) ==
  /\ k.at \in Seq(Names) /\ k.name \in Names
  /\ q.path = Request(Append(k.at, k.name)).path
  /\ IsFile(bag, Append(k.at, k.name)) \/ IsFolder(bag, Append(k.at, k.name))

PathInv ==
  /\ bag \in Bags /\ query \in Asked /\ path = Sanitize(query.path)
  /\ pc = "ask" \/ found.kind # "none" => path # Refused
  /\ found.kind = "local" => path.names # <<>>
  /\ found.kind = "listing" =>
       found.entries = Ls(bag, path.names) /\ ~IsFile(bag, path.names)
  /\ answer.body = "listing" => found.kind = "listing" /\ pc = "idle"
  /\ link # NoLink => LinkFor(link, query)

WayInv == GatewayInv /\ PathInv

LEMMA NamesAsked ==
  ASSUME PathInv, path # Refused
  PROVE  path.names \in Seq(Names)
<1>1. query.path \in Seq(Segments) \ {<<>>} BY DEF PathInv, Asked
<1>2. Sanitize(query.path) # Refused BY DEF PathInv
<1>3. InPlace(TrimSpace(query.path), Sanitize(query.path).names) BY <1>1, <1>2, SanitizedIs
<1> QED BY <1>3 DEF InPlace, PathInv

LEMMA NoQueryIs == NoQuery \in Asked /\ Sanitize(NoQuery.path) = Root /\ Root # Refused
<1>1. <<"">> \in Seq(Segments) \ {<<>>}
  <2>1. "" \in Segments BY DEF Segments
  <2>2. \A x \in Segments : <<x>> \in Seq(Segments) /\ <<x>> # <<>> OBVIOUS
  <2> QED BY <2>1, <2>2, Zenon
<1>2. NoQuery \in Asked BY <1>1 DEF NoQuery, Asked
<1>3. TrimSpace(<<"">>) = <<"">>
  <2>1. LeftTrimmed[""] = "" /\ RightTrimmed[""] = "" BY NamesAssumption, Zenon
  <2>2. \A x : LeftTrimmed[x] = x /\ RightTrimmed[x] = x => TrimSpace(<<x>>) = <<x>>
    BY DEF TrimSpace
  <2> QED BY <2>1, <2>2, Zenon
<1>4. Sanitize(<<"">>) = Root
  <2> DEFINE t == <<"">>
  <2>1. t \in {<<"">>, <<".">>, <<"", "">>} BY Zenon
  <2>2. TrimSpace(t) = t BY <1>3
  <2> HIDE DEF t
  <2>3. Sanitize(t) = Root BY <2>1, <2>2, Zenon DEF Sanitize
  <2> QED BY <2>3 DEF t
<1>5. Root # Refused BY DEF Root, Refused
<1> QED BY <1>2, <1>4, <1>5 DEF NoQuery

LEMMA RequestIs ==
  ASSUME NEW names \in Seq(Names), names # <<>>
  PROVE  /\ Request(names) \in Asked
         /\ Request(names).path = [i \in 1..Len(names) |-> Unescaped[names[i]]]
<1> DEFINE p == [i \in DOMAIN names |-> Unescaped[names[i]]]
<1>1. DOMAIN names = 1..Len(names) /\ Len(names) \in Nat \ {0} /\ \A i \in 1..Len(names) : names[i] \in Names
  OBVIOUS
<1>2. Unescaped \in [Names -> Names] BY GatewayAssumption
<1>3. p \in [1..Len(names) -> Names] BY <1>1, <1>2
<1>4. p \in Seq(Names) /\ Len(p) = Len(names) BY <1>1, <1>3
<1>5. p \in Seq(Segments)
  <2>1. Names \subseteq Segments BY DEF Segments
  <2> HIDE DEF p
  <2> QED BY <1>4, <2>1, SeqOfMore
<1>6. p # <<>>
  <2> HIDE DEF p
  <2>1. Len(p) # 0 BY <1>1, <1>4
  <2> QED BY <2>1
<1>7. NoQuery \in Asked BY NoQueryIs
<1>8. Request(names) = [NoQuery EXCEPT !.path = p] BY DEF Request
<1> HIDE DEF p
<1>9. Request(names) \in Asked /\ Request(names).path = p BY <1>5, <1>6, <1>7, <1>8 DEF Asked
<1> QED BY <1>1, <1>9 DEF p

LEMMA WayInit == ASSUME Init PROVE PathInv
<1>1. bag \in Bags /\ query = NoQuery /\ path = Root /\ found = Nothing /\ answer = NoAnswer /\ link = NoLink
  BY DEF Init
<1> QED BY <1>1, NoQueryIs, NothingKind DEF PathInv

LEMMA ReceiveLeads ==
  ASSUME PathInv, NEW q \in Asked, NEW from, Receive(q, from), from # NoLink => LinkFor(from, q)
  PROVE  PathInv'
<1>1. /\ query' = q /\ path' = Sanitize(q.path) /\ link' = from /\ found' = Nothing /\ bag' = bag
      /\ pc' = "ask" => path' # Refused
      /\ answer'.body \in {"none", "shell"}
  BY NothingKind, FailFacts, ReplyFacts DEF Receive
<1>2. found'.kind = "none" BY <1>1, NothingKind
<1>3. link' # NoLink => LinkFor(link, query)' BY <1>1 DEF LinkFor
<1> QED BY <1>1, <1>2, <1>3 DEF PathInv

(* What the branches make of what the bag has. *)
LEMMA LocalFile ==
  ASSUME WayInv, AskLocal, IsFile(bag, path.names)
  PROVE  found'.kind = "local" /\ pc' = "serve" /\ UNCHANGED answer
<1> DEFINE q == path.names
           S == Ls(bag, q)
<1>1. pc = "ask" /\ path # Refused /\ bag \in Bags BY DEF AskLocal, WayInv, PathInv
<1>2. q \in Seq(Names) BY <1>1, NamesAsked DEF WayInv
<1>3. PICK f \in bag : S = {File(f)} /\ File(f).name = Last(q) /\ File(f).folder = FALSE
  BY <1>1, <1>2, LsOfFile
<1>4. q # <<>> BY <1>1, <1>2, LsOfFile
<1> HIDE DEF S
<1>5. IsSingleFile(S) BY <1>3, FS_Singleton DEF IsSingleFile
<1>6. Matches(S) BY <1>3, <1>4 DEF Matches
<1>7. Info("local", S) BY <1>5, <1>6 DEF AskLocal, S
<1> QED BY <1>7 DEF Info

LEMMA LocalFolder ==
  ASSUME WayInv, AskLocal, ~IsFile(bag, path.names)
  PROVE  /\ found'.kind = IF OwnName(path.names) THEN "local"
                          ELSE IF IsFolder(bag, path.names) THEN "listing" ELSE "none"
         /\ found'.kind # "none" => found'.entries = Ls(bag, path.names)
         /\ found'.kind # "none" => pc' = "serve" /\ UNCHANGED answer
         /\ found'.kind = "none" => Fail(404)
<1> DEFINE q == path.names
           S == Ls(bag, q)
<1>1. /\ pc = "ask" /\ path # Refused /\ bag \in Bags /\ found.kind = "none"
  BY NothingKind DEF AskLocal, WayInv, PathInv, GatewayInv, FreshInv
<1>2. q \in Seq(Names) BY <1>1, NamesAsked DEF WayInv
<1>3. \A name : Alone(S, name) <=> OneFile(q, name)
  <2> TAKE name
  <2>1. Alone(S, name) <=> Children(bag, q) = {[name |-> name, folder |-> FALSE]}
    BY <1>1, <1>2, SingleIs
  <2> QED BY <2>1 DEF OneFile
<1>4. S # {} <=> IsFolder(bag, q) BY <1>1, <1>2, ListingIs
<1> HIDE DEF S
<1>5. Matches(S) /\ IsSingleFile(S) <=> OwnName(q) BY <1>3 DEF Matches, OwnName, Alone
<1>6. CASE OwnName(q)
  <2>1. Info("local", S) BY <1>5, <1>6 DEF AskLocal, S
  <2> QED BY <1>6, <2>1 DEF Info, S
<1>7. CASE ~OwnName(q) /\ IsFolder(bag, q)
  <2>1. Info("listing", S) BY <1>4, <1>5, <1>7 DEF AskLocal, S
  <2> QED BY <1>7, <2>1 DEF Info, S
<1>8. CASE ~OwnName(q) /\ ~IsFolder(bag, q)
  <2>1. Fail(404) /\ UNCHANGED found BY <1>4, <1>5, <1>8 DEF AskLocal, S
  <2> QED BY <1>1, <1>8, <2>1
<1> QED BY <1>6, <1>7, <1>8

LEMMA RemoteFile ==
  ASSUME WayInv, AskRemote, IsFile(bag, path.names)
  PROVE  \/ Fail(413) /\ found'.kind = "none"
         \/ Fail(500) /\ found'.kind = "none" /\ path.rooted
         \/ found'.kind = "stream" /\ ~path.rooted /\ pc' = "serve" /\ UNCHANGED answer
<1> DEFINE q == path.names
           S == Ls(bag, q)
<1>1. pc = "ask" /\ path # Refused /\ bag \in Bags /\ found.kind = "none"
  BY NothingKind DEF AskRemote, WayInv, PathInv, GatewayInv, FreshInv
<1>2. q \in Seq(Names) BY <1>1, NamesAsked DEF WayInv
<1>3. PICK f \in bag : S = {File(f)} /\ File(f).name = Last(q) /\ File(f).folder = FALSE
  BY <1>1, <1>2, LsOfFile
<1>4. q # <<>> /\ Last(q) \in Names BY <1>1, <1>2, LsOfFile
<1>5. Last(q) \in EndsIn[Last(q)] BY <1>4, GatewayAssumption
<1> HIDE DEF S
<1>6. IsSingleFile(S) BY <1>3, FS_Singleton DEF IsSingleFile
<1>7. Ends(S) BY <1>3, <1>4, <1>5 DEF Ends
<1>8. \/ Fail(413) /\ UNCHANGED found
      \/ ~Known /\ Fail(500) /\ UNCHANGED found
      \/ Known /\ Info("stream", S)
  BY <1>6, <1>7 DEF AskRemote, S
<1> QED BY <1>1, <1>8 DEF Known, Info

LEMMA RemoteFolder ==
  ASSUME WayInv, AskRemote, ~IsFile(bag, path.names)
  PROVE  /\ found'.kind = IF IsFolder(bag, path.names) /\ ~EndsInOneFile(path.names)
                          THEN "listing" ELSE "none"
         /\ found'.kind # "none" => found'.entries = Ls(bag, path.names)
         /\ found'.kind # "none" => pc' = "serve" /\ UNCHANGED answer
         /\ found'.kind = "none" => \E code \in {404, 413, 500} : Fail(code)
<1> DEFINE q == path.names
           S == Ls(bag, q)
<1>1. /\ pc = "ask" /\ path # Refused /\ bag \in Bags /\ found.kind = "none"
  BY NothingKind DEF AskRemote, WayInv, PathInv, GatewayInv, FreshInv
<1>2. q \in Seq(Names) BY <1>1, NamesAsked DEF WayInv
<1>3. \A name : Alone(S, name) <=> OneFile(q, name)
  <2> TAKE name
  <2>1. Alone(S, name) <=> Children(bag, q) = {[name |-> name, folder |-> FALSE]}
    BY <1>1, <1>2, SingleIs
  <2> QED BY <2>1 DEF OneFile
<1>4. S # {} <=> IsFolder(bag, q) BY <1>1, <1>2, ListingIs
<1> HIDE DEF S
<1>5. Ends(S) /\ IsSingleFile(S) <=> EndsInOneFile(q) BY <1>3 DEF Ends, EndsInOneFile, Alone
<1>6. CASE EndsInOneFile(q)
  <2>1. ~Known BY DEF Known
  <2>2. UNCHANGED found /\ (Fail(413) \/ Fail(500)) BY <1>5, <1>6, <2>1 DEF AskRemote, S
  <2> QED BY <1>1, <1>6, <2>2
<1>7. CASE ~EndsInOneFile(q) /\ IsFolder(bag, q)
  <2>1. Info("listing", S) BY <1>4, <1>5, <1>7 DEF AskRemote, S
  <2> QED BY <1>7, <2>1 DEF Info, S
<1>8. CASE ~EndsInOneFile(q) /\ ~IsFolder(bag, q)
  <2>1. Fail(404) /\ UNCHANGED found BY <1>4, <1>5, <1>8 DEF AskRemote, S
  <2> QED BY <1>1, <1>8, <2>1
<1> QED BY <1>6, <1>7, <1>8

LEMMA AskLeads ==
  ASSUME WayInv, AskLocal \/ AskRemote \/ (\E code \in {404, 406, 408, 500} : AskFails(code))
  PROVE  PathInv'
<1>1. /\ UNCHANGED <<bag, query, path, link>> /\ pc = "ask" /\ path # Refused
      /\ found.kind = "none" /\ answer.body # "listing"
  BY NothingKind DEF AskLocal, AskRemote, AskFails, request, WayInv, PathInv, GatewayInv, FreshInv
<1>2. (link # NoLink => LinkFor(link, query)) => (link # NoLink => LinkFor(link, query))'
  BY <1>1 DEF LinkFor
<1>3. /\ pc' # "ask" /\ answer'.body # "listing"
      /\ found'.kind = "listing" =>
           found'.entries = Ls(bag, path.names) /\ ~IsFile(bag, path.names)
      /\ found'.kind = "local" => path.names # <<>>
  <2>0. found'.kind = "local" => path.names # <<>>
    <3>1. CASE AskLocal BY <1>1, <3>1 DEF AskLocal, Info, Matches
    <3>2. CASE AskRemote BY <1>1, <3>2 DEF AskRemote, Info
    <3>3. CASE \E code \in {404, 406, 408, 500} : AskFails(code)
      BY <1>1, <3>3 DEF AskFails, request
    <3> QED BY <3>1, <3>2, <3>3
  <2>1. CASE \E code \in {404, 406, 408, 500} : AskFails(code)
    <3>1. /\ pc' = "idle" /\ answer'.body = "none" /\ found' = found
      BY <2>1, FailFacts DEF AskFails, request
    <3> QED BY <1>1, <2>0, <3>1
  <2>2. CASE AskLocal /\ IsFile(bag, path.names) BY <1>1, <2>0, <2>2, LocalFile
  <2>3. CASE AskLocal /\ ~IsFile(bag, path.names)
    <3>1. found'.kind = "none" => pc' = "idle" /\ answer'.body = "none"
      BY <2>3, LocalFolder, FailFacts
    <3> QED BY <1>1, <2>0, <2>3, <3>1, LocalFolder
  <2>4. CASE AskRemote /\ IsFile(bag, path.names)
    <3>1. Fail(413) \/ Fail(500) => pc' = "idle" /\ answer'.body = "none" BY FailFacts
    <3> QED BY <1>1, <2>0, <2>4, <3>1, RemoteFile
  <2>5. CASE AskRemote /\ ~IsFile(bag, path.names)
    <3>1. found'.kind = "none" => pc' = "idle" /\ answer'.body = "none"
      BY <2>5, RemoteFolder, FailFacts
    <3> QED BY <1>1, <2>0, <2>5, <3>1, RemoteFolder
  <2> QED BY <2>0, <2>1, <2>2, <2>3, <2>4, <2>5
<1> QED BY <1>1, <1>2, <1>3 DEF WayInv, PathInv

(* A link is for an entry of the listing it is in. *)
LEMMA FollowLeads ==
  ASSUME WayInv, NEW e \in found.entries, Follow(e)
  PROVE  PathInv'
<1> DEFINE k == [at |-> path.names, name |-> e.name]
           n == Append(path.names, e.name)
           q == Request(n)
<1>1. /\ Receive(q, k) /\ found.kind = "listing" BY DEF Follow, WayInv, PathInv
<1>2. /\ bag \in Bags /\ path # Refused /\ e \in Ls(bag, path.names) /\ ~IsFile(bag, path.names)
  BY <1>1 DEF WayInv, PathInv
<1>3. path.names \in Seq(Names) BY <1>2, NamesAsked DEF WayInv
<1>4. e.name \in Names /\ (IsFile(bag, n) \/ IsFolder(bag, n)) BY <1>2, <1>3, ListingIs
<1>5. n \in Seq(Names) /\ n # <<>> BY <1>3, <1>4
<1>6. q \in Asked BY <1>5, RequestIs
<1>7. k.at = path.names /\ k.name = e.name /\ n = Append(k.at, k.name) OBVIOUS
<1> HIDE DEF k, n
<1>8. LinkFor(k, q) BY <1>3, <1>4, <1>7 DEF LinkFor
<1> HIDE DEF q
<1> QED BY <1>1, <1>6, <1>8, ReceiveLeads DEF WayInv

(* The steps that look at the disk keep the path, and list nothing. *)
LEMMA ServeLeads ==
  ASSUME WayInv, \/ GetMalformed \/ SendListing \/ ServeStream \/ ServeLocal \/ Lstat
                 \/ ReadFile \/ Stat \/ Open \/ DiskChanges \/ UNCHANGED vars
  PROVE  PathInv'
<1>1. /\ UNCHANGED <<bag, query, path, found, link>>
      /\ pc' = "ask" => pc = "ask"
      /\ answer'.body = "listing" => found.kind = "listing" /\ pc' = "idle"
  <2>1. CASE GetMalformed BY <2>1, FailFacts DEF GetMalformed, request
  <2>2. CASE SendListing BY <2>2, ReplyFacts DEF SendListing, request
  <2>3. CASE ServeStream
    <3>1. PICK e : Reply(200, IF ct'.class = "html" THEN "wrapped" ELSE "file", ct'.class, e.size)
      BY <2>3 DEF ServeStream
    <3>2. pc' = "idle" /\ answer'.body = (IF ct'.class = "html" THEN "wrapped" ELSE "file")
      BY <3>1, ReplyFacts
    <3> QED BY <2>3, <3>2 DEF ServeStream
  <2>4. CASE ServeLocal BY <2>4, FailFacts DEF ServeLocal, WayInv, PathInv
  <2>5. CASE Lstat BY <2>5, FailFacts DEF Lstat, WayInv, PathInv
  <2>6. CASE ReadFile BY <2>6, FailFacts, ReplyFacts DEF ReadFile, request
  <2>7. CASE Stat BY <2>7, FailFacts DEF Stat, WayInv, PathInv
  <2>8. CASE Open BY <2>8, FailFacts, ReplyFacts DEF Open, request
  <2>9. CASE DiskChanges BY <2>9 DEF DiskChanges, request, WayInv, PathInv
  <2>10. CASE UNCHANGED vars BY <2>10 DEF vars, request, WayInv, PathInv
  <2> QED BY <2>1, <2>2, <2>3, <2>4, <2>5, <2>6, <2>7, <2>8, <2>9, <2>10
<1>2. (link # NoLink => LinkFor(link, query)) => (link # NoLink => LinkFor(link, query))'
  BY <1>1 DEF LinkFor
<1> QED BY <1>1, <1>2 DEF WayInv, PathInv

LEMMA OverLeads ==
  ASSUME WayInv, Over
  PROVE  PathInv'
<1>1. /\ bag' = bag /\ query' = NoQuery /\ path' = Root /\ found' = Nothing
      /\ answer' = NoAnswer /\ link' = NoLink
  BY DEF Over
<1>2. found'.kind = "none" /\ answer'.body = "none" BY <1>1, NothingKind
<1> QED BY <1>1, <1>2, NoQueryIs DEF WayInv, PathInv

LEMMA WayStep == ASSUME WayInv, [Next]_vars PROVE WayInv'
<1>1. GatewayInv' BY InvStep DEF WayInv
<1>2. ASSUME NEW q \in Queries, Get(q) PROVE PathInv'
  <2>1. q \in Asked BY BagsAssumption DEF Asked
  <2> QED BY <1>2, <2>1, ReceiveLeads DEF Get, WayInv
<1>3. ASSUME Reload PROVE PathInv'
  <2> DEFINE q == [query EXCEPT !.direct = TRUE]
  <2>1. query \in Asked /\ (link # NoLink => LinkFor(link, query)) BY DEF WayInv, PathInv
  <2>2. q \in Asked /\ q.path = query.path BY <2>1 DEF Asked
  <2>3. Receive(q, link) BY <1>3 DEF Reload
  <2> HIDE DEF q
  <2>4. link # NoLink => LinkFor(link, q) BY <2>1, <2>2 DEF LinkFor
  <2>5. PathInv BY DEF WayInv
  <2> QED BY <2>2, <2>3, <2>4, <2>5, ReceiveLeads
<1>4. PathInv'
  <2>1. CASE UNCHANGED vars BY <2>1, ServeLeads
  <2>2. CASE Next
    <3>1. CASE \E q \in Queries : Get(q) BY <1>2, <3>1
    <3>2. CASE \E e \in found.entries : Follow(e) BY <3>2, FollowLeads
    <3>3. CASE AskLocal \/ AskRemote \/ \E code \in {404, 406, 408, 500} : AskFails(code)
      BY <3>3, AskLeads
    <3>4. CASE \/ GetMalformed \/ SendListing \/ ServeStream \/ ServeLocal \/ Lstat
               \/ ReadFile \/ Stat \/ Open \/ DiskChanges
      BY <3>4, ServeLeads
    <3>5. CASE Over BY <3>5, OverLeads
    <3> QED BY <1>3, <2>2, <3>1, <3>2, <3>3, <3>4, <3>5 DEF Next
  <2> QED BY <2>1, <2>2
<1> QED BY <1>1, <1>4 DEF WayInv

(* The invariant of a request's way, for every bag, query and disk.        *)
THEOREM WayKept == Spec => []WayInv
<1>1. Init => WayInv BY InvInit, WayInit DEF WayInv
<1>2. WayInv /\ [Next]_vars => WayInv' BY WayStep
<1> QED BY <1>1, <1>2, PTL DEF Spec

(* What is looked at is what was found, but for the blanks at its end. *)
LEMMA FoundIsOpened == ASSUME WayInv PROVE TheFoundIsOpened
<1> DEFINE q == path.names
           name == RightTrimmed[Last(q)]
<1> SUFFICES ASSUME found.kind = "local", name \in Names \ Unfit
             PROVE  Opened # Refused /\ Place = Append(Front(q), name)
  BY DEF TheFoundIsOpened
<1>1. q # <<>> /\ path # Refused /\ path = Sanitize(query.path)
      /\ query.path \in Seq(Segments) \ {<<>>}
  BY DEF WayInv, PathInv, Asked
<1>2. q \in Seq(Names) BY <1>1, NamesAsked DEF WayInv
<1>3. \A i \in 1..Len(q) : q[i] \notin Unfit
  <2> DEFINE p == TrimSpace(query.path)
  <2>1. (\A i \in Kept(p) : p[i] \notin Unfit) /\ InPlace(p, q) BY <1>1, SanitizedIs
  <2> HIDE DEF p
  <2>2. DOMAIN q = 1..Len(q) BY <1>2
  <2> QED BY <2>1, <2>2 DEF InPlace
<1>4. LET o == Sanitize(<<"">> \o Dir \o q) IN
      o # Refused /\ SubSeq(o.names, Len(Dir) + 1, Len(o.names)) = Append(Front(q), name)
  <2> HIDE DEF q
  <2>1. \A n \in Names \ Unfit : n = RightTrimmed[Last(q)] =>
          LET o == Sanitize(<<"">> \o Dir \o q) IN
          o # Refused /\ SubSeq(o.names, Len(Dir) + 1, Len(o.names)) = Append(Front(q), n)
    BY <1>1, <1>2, <1>3, OpenedIs
  <2> QED BY <2>1
<1> QED BY <1>4 DEF Opened, Place

(* No file of a bag goes out as HTML by itself; the file found is the one   *)
(* opened, but for the blanks at its end; one that stays as it is is sent   *)
(* as what it is, or refused for what it is, and ends the process only when *)
(* it cannot be looked at (getBagInfoResponse, serveFile, serveHTMLFile).   *)
THEOREM FilesServedAsTheyAre == Spec => []ServedAsItIs
<1>1. WayInv => ServedAsItIs BY FoundIsOpened DEF WayInv, GatewayInv, ServedAsItIs
<1> QED BY <1>1, WayKept, PTL

(* A path is refused exactly when it climbs above the bag at some point or *)
(* names something unfit, and else is the names nothing after them takes   *)
(* back, in their order: for every path (sanitizePath).                    *)
THEOREM PathsStayInside == Spec => []PathStaysInside
<1>1. ASSUME WayInv PROVE PathStaysInside
  <2>1. query.path \in Seq(Segments) \ {<<>>} /\ path = Sanitize(query.path)
    BY <1>1 DEF WayInv, PathInv, Asked
  <2> DEFINE p == TrimSpace(query.path)
             gone == Climbs(p) \/ \E i \in Kept(p) : p[i] \in Unfit
  <2>2. IF gone THEN path = Refused ELSE path # Refused /\ InPlace(p, path.names)
    BY <2>1, SanitizedIs
  <2> QED BY <2>2 DEF PathStaysInside, InPlace
<1> QED BY <1>1, WayKept, PTL

(* What each branch makes of a path is what the bag has there, but for     *)
(* those folders and rooted paths: for every bag and path (getFromLocal-   *)
(* Storage, getFromRemoteStorage, ls, isSingleFile).                       *)
THEOREM BagIsAnswered == Spec => AnswersTheBag
<1> DEFINE q == path.names
           A == AskLocal => found'.kind =
                  IF IsFile(bag, q) \/ OwnName(q) THEN "local"
                  ELSE IF IsFolder(bag, q) THEN "listing" ELSE "none"
           B == AskRemote /\ answer'.code # 413 => found'.kind =
                  IF IsFile(bag, q) /\ ~path.rooted THEN "stream"
                  ELSE IF IsFolder(bag, q) /\ ~EndsInOneFile(q) THEN "listing" ELSE "none"
           C == found'.kind = "listing" =>
                  {[name |-> e.name, folder |-> e.folder] : e \in found'.entries} = Children(bag, q)
<1>1. ASSUME WayInv PROVE A
  <2>1. CASE AskLocal /\ IsFile(bag, q) BY <1>1, <2>1, LocalFile
  <2>2. CASE AskLocal /\ ~IsFile(bag, q) BY <1>1, <2>2, LocalFolder
  <2> QED BY <2>1, <2>2
<1>2. ASSUME WayInv PROVE B
  <2> SUFFICES ASSUME AskRemote, answer'.code # 413
               PROVE  found'.kind = IF IsFile(bag, q) /\ ~path.rooted THEN "stream"
                      ELSE IF IsFolder(bag, q) /\ ~EndsInOneFile(q) THEN "listing" ELSE "none"
    OBVIOUS
  <2>1. CASE IsFile(bag, q)
    <3>1. ~Fail(413) BY FailFacts
    <3>2. IF ~path.rooted THEN found'.kind = "stream" ELSE found'.kind = "none"
      <4>1. WayInv /\ AskRemote /\ IsFile(bag, path.names) BY <1>2, <2>1
      <4>2. \/ Fail(413) /\ found'.kind = "none"
            \/ Fail(500) /\ found'.kind = "none" /\ path.rooted
            \/ found'.kind = "stream" /\ ~path.rooted /\ pc' = "serve" /\ UNCHANGED answer
        BY <4>1, RemoteFile
      <4> QED BY <3>1, <4>2
    <3>3. pc = "ask" BY DEF AskRemote
    <3>4. PathInv /\ path # Refused /\ bag \in Bags BY <1>2, <3>3 DEF WayInv, PathInv
    <3>5. ~IsFolder(bag, q) BY <2>1, <3>4, NamesAsked, LsOfFile
    <3> QED BY <2>1, <3>2, <3>5
  <2>2. CASE ~IsFile(bag, q)
    <3>1. WayInv /\ AskRemote /\ ~IsFile(bag, path.names) BY <1>2, <2>2
    <3> QED BY <2>2, <3>1, RemoteFolder
  <2> QED BY <2>1, <2>2
<1>3. ASSUME WayInv, [Next]_vars, UNCHANGED <<bag, path>> PROVE C
  <2> SUFFICES ASSUME found'.kind = "listing"
               PROVE {Shown(e) : e \in found'.entries} = Children(bag, q)
    BY DEF Shown
  <2>1. PathInv' BY <1>3, WayStep DEF WayInv
  <2>2. /\ bag \in Bags /\ path # Refused /\ found'.entries = Ls(bag, q) /\ ~IsFile(bag, q)
    BY <1>3, <2>1 DEF PathInv
  <2>3. q \in Seq(Names) BY <1>3, <2>2, NamesAsked DEF WayInv
  <2> QED BY <2>2, <2>3, ListingIs
<1>4. ASSUME Next PROVE UNCHANGED bag /\ (UNCHANGED path \/ found' = Nothing)
  BY <1>4 DEF Next, Get, GetMalformed, Reload, Follow, Receive, AskLocal, AskRemote, AskFails,
     SendListing, ServeStream, ServeLocal, Lstat, ReadFile, Stat, Open, DiskChanges, Over, request
<1>5. ASSUME WayInv, Next PROVE FoundIsThere
  <2>1. A /\ B BY <1>1, <1>2, <1>5
  <2>2. CASE UNCHANGED path
    <3>1. C BY <1>3, <1>4, <1>5, <2>2
    <3> QED BY <2>1, <3>1 DEF FoundIsThere
  <2>3. CASE found' = Nothing
    <3>1. found'.kind # "listing" BY <2>3, NothingKind
    <3> QED BY <2>1, <3>1 DEF FoundIsThere
  <2> QED BY <1>4, <1>5, <2>2, <2>3
<1>6. ASSUME WayInv, [Next]_vars PROVE [FoundIsThere]_vars BY <1>5, <1>6
<1> QED BY <1>6, WayKept, PTL DEF Spec, AnswersTheBag

(* A link of a listing leads to the entry it stands for, whatever its name *)
(* is, but for the names the three conversions change                      *)
(* (HtmlFilesListWithTemplate, getPath, sanitizePath).                     *)
THEOREM LinksAlwaysLead == Spec => []LinksLead
<1>1. ASSUME WayInv PROVE LinksLead
  <2> DEFINE n == Append(link.at, link.name)
  <2> SUFFICES ASSUME link # NoLink, Survives(n)
               PROVE  /\ path = [rooted |-> FALSE, names |-> n]
                      /\ IsFile(bag, path.names) \/ IsFolder(bag, path.names)
    BY DEF LinksLead
  <2>1. /\ link.at \in Seq(Names) /\ link.name \in Names
        /\ query.path = Request(n).path /\ path = Sanitize(query.path)
        /\ IsFile(bag, n) \/ IsFolder(bag, n)
    BY <1>1 DEF WayInv, PathInv, LinkFor
  <2>2. n \in Seq(Names) /\ n # <<>> BY <2>1
  <2> HIDE DEF n
  <2>3. /\ \A i \in DOMAIN n : Unescaped[n[i]] = n[i] /\ n[i] \notin Unfit
        /\ TrimSpace(n) = n
    BY DEF Survives
  <2>4. DOMAIN n = 1..Len(n) /\ Len(n) \in Nat \ {0} BY <2>2
  <2>5. query.path = n
    <3>1. query.path = [i \in 1..Len(n) |-> Unescaped[n[i]]] BY <2>1, <2>2, RequestIs
    <3>2. n = [i \in 1..Len(n) |-> n[i]] BY <2>2
    <3> QED BY <2>3, <2>4, <3>1, <3>2
  <2>6. Clean(n) = [rooted |-> FALSE, names |-> n] BY <2>2, CleanNames
  <2>7. n \notin {<<"">>, <<".">>, <<"", "">>}
    <3>1. n[1] \in Names BY <2>2, <2>4
    <3>2. n[1] \notin {"", "."} BY <3>1, NamesAssumption
    <3>3. 1 \in DOMAIN n BY <2>4
    <3>4. ~Plain(n) BY <3>2, <3>3, Zenon DEF Plain
    <3> QED BY <3>4, ShortPlain, Zenon
  <2>8. Range(n) \cap (Unfit \cup {".."}) = {}
    <3>1. \A i \in DOMAIN n : n[i] \in Names BY <2>2
    <3>2. ".." \notin Names BY NamesAssumption
    <3>3. \A i \in DOMAIN n : n[i] \notin Unfit \cup {".."} BY <2>3, <3>1, <3>2, Zenon
    <3> QED BY <3>3, Zenon DEF Range
  <2>9. Sanitize(n) = Clean(n)
    <3>1. TrimSpace(n) = n BY <2>3
    <3>2. Clean(n).names = n BY <2>6
    <3>3. Range(Clean(n).names) \cap (Unfit \cup {".."}) = {} BY <2>8, <3>2
    <3> QED BY <2>7, <3>1, <3>3, Zenon DEF Sanitize
  <2> QED BY <2>1, <2>5, <2>6, <2>9
<1> QED BY <1>1, WayKept, PTL

(* Every step keeps every variable to its type. *)
LEMMA ClassIs ==
  \A n : ContentType(n).class \in {"image", "video", "audio", "text", "html", "other"}
<1> TAKE n
<1> DEFINE S == ListsOf(n)
           m == Min(S)
           names == <<"image", "video", "audio", "text">>
<1>1. S \subseteq 1..4 BY DEF ListsOf
<1>2. S # {} => m \in 1..4
  <2> HIDE DEF S
  <2>1. S # {} => \E x \in S : \A y \in S : x <= y
    <3>1. \A x \in 1..4 : x = 1 \/ x = 2 \/ x = 3 \/ x = 4 OBVIOUS
    <3>2. \A x \in S : x = 1 \/ x = 2 \/ x = 3 \/ x = 4 BY <1>1, <3>1
    <3>3. S # {} => 1 \in S \/ 2 \in S \/ 3 \in S \/ 4 \in S BY <3>2
    <3>4. CASE 1 \in S BY <3>2, <3>4
    <3>5. CASE 1 \notin S /\ 2 \in S BY <3>2, <3>5
    <3>6. CASE 1 \notin S /\ 2 \notin S /\ 3 \in S BY <3>2, <3>6
    <3>7. CASE 1 \notin S /\ 2 \notin S /\ 3 \notin S /\ 4 \in S BY <3>2, <3>7
    <3> QED BY <3>3, <3>4, <3>5, <3>6, <3>7
  <2>2. S # {} => m \in S BY <2>1 DEF Min
  <2> QED BY <1>1, <2>2
<1>3. \A k \in 1..4 : names[k] \in {"image", "video", "audio", "text"} OBVIOUS
<1>4. ContentType(n) =
        IF S = {} THEN [class |-> "other", download |-> TRUE]
        ELSE IF m = 4 /\ FormatsOf[n] \cap HtmlFormats # {}
             THEN [class |-> "html", download |-> FALSE]
        ELSE [class |-> names[m], download |-> FALSE]
  BY Zenon DEF ContentType
<1> HIDE DEF S, m, names
<1> QED BY <1>2, <1>3, <1>4

RestOK ==
  /\ seen \subseteq OnDisk
  /\ found.kind \in {"none", "local", "stream", "listing"}
  /\ ct.class \in {"none", "image", "video", "audio", "text", "html", "other"}
  /\ stat \in Sizes \cup {"none", "dir"}
  /\ answer.code \in {0, 200, 400, 404, 406, 408, 413, 500}
  /\ answer.body \in {"none", "shell", "listing", "file", "wrapped"}

LEMMA RestStep == ASSUME RestOK, WayInv, [Next]_vars PROVE RestOK'
<1>0. /\ Unset.class = "none" /\ Download.class = "other" /\ disk \in OnDisk
      /\ Nothing.kind = "none" /\ NoAnswer.code = 0 /\ NoAnswer.body = "none"
  BY NothingKind DEF Unset, Download, WayInv, GatewayInv, DiskInv
<1> USE DEF RestOK
<1>1. CASE UNCHANGED vars BY <1>1 DEF vars, request
<1>2. ASSUME NEW q, NEW from, Receive(q, from) PROVE RestOK'
  BY <1>0, <1>2, FailFacts, ReplyFacts DEF Receive
<1>3. CASE \E q \in Queries : Get(q) BY <1>2, <1>3 DEF Get
<1>4. CASE Reload BY <1>2, <1>4 DEF Reload
<1>5. CASE \E e \in found.entries : Follow(e) BY <1>2, <1>5 DEF Follow
<1>6. CASE GetMalformed BY <1>6, FailFacts DEF GetMalformed, request
<1>7. CASE AskLocal BY <1>7, FailFacts DEF AskLocal, Info
<1>8. CASE AskRemote BY <1>8, FailFacts DEF AskRemote, Info
<1>9. CASE \E code \in {404, 406, 408, 500} : AskFails(code)
  BY <1>9, FailFacts DEF AskFails, request
<1>10. CASE SendListing BY <1>10, ReplyFacts DEF SendListing, request
<1>11. CASE ServeStream
  <2>1. ct'.class \in {"image", "video", "audio", "text", "html", "other"}
    BY <1>11, ClassIs DEF ServeStream
  <2>2. answer'.code = 200 /\ answer'.body \in {"wrapped", "file"}
    BY <1>11, ReplyFacts DEF ServeStream
  <2> QED BY <1>11, <2>1, <2>2 DEF ServeStream
<1>12. CASE ServeLocal
  <2>1. ct' = ct \/ ct'.class \in {"image", "video", "audio", "text", "html", "other"}
    BY <1>12, ClassIs DEF ServeLocal
  <2> QED BY <1>12, <2>1, FailFacts DEF ServeLocal
<1>13. CASE Lstat BY <1>0, <1>13, FailFacts DEF Lstat
<1>14. CASE ReadFile BY <1>14, FailFacts, ReplyFacts DEF ReadFile, request
<1>15. CASE Stat
  <2>1. Met \in OnDisk \cup {"dir"} BY <1>0 DEF Met, OnDisk
  <2>2. stat' \in Sizes \cup {"none", "dir"} BY <1>15, <2>1 DEF Stat, OnDisk
  <2> QED BY <1>15, <2>2, FailFacts DEF Stat
<1>16. CASE Open BY <1>16, FailFacts, ReplyFacts DEF Open, request
<1>17. CASE DiskChanges BY <1>17 DEF DiskChanges, request
<1>18. CASE Over BY <1>0, <1>18 DEF Over, OnDisk
<1> QED BY <1>1, <1>3, <1>4, <1>5, <1>6, <1>7, <1>8, <1>9, <1>10, <1>11, <1>12, <1>13,
       <1>14, <1>15, <1>16, <1>17, <1>18 DEF Next

(* The type invariant. *)
THEOREM GatewayTypes == Spec => []TypeOK
<1>1. Init => RestOK BY NothingKind DEF Init, RestOK, OnDisk, Unset
<1>2. WayInv /\ RestOK /\ [Next]_vars => RestOK' BY RestStep
<1>3. ASSUME WayInv, RestOK PROVE TypeOK
  <2>1. bag \in Bags /\ pc \in Steps /\ disk \in seen
    BY <1>3 DEF WayInv, PathInv, GatewayInv, FreshInv, DiskInv
  <2>2. path.names \in Seq(Names \cup {"refused"})
    <3>1. CASE path = Refused
      <4>1. path.names = <<"refused">> BY <3>1 DEF Refused
      <4>2. \A x \in Names \cup {"refused"} : <<x>> \in Seq(Names \cup {"refused"}) OBVIOUS
      <4> QED BY <4>1, <4>2, Zenon
    <3>2. CASE path # Refused
      <4>1. path.names \in Seq(Names) BY <1>3, <3>2, NamesAsked DEF WayInv
      <4> QED BY <4>1, SeqOfMore
    <3> QED BY <3>1, <3>2
  <2> QED BY <1>3, <2>1, <2>2 DEF TypeOK, RestOK
<1> QED BY <1>1, <1>2, <1>3, WayKept, PTL DEF Spec
=============================================================================
