----------------------------- MODULE BanBookProofs -----------------------------
(***************************************************************************)
(* The ban book, for every set of bags, bodies, tokens and calls, every    *)
(* size of a page and of the tables: the history tells the table, a        *)
(* client that lists a table page by page misses no more than was taken    *)
(* out meanwhile, and nothing is changed without a permission.             *)
(***************************************************************************)
EXTENDS BanBook, NatRecursion

BansCall ==
  [table : {"bans"}, header : Headers, body : Seq([bag : Ids, name : Names, status : BOOLEAN]),
   at : 0..MaxTime, visible : SUBSET Ids]
ReportCall == [table : {"reports"}, header : Headers, bag : Ids, at : 0..MaxTime]

LEMMA ElementOf ==
  \A S : \A q \in Seq(S) : \A k \in DOMAIN q : q[k] \in S
  OBVIOUS

LEMMA CallIs ==
  ASSUME NEW call \in Call
  PROVE  /\ call.table = "bans" => call \in BansCall
         /\ call.table = "reports" => call \in ReportCall
         /\ call.table \notin {"bans", "reports"} => call = NoCall
  BY DEF Call, BansCall, ReportCall, NoCall

LEMMA CallsAre == BansCall \subseteq Call /\ ReportCall \subseteq Call /\ NoCall \in Call
  BY DEF Call, BansCall, ReportCall

LEMMA NoRowApart == NoRow \notin Row /\ NoRow.at = 0
  BY BookAssumption DEF NoRow, Row

LEMMA NoCallTable == NoCall.table = "none"
  BY DEF NoCall

(* An entry at the end of a bag's history is its last one. *)
LEMMA LastAdded ==
  ASSUME NEW h \in Seq(Entry), NEW e \in Entry
  PROVE  /\ h \o <<e>> \in Seq(Entry) /\ h \o <<e>> # <<>>
         /\ Last(h \o <<e>>) = e
         /\ h \o <<>> = h
  BY DEF Last

LEMMA InvInit == ASSUME Init PROVE BookInv
<1> USE DEF Init, BookInv
<1>1. TypeOK
  BY BookAssumption, CallsAre DEF TypeOK
<1>2. Rows = {} BY DEF Rows
<1>3. HistoryTellsTable BY DEF HistoryTellsTable
<1>4. \A c \in Calls : CallInv(c) BY NoCallTable DEF CallInv
<1>5. KeptInLower BY <1>2 DEF KeptInLower
<1>6. \A i \in Rows : rows[i].at <= now BY <1>2
<1> QED BY <1>1, <1>3, <1>4, <1>5, <1>6

-----------------------------------------------------------------------------
(* A call that begins. *)
LEMMA BeginKeeps ==
  ASSUME BookInv, NEW c \in Calls, NEW call \in Call,
         calls' = [calls EXCEPT ![c] = call], UNCHANGED <<list, tables, now>>,
         call.table = "bans" =>
           /\ call.visible \subseteq Rows /\ call.at <= now
           /\ \A i \in call.visible : rows[i].at <= call.at
           /\ \A k \in DOMAIN call.body : Lower[call.body[k].bag] = call.body[k].bag,
         call.table = "reports" => Lower[call.bag] = call.bag
  PROVE  BookInv'
<1>1. TypeOK' BY DEF BookInv, TypeOK, tables
<1>2. Rows' = Rows BY DEF Rows, tables
<1>3. HistoryTellsTable' /\ KeptInLower'
  BY <1>2 DEF BookInv, HistoryTellsTable, KeptInLower, tables
<1>4. \A d \in Calls : CallInv(d)'
  BY <1>2 DEF CallInv, BookInv, TypeOK, tables
<1>5. (\A i \in Rows : rows[i].at <= now)' BY <1>2 DEF BookInv, tables
<1> QED BY <1>1, <1>3, <1>4, <1>5 DEF BookInv

LEMMA PutBansKeeps ==
  ASSUME BookInv, NEW c \in Calls, NEW h \in Headers, NEW s \in Bodies, PutBans(c, h, s)
  PROVE  BookInv'
<1> DEFINE body == [k \in DOMAIN s |-> [s[k] EXCEPT !.bag = Lower[@]]]
           call == [table |-> "bans", header |-> h, at |-> now, visible |-> Rows, body |-> body]
<1>1. s \in Seq([bag : Ids \cup {ShortId}, name : Names, status : BOOLEAN])
  BY BookAssumption
<1>2. ASSUME NEW k \in DOMAIN s
      PROVE  s[k] \in [bag : Ids, name : Names, status : BOOLEAN]
  <2>1. s[k] \in [bag : Ids \cup {ShortId}, name : Names, status : BOOLEAN]
    BY <1>1, ElementOf
  <2>2. s[k].bag # ShortId BY DEF PutBans
  <2> QED BY <2>1, <2>2
<1>3. \A k \in DOMAIN s : body[k] \in [bag : Ids, name : Names, status : BOOLEAN]
                          /\ Lower[body[k].bag] = body[k].bag
  BY <1>2, BookAssumption
<1>4. body \in Seq([bag : Ids, name : Names, status : BOOLEAN])
  <2> DEFINE S == [bag : Ids, name : Names, status : BOOLEAN]
  <2>1. Len(s) \in Nat /\ DOMAIN s = 1..Len(s) BY <1>1
  <2>2. DOMAIN body = 1..Len(s) BY <2>1
  <2>3. body = [k \in 1..Len(s) |-> body[k]] BY <2>1
  <2>4. \A k \in 1..Len(s) : body[k] \in S BY <1>3, <2>1
  <2> HIDE DEF body, S
  <2>5. body \in [1..Len(s) -> S] BY <2>3, <2>4
  <2>6. body \in Seq(S) BY <2>1, <2>5
  <2> QED BY <2>6 DEF S
<1>5. call \in Call
  <2>1. Rows \in SUBSET Ids BY DEF Rows
  <2> HIDE DEF body
  <2>2. call \in BansCall BY <1>4, <2>1 DEF BansCall, BookInv, TypeOK
  <2> QED BY <2>2, CallsAre
<1>6. calls' = [calls EXCEPT ![c] = call] /\ UNCHANGED <<list, tables, now>>
  BY DEF PutBans
<1>7. /\ call.table = "bans" /\ call.visible = Rows /\ call.body = body /\ call.at = now
      /\ \A k \in DOMAIN body : Lower[body[k].bag] = body[k].bag
  BY <1>3
<1>8. now <= now /\ \A i \in Rows : rows[i].at <= now
  BY BookAssumption DEF BookInv, TypeOK
<1> HIDE DEF call, body
<1> QED BY <1>5, <1>6, <1>7, <1>8, BeginKeeps

LEMMA PostReportKeeps ==
  ASSUME BookInv, NEW c \in Calls, NEW h \in Headers, NEW i \in Ids, PostReport(c, h, i)
  PROVE  BookInv'
<1> DEFINE call == [table |-> "reports", header |-> h, bag |-> Lower[i], at |-> now]
<1>1. call \in ReportCall BY BookAssumption DEF ReportCall, BookInv, TypeOK
<1>2. calls' = [calls EXCEPT ![c] = call] /\ UNCHANGED <<list, tables, now>>
  BY DEF PostReport
<1>3. call.table = "reports" /\ Lower[call.bag] = call.bag BY BookAssumption
<1> HIDE DEF call
<1> QED BY <1>1, <1>2, <1>3, CallsAre, BeginKeeps

-----------------------------------------------------------------------------
(* A ban update takes effect: the rows that go, the rows that are put in   *)
(* or changed, and what the triggers write.                                *)
Changes(call, gone, put, anew) ==
  /\ rows' = [i \in Ids |-> IF i \in gone THEN NoRow
                            ELSE IF i \in put THEN RowFor(i, call, anew) ELSE rows[i]]
  /\ walk' = WalkLoses(gone, anew) /\ UNCHANGED <<reports, now, list>>
Logs(call, gone, put, anew) ==
  history' = [i \in Ids |->
    (history[i] \o (IF i \in gone \cup anew THEN TakenOut(rows[i], call.at) ELSE <<>>))
      \o (IF i \in put THEN <<Put(RowFor(i, call, anew))>> ELSE <<>>)]
Hides(c, gone, anew) ==
  calls' = [d \in Calls |->
    IF d = c THEN NoCall
    ELSE IF calls[d].table = "bans" THEN [calls[d] EXCEPT !.visible = @ \ (gone \cup anew)]
    ELSE calls[d]]

LEMMA CommitEffect ==
  ASSUME BookInv, NEW c \in Calls, Commit(c)
  PROVE  \E gone \in SUBSET Rows, put \in SUBSET Named(calls[c].body, TRUE) :
           \E anew \in SUBSET (put \cap calls[c].visible) :
             /\ gone \cap put = {}
             /\ Changes(calls[c], gone, put, anew) /\ Logs(calls[c], gone, put, anew)
             /\ Hides(c, gone, anew)
<1>1. PICK o \in Outcomes(calls[c].visible, calls[c].body) :
        /\ Changes(calls[c], o.gone, Named(calls[c].body, TRUE) \ o.gone, o.anew)
        /\ Logs(calls[c], o.gone, Named(calls[c].body, TRUE) \ o.gone, o.anew)
        /\ Hides(c, o.gone, o.anew)
  <2>1. UNCHANGED <<reports, now, list>> BY DEF Commit
  <2> QED BY <2>1 DEF Commit, Changes, Logs, Hides
<1> DEFINE put == Named(calls[c].body, TRUE) \ o.gone
<1>2. o.gone \subseteq calls[c].visible /\ o.anew \subseteq put \cap calls[c].visible
  BY DEF Outcomes
<1>3. calls[c].visible \subseteq Rows BY DEF Commit, BookInv, CallInv
<1>4. put \in SUBSET Named(calls[c].body, TRUE) /\ o.gone \cap put = {} OBVIOUS
<1> HIDE DEF put
<1>5. o.gone \in SUBSET Rows /\ o.anew \in SUBSET (put \cap calls[c].visible) BY <1>2, <1>3
<1> QED BY <1>1, <1>4, <1>5 DEF put

(* The row an update leaves for a bag it bans: as old as the update, or as *)
(* the row that was there.                                                 *)
LEMMA Upserted ==
  ASSUME BookInv, NEW call \in BansCall, NEW i \in Named(call.body, TRUE), NEW anew
  PROVE  /\ i \in Ids /\ RowFor(i, call, anew) \in Row
         /\ IF i \in anew \/ rows[i] = NoRow THEN RowFor(i, call, anew).at = call.at
            ELSE RowFor(i, call, anew).at = rows[i].at
<1>1. \A k \in DOMAIN call.body : call.body[k] \in [bag : Ids, name : Names, status : BOOLEAN]
  <2>1. call.body \in Seq([bag : Ids, name : Names, status : BOOLEAN]) BY DEF BansCall
  <2> QED BY <2>1, ElementOf
<1>2. \E k \in DOMAIN call.body : call.body[k].bag = i /\ call.body[k].status
  BY DEF Named
<1>3. BanningName(call.body, i) \in DOMAIN call.body
  BY <1>2 DEF BanningName
<1>4. i \in Ids /\ call.body[BanningName(call.body, i)].name \in Names
  BY <1>1, <1>2, <1>3
<1>5. rows[i] # NoRow => rows[i] \in Row BY <1>4 DEF BookInv, TypeOK
<1>6. call.at \in 0..MaxTime BY DEF BansCall
<1>7. rows[i] # NoRow => rows[i].at \in 0..MaxTime BY <1>5 DEF Row
<1>8. Inserted(i, call) \in Row /\ Inserted(i, call).at = call.at
  BY <1>4, <1>6 DEF Inserted, Row
<1>9. rows[i] # NoRow => /\ Upsert(i, call) \in Row /\ Upsert(i, call).at = rows[i].at
  BY <1>7, <1>8 DEF Upsert, Row
<1> QED BY <1>4, <1>8, <1>9 DEF RowFor, Upsert

(* The ids of the bags a call bans are in lower case. *)
LEMMA NamedInLower ==
  ASSUME BookInv, NEW c \in Calls, calls[c].table = "bans", NEW i \in Named(calls[c].body, TRUE)
  PROVE  Lower[i] = i
  BY DEF BookInv, CallInv, Named

LEMMA CommitKeeps ==
  ASSUME BookInv, NEW c \in Calls, Commit(c)
  PROVE  BookInv'
<1> DEFINE call == calls[c]
<1>1. call \in Call /\ call.table = "bans" BY DEF Commit, BookInv, TypeOK
<1>2. call \in BansCall BY <1>1, CallIs
<1>3. PICK gone \in SUBSET Rows, put \in SUBSET Named(call.body, TRUE) :
        \E anew \in SUBSET (put \cap call.visible) :
          /\ gone \cap put = {}
          /\ Changes(call, gone, put, anew) /\ Logs(call, gone, put, anew) /\ Hides(c, gone, anew)
  BY CommitEffect
<1>4. PICK anew \in SUBSET (put \cap call.visible) :
        /\ gone \cap put = {}
        /\ Changes(call, gone, put, anew) /\ Logs(call, gone, put, anew) /\ Hides(c, gone, anew)
  BY <1>3
<1>5. /\ call.visible \subseteq Rows /\ call.at <= now
      /\ \A i \in call.visible : rows[i].at <= call.at
  BY <1>1 DEF BookInv, CallInv
<1> DEFINE New(i) == RowFor(i, call, anew)
<1>6. \A i \in put : /\ i \in Ids /\ New(i) \in Row
                     /\ IF i \in anew \/ rows[i] = NoRow THEN New(i).at = call.at
                        ELSE New(i).at = rows[i].at
  BY <1>2, Upserted
<1> HIDE DEF call
<1>7. \A i \in Rows : i \in Ids /\ rows[i] \in Row
  BY DEF Rows, BookInv, TypeOK
<1>8. gone \cup anew \subseteq Rows BY <1>5
<1>9. rows' = [i \in Ids |-> IF i \in gone THEN NoRow ELSE IF i \in put THEN New(i) ELSE rows[i]]
      /\ UNCHANGED <<reports, now, list>>
  BY <1>4 DEF Changes
(* One bag at a time. *)
<1>10. ASSUME NEW i \in Ids
       PROVE  /\ rows'[i] \in Row \cup {NoRow}
              /\ history'[i] \in Seq(Entry)
              /\ IF history'[i] # <<>> /\ Last(history'[i]).banned
                 THEN rows'[i] # NoRow /\ Put(rows'[i]) = Last(history'[i])
                 ELSE rows'[i] = NoRow
  <2> DEFINE out == IF i \in gone \cup anew THEN TakenOut(rows[i], call.at) ELSE <<>>
             in  == IF i \in put THEN <<Put(New(i))>> ELSE <<>>
             e   == [name |-> rows[i].name, at |-> call.at, banned |-> FALSE]
             mid == history[i] \o out
  <2>0. history[i] \in Seq(Entry) /\ rows[i] \in Row \cup {NoRow}
    BY DEF BookInv, TypeOK
  <2>1. history'[i] = mid \o in BY <1>4 DEF Logs
  <2>2. ~e.banned /\ (i \in gone \cup anew => e \in Entry)
    BY <1>2, <1>7, <1>8 DEF BansCall, Entry, Row
  <2>3. out = IF i \in gone \cup anew THEN <<e>> ELSE <<>> BY DEF TakenOut
  <2> HIDE DEF e
  <2>4. /\ mid \in Seq(Entry)
        /\ IF i \in gone \cup anew THEN mid # <<>> /\ Last(mid) = e ELSE mid = history[i]
    <3> HIDE DEF out
    <3>1. CASE i \in gone \cup anew
      <4>1. mid = history[i] \o <<e>> /\ e \in Entry BY <2>2, <2>3, <3>1
      <4> QED BY <2>0, <3>1, <4>1, LastAdded
    <3>2. CASE i \notin gone \cup anew BY <2>0, <2>3, <3>2
    <3> QED BY <3>1, <3>2
  <2> HIDE DEF out, mid
  <2>5. CASE i \in put
    <3> DEFINE f == Put(New(i))
    <3>1. rows'[i] = New(i) /\ history'[i] = mid \o <<f>>
      BY <1>4, <1>9, <2>1, <2>5
    <3>2. f \in Entry /\ f.banned BY <1>6, <2>5 DEF Put, Row, Entry
    <3>3. Put(rows'[i]) = f BY <3>1
    <3>4. rows'[i] \in Row /\ rows'[i] # NoRow BY <1>6, <2>5, <3>1, NoRowApart
    <3> HIDE DEF f
    <3>5. Last(history'[i]) = f /\ history'[i] # <<>> /\ history'[i] \in Seq(Entry)
      BY <2>4, <3>1, <3>2, LastAdded
    <3> QED BY <3>2, <3>3, <3>4, <3>5
  <2>6. CASE i \notin put
    <3>1. history'[i] = mid
      <4>1. in = <<>> BY <2>6
      <4> QED BY <2>1, <2>4, <4>1
    <3>2. CASE i \in gone
      <4>1. rows'[i] = NoRow BY <1>9, <3>2
      <4> QED BY <2>2, <2>4, <3>1, <3>2, <4>1
    <3>3. CASE i \notin gone
      <4>1. i \notin gone \cup anew BY <2>6, <3>3
      <4>2. rows'[i] = rows[i] /\ history'[i] = history[i] BY <1>9, <2>4, <2>6, <3>1, <3>3, <4>1
      <4> QED BY <2>0, <4>2 DEF BookInv, HistoryTellsTable
    <3> QED BY <3>2, <3>3
  <2> QED BY <2>5, <2>6
<1>11. Rows' = (Rows \ gone) \cup put
  <2>1. \A i \in Ids : rows'[i] # NoRow <=> i \in (Rows \ gone) \cup put
    <3>1. \A i \in put : New(i) # NoRow BY <1>6, NoRowApart
    <3> HIDE DEF New
    <3> QED BY <1>4, <1>9, <3>1 DEF Rows
  <2> QED BY <1>6, <2>1 DEF Rows
(* Stamps: a row is as old as it was, or as the statement. *)
<1>12. \A i \in Rows' : \/ rows'[i].at = call.at
                        \/ i \in Rows \ anew /\ rows'[i].at = rows[i].at
  <2> SUFFICES ASSUME NEW i \in Rows'
               PROVE  \/ rows'[i].at = call.at
                      \/ i \in Rows \ anew /\ rows'[i].at = rows[i].at
    OBVIOUS
  <2>1. i \in Ids /\ i \notin gone BY <1>4, <1>6, <1>7, <1>11
  <2>2. CASE i \in put
    <3>1. rows'[i] = New(i) BY <1>9, <2>1, <2>2
    <3>2. rows[i] # NoRow => i \in Rows BY <2>1 DEF Rows
    <3> HIDE DEF New
    <3> QED BY <1>6, <2>2, <3>1, <3>2
  <2>3. CASE i \notin put
    <3>1. rows'[i] = rows[i] /\ i \in Rows \ anew BY <1>9, <1>11, <2>1, <2>3
    <3> QED BY <3>1
  <2> QED BY <2>2, <2>3
<1>13. \A i \in Rows' : rows'[i].at <= now'
  <2>1. \A i \in Rows : rows[i].at <= now BY DEF BookInv
  <2>2. now' = now BY <1>9
  <2> QED BY <1>5, <1>12, <2>1, <2>2
<1>14. ASSUME NEW d \in Calls
       PROVE  calls'[d] \in Call /\ CallInv(d)'
  <2>0. calls[d] \in Call BY DEF BookInv, TypeOK
  <2>1. CASE d = c
    <3>1. calls'[d] = NoCall BY <1>4, <2>1 DEF Hides
    <3> QED BY <3>1, CallsAre, NoCallTable DEF CallInv
  <2>2. CASE d # c /\ calls[d].table = "bans"
    <3> DEFINE moved == gone \cup anew
    <3>1. calls'[d] = [calls[d] EXCEPT !.visible = @ \ moved] BY <1>4, <2>2 DEF Hides
    <3> HIDE DEF moved
    <3>2. calls[d] \in BansCall BY <2>0, <2>2, CallIs
    <3>3. calls'[d] \in BansCall /\ calls'[d].visible = calls[d].visible \ moved
          /\ calls'[d].body = calls[d].body /\ calls'[d].at = calls[d].at
      BY <3>1, <3>2 DEF BansCall
    <3>4. /\ calls[d].visible \subseteq Rows /\ calls[d].at <= now
          /\ \A i \in calls[d].visible : rows[i].at <= calls[d].at
          /\ \A k \in DOMAIN calls[d].body : Lower[calls[d].body[k].bag] = calls[d].body[k].bag
      BY <2>2 DEF BookInv, CallInv
    <3>5. calls'[d].table = "bans" BY <3>3 DEF BansCall
    <3>6. calls'[d].visible \subseteq Rows' BY <1>11, <3>3, <3>4 DEF moved
    <3>7. calls'[d] \in Call BY <3>3, CallsAre
    <3>8. \A k \in DOMAIN calls'[d].body : Lower[calls'[d].body[k].bag] = calls'[d].body[k].bag
      BY <3>3, <3>4
    <3>9. calls'[d].at <= now' BY <1>9, <3>3, <3>4
    <3>10. \A i \in calls'[d].visible : rows'[i].at <= calls'[d].at
      <4> SUFFICES ASSUME NEW i \in calls'[d].visible PROVE rows'[i].at <= calls'[d].at
        OBVIOUS
      <4>1. i \in calls[d].visible /\ i \in Rows /\ i \notin gone /\ i \notin anew
        BY <3>3, <3>4 DEF moved
      <4>2. rows'[i].at = rows[i].at
        <5>1. i \in Ids /\ rows[i] # NoRow BY <4>1 DEF Rows
        <5>2. CASE i \in put
          <6>1. rows'[i] = New(i) BY <1>9, <4>1, <5>1, <5>2
          <6> HIDE DEF New
          <6> QED BY <1>6, <4>1, <5>1, <5>2, <6>1
        <5>3. CASE i \notin put BY <1>9, <4>1, <5>1, <5>3
        <5> QED BY <5>2, <5>3
      <4> QED BY <3>3, <3>4, <4>1, <4>2
    <3> QED BY <3>5, <3>6, <3>7, <3>8, <3>9, <3>10 DEF CallInv
  <2>3. CASE d # c /\ calls[d].table # "bans"
    <3>1. calls'[d] = calls[d] BY <1>4, <2>3 DEF Hides
    <3> QED BY <2>0, <2>3, <3>1 DEF CallInv, BookInv
  <2> QED BY <2>1, <2>2, <2>3
<1>15. TypeOK'
  <2>1. rows' \in [Ids -> Row \cup {NoRow}] BY <1>9, <1>10
  <2>2. history' \in [Ids -> Seq(Entry)]
    <3>1. history' = [i \in Ids |-> history'[i]] BY <1>4 DEF Logs
    <3> QED BY <1>10, <3>1
  <2>3. calls' \in [Calls -> Call]
    <3>1. calls' = [d \in Calls |-> calls'[d]] BY <1>4 DEF Hides
    <3> QED BY <1>14, <3>1
  <2> QED BY <1>9, <2>1, <2>2, <2>3 DEF BookInv, TypeOK
<1>16. HistoryTellsTable' BY <1>10 DEF HistoryTellsTable
<1>17. KeptInLower'
  <2>1. \A i \in put : Lower[i] = i BY <1>1, NamedInLower DEF call
  <2> QED BY <1>9, <1>11, <2>1 DEF KeptInLower, BookInv
<1> QED BY <1>13, <1>14, <1>15, <1>16, <1>17 DEF BookInv

LEMMA CommitReportKeeps ==
  ASSUME BookInv, NEW c \in Calls, CommitReport(c)
  PROVE  BookInv'
<1> DEFINE new == [bag |-> calls[c].bag, at |-> calls[c].at]
<1>1. calls[c] \in ReportCall BY CallIs DEF CommitReport, BookInv, TypeOK
<1>2. new \in [bag : Ids, at : 0..MaxTime] BY <1>1 DEF ReportCall
<1>3. reports' = Append(reports, new) /\ calls' = [calls EXCEPT ![c] = NoCall]
      /\ UNCHANGED <<list, rows, history, now>>
  BY DEF CommitReport
<1>4. reports \in Seq([bag : Ids, at : 0..MaxTime]) BY DEF BookInv, TypeOK
<1> HIDE DEF new
<1>5. reports' \in Seq([bag : Ids, at : 0..MaxTime]) BY <1>2, <1>3, <1>4
<1>6. TypeOK' BY <1>3, <1>5, CallsAre DEF BookInv, TypeOK
<1>7. Rows' = Rows BY <1>3 DEF Rows
<1>8. HistoryTellsTable' BY <1>3 DEF BookInv, HistoryTellsTable
<1>9. \A d \in Calls : CallInv(d)'
  BY <1>3, <1>7, NoCallTable DEF CallInv, BookInv, TypeOK
<1>10. KeptInLower'
  <2>1. Lower[new.bag] = new.bag
    BY DEF new, BookInv, CallInv, CommitReport
  <2>2. \A k \in DOMAIN reports' : reports'[k] = new \/ (k \in DOMAIN reports /\ reports'[k] = reports[k])
    BY <1>3, <1>4
  <2> QED BY <1>3, <1>7, <2>1, <2>2 DEF BookInv, KeptInLower
<1>11. (\A i \in Rows : rows[i].at <= now)' BY <1>3, <1>7 DEF BookInv
<1> QED BY <1>6, <1>8, <1>9, <1>10, <1>11 DEF BookInv

(* A call that fails, or is lost in a restart, leaves the tables alone. *)
LEMMA DropKeeps ==
  ASSUME BookInv, UNCHANGED <<list, tables>>, now' \in 0..MaxTime, now <= now',
         \A c \in Calls : calls'[c] \in {calls[c], NoCall}, DOMAIN calls' = Calls,
         calls' = [c \in Calls |-> calls'[c]]
  PROVE  BookInv'
<1>1. TypeOK' BY CallsAre DEF BookInv, TypeOK, tables
<1>2. Rows' = Rows BY DEF Rows, tables
<1>3. HistoryTellsTable' /\ KeptInLower'
  BY <1>2 DEF BookInv, HistoryTellsTable, KeptInLower, tables
<1>4. now \in Nat /\ now' \in Nat BY DEF BookInv, TypeOK
<1>5. ASSUME NEW c \in Calls PROVE CallInv(c)'
  <2>1. CASE calls'[c] = NoCall BY <2>1, NoCallTable DEF CallInv
  <2>2. CASE calls'[c] = calls[c]
    <3>1. CASE calls[c].table = "bans"
      <4>1. calls[c].at \in Nat /\ calls[c].at <= now
        <5>1. calls[c] \in BansCall BY <3>1, CallIs DEF BookInv, TypeOK
        <5> QED BY <3>1, <5>1, BookAssumption DEF BansCall, BookInv, CallInv
      <4>2. calls[c].at <= now' BY <1>4, <4>1
      <4> QED BY <1>2, <2>2, <3>1, <4>2 DEF CallInv, BookInv, tables
    <3>2. CASE calls[c].table # "bans" BY <2>2, <3>2 DEF CallInv, BookInv
    <3> QED BY <3>1, <3>2
  <2> QED BY <2>1, <2>2
<1>6. \A i \in Rows' : rows'[i].at <= now'
  <2>1. \A i \in Rows : rows[i].at \in Nat /\ rows[i].at <= now
    <3>1. \A i \in Rows : rows[i] \in Row BY DEF Rows, BookInv, TypeOK
    <3> QED BY <3>1, BookAssumption DEF Row, BookInv
  <2>2. rows' = rows BY DEF tables
  <2> QED BY <1>4, <1>2, <2>1, <2>2
<1> QED BY <1>1, <1>3, <1>5, <1>6 DEF BookInv

LEMMA InvStep == ASSUME BookInv, [Next]_vars PROVE BookInv'
<1>0. calls = [c \in Calls |-> calls[c]] /\ now \in 0..MaxTime /\ now <= now
  BY DEF BookInv, TypeOK
<1>1. ASSUME UNCHANGED <<list, tables, calls>>, now' \in 0..MaxTime, now <= now' PROVE BookInv'
  BY <1>0, <1>1, DropKeeps
<1>2. CASE UNCHANGED vars BY <1>0, <1>1, <1>2 DEF vars
<1>3. ASSUME NEW c \in Calls, StatementFails(c) PROVE BookInv'
  <2>1. \A d \in Calls : calls'[d] \in {calls[d], NoCall}
    BY <1>0, <1>3 DEF StatementFails
  <2>2. DOMAIN calls' = Calls /\ calls' = [d \in Calls |-> calls'[d]]
    BY <1>0, <1>3 DEF StatementFails
  <2> QED BY <1>0, <1>3, <2>1, <2>2, DropKeeps DEF StatementFails
<1>4. CASE Restart BY <1>0, <1>4, DropKeeps DEF Restart
<1>5. CASE Tick BY <1>0, <1>1, <1>5, BookAssumption DEF Tick
<1>6. ASSUME NEW h \in Headers, Page(h) \/ (\E t \in {"bans", "reports"} : BeginWalk(h, t))
      PROVE  BookInv'
  BY <1>0, <1>1, <1>6 DEF Page, BeginWalk
<1> QED BY <1>2, <1>3, <1>4, <1>5, <1>6, PutBansKeeps, PostReportKeeps, CommitKeeps,
       CommitReportKeeps DEF Next

(* The tables are typed and the history tells them, for every body and     *)
(* however many statements overlap (UpdateBanStatus, AddReport, triggers). *)
THEOREM BookSound == Spec => []BookInv
  BY InvInit, InvStep, PTL DEF Spec

(* A bag has a row exactly when its last entry says banned, and the row is *)
(* that entry (UpdateBanStatus, log_blacklist_changes).                    *)
THEOREM HistoryAlwaysTells == Spec => []HistoryTellsTable
  BY BookSound, PTL DEF BookInv

-----------------------------------------------------------------------------
(* Ranks.  A table is a set of pairs of an entry and its stamp.            *)
Ranked(S) == IsFiniteSet(S) /\ \A f \in S : f[2] \in Nat
Keyed(S) == \A e, f \in S : e[1] = f[1] => e = f

LEMMA NewerIs ==
  ASSUME NEW S, Ranked(S), NEW T \in SUBSET S, NEW e
  PROVE  /\ Newer(T, e) \in Nat /\ Newer(T, e) <= Newer(S, e)
         /\ IsFiniteSet({f \in T : f[2] > e[2]})
<1>1. IsFiniteSet({f \in S : f[2] > e[2]})
  BY FS_Subset DEF Ranked
<1>2. {f \in T : f[2] > e[2]} \in SUBSET {f \in S : f[2] > e[2]}
  OBVIOUS
<1>3. /\ IsFiniteSet({f \in T : f[2] > e[2]})
      /\ Cardinality({f \in T : f[2] > e[2]}) <= Cardinality({f \in S : f[2] > e[2]})
  BY <1>1, <1>2, FS_Subset
<1> QED BY <1>1, <1>3, FS_CardinalityType DEF Newer

LEMMA NewerStrict ==
  ASSUME NEW S, Ranked(S), NEW e \in S, NEW f \in S, e[2] > f[2]
  PROVE  Newer(S, e) < Newer(S, f)
<1> DEFINE A == {g \in S : g[2] > e[2]}
           B == {g \in S : g[2] > f[2]}
<1>1. A \in SUBSET B BY DEF Ranked
<1>2. e \in B /\ e \notin A BY DEF Ranked
<1>3. IsFiniteSet(B) BY FS_Subset DEF Ranked
<1>4. Cardinality(A) \in Nat /\ Cardinality(B) \in Nat
  BY <1>1, <1>3, FS_Subset, FS_CardinalityType
<1> HIDE DEF A, B
<1>5. Cardinality(A) <= Cardinality(B) /\ Cardinality(A) # Cardinality(B)
  BY <1>1, <1>2, <1>3, FS_Subset
<1> QED BY <1>4, <1>5 DEF A, B, Newer

(* Without ties, the ranks tell the entries apart and follow the stamps.   *)
LEMMA Apart ==
  ASSUME NEW S, Ranked(S), ~Tied(S), NEW e \in S, NEW f \in S
  PROVE  /\ e # f => Newer(S, e) # Newer(S, f)
         /\ Newer(S, e) < Newer(S, f) <=> e[2] > f[2]
<1>1. Newer(S, e) \in Nat /\ Newer(S, f) \in Nat /\ e[2] \in Nat /\ f[2] \in Nat
  BY NewerIs DEF Ranked
<1>2. CASE e = f BY <1>1, <1>2
<1>3. CASE e # f
  <2>1. e[2] # f[2] BY <1>3 DEF Tied
  <2>2. CASE e[2] > f[2] BY <1>1, <2>2, NewerStrict
  <2>3. CASE f[2] > e[2] BY <1>1, <2>3, NewerStrict
  <2> QED BY <1>1, <2>1, <2>2, <2>3
<1> QED BY <1>2, <1>3

LEMMA IntervalIs ==
  \A a, b \in Int : a <= b => IsFiniteSet(a..(b - 1)) /\ Cardinality(a..(b - 1)) = b - a
<1> TAKE a, b \in Int
<1> DEFINE d == b - 1
<1>1. d \in Int OBVIOUS
<1> HIDE DEF d
<1>2. IsFiniteSet(a..d) /\ Cardinality(a..d) = IF a > d THEN 0 ELSE d - a + 1
  BY <1>1, FS_Interval
<1> QED BY <1>2 DEF d

(* So entries with ranks in an interval are no more than its length. *)
LEMMA Slots ==
  ASSUME NEW S, Ranked(S), ~Tied(S), NEW Q \in SUBSET S,
         NEW a \in Int, NEW b \in Int, a <= b,
         \A h \in Q : Newer(S, h) \in a..(b - 1)
  PROVE  IsFiniteSet(Q) /\ Cardinality(Q) \in Nat /\ Cardinality(Q) <= b - a
<1> DEFINE T == a..(b - 1)
           r == [h \in Q |-> Newer(S, h)]
<1>1. IsFiniteSet(T) /\ Cardinality(T) = b - a BY IntervalIs
<1>2. r \in [Q -> T] OBVIOUS
<1>3. \A x, y \in Q : r[x] = r[y] => x = y BY Apart
<1>4. r \in Injection(Q, T)
  BY <1>2, <1>3 DEF Injection, IsInjective
<1> HIDE DEF T, r
<1>5. IsFiniteSet(Q) /\ Cardinality(Q) <= Cardinality(T) BY <1>1, <1>4, FS_Injection
<1> QED BY <1>1, <1>5, FS_CardinalityType

(* Every rank below that of an entry is taken: the page before it is full. *)
LEMMA FullPage ==
  \A S : \A f \in S : \A o, n \in Nat :
    Ranked(S) /\ ~Tied(S) /\ Newer(S, f) >= o + n =>
      Cardinality({e \in S : Newer(S, e) \in o..(o + n - 1)}) = n
<1> TAKE S
<1> TAKE f \in S
<1> TAKE o, n \in Nat
<1> HAVE Ranked(S) /\ ~Tied(S) /\ Newer(S, f) >= o + n
<1> DEFINE T == {e \in S : Newer(S, e) \in o..(o + n - 1)}
           C == Cardinality(S)
           All == 0..(C - 1)
           I == o..(o + n - 1)
           r == [h \in S |-> Newer(S, h)]
           q == [h \in T |-> Newer(S, h)]
<1>1. C \in Nat BY FS_CardinalityType DEF Ranked
<1>2. ASSUME NEW h \in S PROVE Newer(S, h) \in All
  <2> DEFINE X == {g \in S : g[2] > h[2]}
             Y == S \ {h}
  <2>1. X \in SUBSET Y BY DEF Ranked
  <2>2. IsFiniteSet(Y) /\ Cardinality(Y) = C - 1
    BY FS_RemoveElement DEF Ranked
  <2>3. Newer(S, h) = Cardinality(X) BY DEF Newer
  <2>4. Newer(S, h) \in Nat BY NewerIs
  <2> HIDE DEF X, Y, C
  <2>5. Cardinality(X) <= Cardinality(Y) BY <2>1, <2>2, FS_Subset
  <2> QED BY <1>1, <2>2, <2>3, <2>4, <2>5
<1>3. IsFiniteSet(All) /\ Cardinality(All) = C
  <2> HIDE DEF C
  <2>1. IsFiniteSet(0..(C - 1)) /\ Cardinality(0..(C - 1)) = C - 0 BY <1>1, IntervalIs
  <2> QED BY <1>1, <2>1
<1>4. r \in Injection(S, All)
  <2>1. r \in [S -> All] BY <1>2
  <2>2. \A x, y \in S : r[x] = r[y] => x = y BY Apart
  <2> QED BY <2>1, <2>2 DEF Injection, IsInjective
<1>5. r \in Surjection(S, All)
  <2> HIDE DEF r, All
  <2> QED BY <1>3, <1>4, FS_Injection
<1>6. \A m \in All : \E h \in S : Newer(S, h) = m
  BY <1>5 DEF Surjection
<1>7. I \subseteq All
  <2>1. Newer(S, f) \in All BY <1>2
  <2> QED BY <1>1, <2>1
<1>8. q \in Surjection(T, I)
  <2>1. q \in [T -> I] OBVIOUS
  <2>2. ASSUME NEW m \in I PROVE \E h \in T : q[h] = m
    <3>1. PICK h \in S : Newer(S, h) = m BY <1>6, <1>7
    <3>2. h \in T BY <3>1
    <3> QED BY <3>1, <3>2
  <2> HIDE DEF q, I, T
  <2> QED BY <2>1, <2>2 DEF Surjection
<1>9. q \in Injection(T, I)
  <2>1. q \in [T -> I] OBVIOUS
  <2>2. \A x, y \in T : q[x] = q[y] => x = y BY Apart
  <2> QED BY <2>1, <2>2 DEF Injection, IsInjective
<1>10. IsFiniteSet(I) /\ Cardinality(I) = n
  <2> DEFINE e == o + n
  <2>1. o \in Int /\ e \in Int /\ o <= e OBVIOUS
  <2>2. e - o = n OBVIOUS
  <2> HIDE DEF e, T, r, q
  <2>3. IsFiniteSet(o..(e - 1)) /\ Cardinality(o..(e - 1)) = e - o
    BY <2>1, IntervalIs
  <2> QED BY <2>2, <2>3 DEF e
<1>11. IsFiniteSet(T) /\ Cardinality(T) = Cardinality(I)
  <2> HIDE DEF T, I, q
  <2> QED BY <1>8, <1>9, <1>10, FS_Injection
<1> QED BY <1>10, <1>11

(* As many ids as entries. *)
LEMMA IdsCount ==
  ASSUME NEW S, Keyed(S), NEW T \in SUBSET S, IsFiniteSet(T)
  PROVE  Cardinality({e[1] : e \in T}) = Cardinality(T)
<1> DEFINE I == {e[1] : e \in T}
           k == [e \in T |-> e[1]]
<1>1. k \in Surjection(T, I) BY DEF Surjection
<1>2. k \in Injection(T, I) BY DEF Injection, IsInjective, Keyed
<1> HIDE DEF I, k
<1>3. Cardinality(I) = Cardinality(T) BY <1>1, <1>2, FS_Surjection
<1> QED BY <1>3 DEF I

-----------------------------------------------------------------------------
(* What a walk still owes.  L is what was there when it began and has been *)
(* neither taken out nor seen.  Some of it, M, is lost, an entry for each  *)
(* that was taken out at most; the rest is not passed yet, but for as many *)
(* removals as no loss has answered for, which have moved it forward.      *)
Owed(S, L, M, o, lost) ==
  /\ M \in SUBSET L /\ Cardinality(M) <= lost
  /\ \A f \in L \ M : Newer(S, f) + (lost - Cardinality(M)) >= o + Newer(L \ M, f)

LEMMA FewPassed ==
  ASSUME NEW S, Ranked(S), ~Tied(S), NEW L \in SUBSET S, NEW M, NEW o \in Nat, NEW lost \in Nat,
         Owed(S, L, M, o, lost)
  PROVE  LET K == {f \in L \ M : Newer(S, f) < o}
         IN  IsFiniteSet(K) /\ Cardinality(K) \in Nat /\ Cardinality(K) <= lost - Cardinality(M)
<1> DEFINE R == L \ M
           K == {f \in R : Newer(S, f) < o}
           c == lost - Cardinality(M)
<1>1. Ranked(R) /\ ~Tied(R) /\ R \in SUBSET S
  BY FS_Subset DEF Ranked, Tied
<1>2. IsFiniteSet(L) /\ IsFiniteSet(M) BY FS_Subset DEF Ranked, Owed
<1>3. Cardinality(M) \in Nat BY <1>2, FS_CardinalityType
<1>4. c \in Nat BY <1>3 DEF Owed
<1>5. ASSUME NEW h \in K PROVE Newer(R, h) \in 0..(c - 1)
  <2>1. Newer(S, h) + c >= o + Newer(R, h) BY DEF Owed
  <2>2. Newer(S, h) \in Nat /\ Newer(R, h) \in Nat BY <1>1, NewerIs
  <2>3. Newer(S, h) < o OBVIOUS
  <2> HIDE DEF R, c
  <2> QED BY <1>4, <2>1, <2>2, <2>3
<1>6. K \in SUBSET R OBVIOUS
<1> HIDE DEF R, K, c
<1>7. K \in SUBSET R /\ 0 \in Int /\ c \in Int /\ 0 <= c BY <1>4, <1>6
<1>8. \A h \in K : Newer(R, h) \in 0..(c - 1) BY <1>5
<1>9. IsFiniteSet(K) /\ Cardinality(K) \in Nat /\ Cardinality(K) <= c - 0
  BY ONLY <1>1, <1>7, <1>8, Slots
<1> QED BY <1>4, <1>9 DEF K, R, c

(* A page. *)
LEMMA PageOwes ==
  ASSUME NEW S, Ranked(S), ~Tied(S), NEW L \in SUBSET S, NEW M, NEW o \in Nat, NEW lost \in Nat,
         Owed(S, L, M, o, lost), NEW n \in Nat
  PROVE  LET L2 == {f \in L : Newer(S, f) \notin o..(o + n - 1)}
         IN  /\ \E M2 : Owed(S, L2, M2, o + n, lost)
             /\ (\A f \in S : Newer(S, f) < o + n) => Cardinality(L2) <= lost
<1> DEFINE L2 == {f \in L : Newer(S, f) \notin o..(o + n - 1)}
           K == {f \in L \ M : Newer(S, f) < o}
           N == M \cap L2
           M2 == N \cup K
<1>1. IsFiniteSet(M) /\ Cardinality(M) \in Nat
  BY FS_Subset, FS_CardinalityType DEF Ranked, Owed
<1>2. IsFiniteSet(K) /\ Cardinality(K) \in Nat /\ Cardinality(K) <= lost - Cardinality(M)
  BY FewPassed
<1>3. IsFiniteSet(N) /\ Cardinality(N) <= Cardinality(M) /\ Cardinality(N) \in Nat
  BY <1>1, FS_Subset, FS_CardinalityType
<1>4. \A f \in S : Newer(S, f) \in Nat BY NewerIs
<1>5. M2 \in SUBSET L2 BY <1>4
<1>6. IsFiniteSet(M2) /\ Cardinality(M2) \in Nat /\ Cardinality(M2) <= lost
  <2> HIDE DEF N, K
  <2>1. /\ IsFiniteSet(M2)
        /\ Cardinality(M2) = Cardinality(N) + Cardinality(K) - Cardinality(N \cap K)
    BY <1>2, <1>3, FS_Union
  <2>2. Cardinality(N \cap K) \in Nat BY <1>2, FS_Subset, FS_CardinalityType
  <2>3. Cardinality(M2) \in Nat BY <2>1, FS_CardinalityType
  <2> HIDE DEF M2
  <2> QED BY <1>1, <1>2, <1>3, <2>1, <2>2, <2>3
<1>7. \A f \in L2 \ M2 : f \in S /\ Newer(S, f) >= o + n
  BY <1>4
<1>8. ASSUME NEW f \in L2 \ M2
      PROVE  Newer(S, f) + (lost - Cardinality(M2)) >= (o + n) + Newer(L2 \ M2, f)
  <2> DEFINE R2 == L2 \ M2
             Q == {h \in R2 : h[2] > f[2]}
  <2>0. f \in S /\ Newer(S, f) \in Nat /\ Newer(S, f) >= o + n BY <1>4, <1>7
  <2>1. ASSUME NEW h \in Q PROVE Newer(S, h) \in (o + n)..(Newer(S, f) - 1)
    <3>1. h \in S /\ h[2] > f[2] /\ Newer(S, h) >= o + n BY <1>7
    <3>2. Newer(S, h) < Newer(S, f) BY <2>0, <3>1, Apart
    <3>3. Newer(S, h) \in Nat BY <1>4, <3>1
    <3> QED BY <2>0, <3>1, <3>2, <3>3
  <2>2. Q \in SUBSET S OBVIOUS
  <2> HIDE DEF Q, R2, L2, M2
  <2> DEFINE a == o + n
             b == Newer(S, f)
  <2>3. a \in Int /\ b \in Int /\ a <= b BY <2>0
  <2>4. \A h \in Q : Newer(S, h) \in a..(b - 1) BY <2>1
  <2> HIDE DEF a, b
  <2>5. Cardinality(Q) \in Nat /\ Cardinality(Q) <= b - a
    BY <2>2, <2>3, <2>4, Slots
  <2>6. Newer(R2, f) = Cardinality(Q) BY DEF Q, Newer
  <2> QED BY <1>6, <2>0, <2>5, <2>6 DEF R2, a, b
<1>9. Owed(S, L2, M2, o + n, lost)
  <2> HIDE DEF L2, M2
  <2> QED BY <1>5, <1>6, <1>8 DEF Owed
<1>10. ASSUME \A f \in S : Newer(S, f) < o + n PROVE Cardinality(L2) <= lost
  <2>1. L2 = M2 BY <1>4, <1>5, <1>7, <1>10
  <2> QED BY <1>6, <2>1
<1> QED BY <1>9, <1>10

(* Entries that come or go between pages, at most g of them out of the     *)
(* way of what stays, and n that move and may be lost.                     *)
LEMMA ChangeOwes ==
  ASSUME NEW S, Ranked(S), NEW S2, Ranked(S2), NEW L \in SUBSET S, NEW L2 \in SUBSET S2,
         NEW K \in SUBSET L2, L2 \ K \subseteq L, NEW M, NEW o \in Nat, NEW lost \in Nat,
         NEW g \in Nat, NEW n \in Nat, Cardinality(K) <= n, Owed(S, L, M, o, lost),
         \A f \in L2 \ K : Newer(S, f) <= Newer(S2, f) + g
  PROVE  \E M2 : Owed(S2, L2, M2, o, lost + g + n)
<1> DEFINE J == L2 \ K
           N == M \cap J
           M2 == N \cup K
           sum == lost + g + n
<1>1. IsFiniteSet(M) /\ Cardinality(M) \in Nat
  BY FS_Subset, FS_CardinalityType DEF Ranked, Owed
<1>2. IsFiniteSet(N) /\ Cardinality(N) <= Cardinality(M) /\ Cardinality(N) \in Nat
  BY <1>1, FS_Subset, FS_CardinalityType
<1>3. IsFiniteSet(K) /\ Cardinality(K) \in Nat
  BY FS_Subset, FS_CardinalityType DEF Ranked
<1>4. Cardinality(M2) = Cardinality(N) + Cardinality(K)
  <2>1. N \cap K = {} OBVIOUS
  <2> HIDE DEF N
  <2>2. Cardinality(M2) = Cardinality(N) + Cardinality(K) - Cardinality(N \cap K)
    BY <1>2, <1>3, FS_Union
  <2>3. Cardinality(N \cap K) = 0 BY <2>1, FS_EmptySet
  <2> HIDE DEF M2
  <2> QED BY <1>2, <1>3, <2>2, <2>3
<1>5. L2 \ M2 = J \ M /\ J \subseteq L OBVIOUS
<1>6. ASSUME NEW f \in L2 \ M2
      PROVE  Newer(S2, f) + (sum - Cardinality(M2)) >= o + Newer(L2 \ M2, f)
  <2>0. f \in L \ M /\ f \in L2 \ K BY <1>5
  <2>1. Newer(S, f) + (lost - Cardinality(M)) >= o + Newer(L \ M, f) BY <2>0 DEF Owed
  <2>2. Ranked(L \ M) BY FS_Subset DEF Ranked
  <2>3. L2 \ M2 \in SUBSET (L \ M) BY <1>5
  <2> HIDE DEF M2
  <2>4. Newer(L2 \ M2, f) \in Nat /\ Newer(L2 \ M2, f) <= Newer(L \ M, f)
        /\ Newer(L \ M, f) \in Nat
    BY <2>2, <2>3, NewerIs
  <2>5. Newer(S, f) \in Nat /\ Newer(S2, f) \in Nat BY NewerIs
  <2>6. Newer(S, f) <= Newer(S2, f) + g BY <2>0
  <2> HIDE DEF N
  <2> QED BY <1>1, <1>2, <1>3, <1>4, <2>1, <2>4, <2>5, <2>6
<1>7. M2 \in SUBSET L2 OBVIOUS
<1>8. Cardinality(M2) <= sum
  <2>1. Cardinality(M) <= lost BY DEF Owed
  <2> HIDE DEF M2, N
  <2> QED BY <1>1, <1>2, <1>3, <1>4, <2>1
<1>9. Owed(S2, L2, M2, o, sum)
  <2> HIDE DEF M2, sum
  <2> QED BY <1>6, <1>7, <1>8 DEF Owed
<1> QED BY <1>9

-----------------------------------------------------------------------------
(* The walk. *)
Left(S, w) == {f \in S : f[1] \in w.present \ w.seen}
Walking == [table : {"bans", "reports"}, offset : Nat, seen : SUBSET (Ids \cup Nat),
            lost : Nat, present : SUBSET (Ids \cup Nat)]

WalkInv ==
  \/ walk.table = "none" /\ walk.missed <= walk.lost
  \/ LET S == Stamped(walk.table) IN
     /\ walk \in Walking
     /\ walk.present \subseteq {f[1] : f \in S}
     /\ \E M : Owed(S, Left(S, walk), M, walk.offset, walk.lost)

(* The tables as sets of entries with their stamps. *)
LEMMA StampedIs ==
  ASSUME BookInv, NEW t \in {"bans", "reports"}
  PROVE  Ranked(Stamped(t)) /\ Keyed(Stamped(t)) /\ \A f \in Stamped(t) : f[1] \in Ids \cup Nat
<1>1. CASE t = "bans"
  <2> DEFINE S == {<<i, rows[i].at>> : i \in Rows}
             k == [i \in Rows |-> <<i, rows[i].at>>]
  <2>1. k \in Surjection(Rows, S) BY DEF Surjection
  <2>2. IsFiniteSet(Rows) BY FS_Subset, BookAssumption DEF Rows
  <2>3. IsFiniteSet(S)
    <3> HIDE DEF S, k
    <3> QED BY <2>1, <2>2, FS_Surjection
  <2>4. \A i \in Rows : i \in Ids /\ rows[i] \in Row BY DEF Rows, BookInv, TypeOK
  <2>5. \A i \in Rows : rows[i].at \in Nat BY <2>4, BookAssumption DEF Row
  <2>6. Stamped(t) = S BY <1>1 DEF Stamped
  <2>7. Ranked(S) BY <2>3, <2>5 DEF Ranked
  <2>8. Keyed(S) /\ \A f \in S : f[1] \in Ids BY <2>4 DEF Keyed
  <2> QED BY <2>6, <2>7, <2>8
<1>2. CASE t = "reports"
  <2> DEFINE D == DOMAIN reports
             S == {<<j, reports[j].at>> : j \in D}
             k == [j \in D |-> <<j, reports[j].at>>]
  <2>0. reports \in Seq([bag : Ids, at : 0..MaxTime]) BY DEF BookInv, TypeOK
  <2>1. k \in Surjection(D, S) BY DEF Surjection
  <2>2. D = 1..Len(reports) /\ Len(reports) \in Nat BY <2>0
  <2>3. IsFiniteSet(D) BY <2>2, FS_Interval
  <2>4. IsFiniteSet(S)
    <3> HIDE DEF S, k, D
    <3> QED BY <2>1, <2>3, FS_Surjection
  <2>5. \A j \in D : reports[j].at \in Nat /\ j \in Nat
    <3>1. \A j \in D : reports[j] \in [bag : Ids, at : 0..MaxTime] BY <2>0, ElementOf
    <3> QED BY <2>2, <3>1, BookAssumption
  <2>6. Stamped(t) = S BY <1>2 DEF Stamped
  <2>7. Ranked(S) BY <2>4, <2>5 DEF Ranked
  <2>8. Keyed(S) /\ \A f \in S : f[1] \in Nat BY <2>5 DEF Keyed
  <2> QED BY <2>6, <2>7, <2>8
<1> QED BY <1>1, <1>2

LEMMA StampedRanked == BookInv => \A t \in {"bans", "reports"} : Ranked(Stamped(t)) /\ Keyed(Stamped(t))
  BY StampedIs

LEMMA StampedNext == BookInv' => (\A t \in {"bans", "reports"} : Ranked(Stamped(t)) /\ Keyed(Stamped(t)))'
  BY StampedRanked, PTL

LEMMA WalkInit == ASSUME Init PROVE WalkInv
  BY DEF Init, WalkInv, NoWalk

LEMMA WalkSame ==
  ASSUME WalkInv, UNCHANGED <<walk, tables>>
  PROVE  WalkInv'
<1>1. \A t : Stamped(t)' = Stamped(t) BY DEF tables, Stamped, Rows
<1> QED BY <1>1 DEF WalkInv, Left

LEMMA WalkOn ==
  ASSUME NEW S, Stamped(walk.table)' = S, walk' \in Walking,
         walk'.present \subseteq {f[1] : f \in S},
         \E M : Owed(S, Left(S, walk'), M, walk'.offset, walk'.lost)
  PROVE  WalkInv'
<1> DEFINE T == Stamped(walk.table)
<1>1. T' = S OBVIOUS
<1> HIDE DEF T
<1>2. /\ walk' \in Walking
      /\ walk'.present \subseteq {f[1] : f \in T'}
      /\ \E M : Owed(T', Left(T', walk'), M, walk'.offset, walk'.lost)
  BY <1>1
<1> QED BY <1>2 DEF WalkInv, T

LEMMA BeginWalkKeeps ==
  ASSUME BookInv, NEW h, NEW t \in {"bans", "reports"}, BeginWalk(h, t)
  PROVE  WalkInv'
<1> DEFINE S == Stamped(t)
           ids == {e[1] : e \in S}
<1>1. Ranked(S) /\ \A f \in S : f[1] \in Ids \cup Nat BY StampedIs
<1>2. walk' = [table |-> t, offset |-> 0, seen |-> {}, lost |-> 0, present |-> ids]
  BY DEF BeginWalk
<1>3. S' = S BY DEF BeginWalk, tables, Stamped, Rows
<1>4. ids \in SUBSET (Ids \cup Nat) BY <1>1
<1>5. walk'.table = t /\ walk'.present = ids /\ walk'.seen = {} /\ walk'.offset = 0 /\ walk'.lost = 0
  BY <1>2
<1>6. Left(S, walk') = S BY <1>5 DEF Left
<1>7. \A f \in S : Newer(S, f) \in Nat BY <1>1, NewerIs
<1>8. Owed(S, S, {}, 0, 0)
  <2> HIDE DEF S
  <2>1. Cardinality({}) = 0 /\ S \ {} = S BY FS_EmptySet
  <2> QED BY <1>7, <2>1 DEF Owed
<1>9. walk' \in Walking
  <2> HIDE DEF ids, S
  <2>1. {} \in SUBSET (Ids \cup Nat) /\ 0 \in Nat OBVIOUS
  <2> QED BY <1>2, <1>4, <2>1 DEF Walking
<1>10. Stamped(walk.table)' = S
  <2>1. \A x : Stamped(x)' = Stamped(x) BY DEF BeginWalk, tables, Stamped, Rows
  <2> QED BY <1>5, <2>1
<1>11. walk'.present \subseteq {f[1] : f \in S} BY <1>5
<1> HIDE DEF S
<1>12. \E M : Owed(S, Left(S, walk'), M, walk'.offset, walk'.lost)
  BY <1>5, <1>6, <1>8
<1> QED BY <1>9, <1>10, <1>11, <1>12, WalkOn

LEMMA WalkNext ==
  \A w \in Walking, p \in SUBSET (Ids \cup Nat), n \in Nat :
    LET x == [w EXCEPT !.offset = @ + n, !.seen = @ \cup p] IN
    /\ x \in Walking /\ x.table = w.table /\ x.offset = w.offset + n
    /\ x.seen = w.seen \cup p /\ x.present = w.present /\ x.lost = w.lost
<1> DEFINE X == SUBSET (Ids \cup Nat)
<1> TAKE w \in Walking, p \in X, n \in Nat
<1>1. w \in [table : {"bans", "reports"}, offset : Nat, seen : X, lost : Nat, present : X]
  BY DEF Walking
<1>2. w.seen \cup p \in X BY <1>1
<1>3. w.offset + n \in Nat BY <1>1
<1> DEFINE q == w.seen \cup p
           o == w.offset + n
           x == [w EXCEPT !.offset = o, !.seen = q]
<1> HIDE DEF X, q, o
<1>4. /\ x \in [table : {"bans", "reports"}, offset : Nat, seen : X, lost : Nat, present : X]
      /\ x.table = w.table /\ x.offset = o /\ x.seen = q /\ x.present = w.present
      /\ x.lost = w.lost
  BY <1>1, <1>2, <1>3 DEF q, o
<1> QED BY <1>4 DEF Walking, X, q, o

LEMMA PageKeeps ==
  ASSUME BookInv, WalkInv, NEW h, Page(h)
  PROVE  WalkInv'
<1> DEFINE S == Stamped(walk.table)
           o == walk.offset
           T == {f \in S : Newer(S, f) \in o..(o + Limit - 1)}
           page == {e[1] : e \in T}
           next == [walk EXCEPT !.offset = @ + Limit, !.seen = @ \cup page]
           L == Left(S, walk)
           L2 == {f \in L : Newer(S, f) \notin o..(o + Limit - 1)}
<1>1. walk \in Walking /\ walk.present \subseteq {f[1] : f \in S}
      /\ \E M : Owed(S, L, M, o, walk.lost)
  BY DEF WalkInv, Page
<1>2. walk.table \in {"bans", "reports"} /\ o \in Nat /\ walk.lost \in Nat /\ Limit \in Nat
  BY <1>1, BookAssumption DEF Walking
<1>3. Ranked(S) /\ Keyed(S) /\ \A f \in S : f[1] \in Ids \cup Nat BY <1>2, StampedIs
<1>4. walk' = IF Tied(S) THEN NoWalk
              ELSE IF Cardinality(page) = Limit THEN next ELSE Over(next)
  BY DEF Page
<1>5. Stamped(walk.table)' = Stamped(walk'.table)
  BY DEF Page, tables, Stamped, Rows
<1>6. /\ next \in Walking /\ next.table = walk.table /\ next.offset = o + Limit
      /\ next.seen = walk.seen \cup page /\ next.present = walk.present /\ next.lost = walk.lost
  <2>1. page \in SUBSET (Ids \cup Nat) BY <1>3
  <2>2. walk \in Walking /\ Limit \in Nat BY <1>1, <1>2
  <2> HIDE DEF page, S
  <2> QED BY <2>1, <2>2, WalkNext
<1>7. L \in SUBSET S BY DEF Left
<1>8. CASE Tied(S) BY <1>4, <1>8 DEF WalkInv, NoWalk
<1>9. CASE ~Tied(S)
  <2>1. PICK M : Owed(S, L, M, o, walk.lost) BY <1>1
  <2>2. /\ \E M2 : Owed(S, L2, M2, o + Limit, walk.lost)
        /\ (\A f \in S : Newer(S, f) < o + Limit) => Cardinality(L2) <= walk.lost
    <3> DEFINE n == Limit
    <3>1. n \in Nat BY <1>2
    <3> HIDE DEF S, L
    <3> QED BY <1>2, <1>3, <1>7, <1>9, <2>1, <3>1, PageOwes
  <2>3. Left(S, next) = L2
    <3>1. \A f \in S : f[1] \in page <=> f \in T BY <1>3 DEF Keyed
    <3> HIDE DEF page, next, S
    <3> QED BY <1>6, <3>1 DEF Left
  <2>4. CASE Cardinality(page) = Limit
    <3>1. walk' = next BY <1>4, <1>9, <2>4
    <3> HIDE DEF next, S, L2
    <3>2. Stamped(walk.table)' = S BY <1>5, <1>6, <3>1 DEF S
    <3>3. walk'.present \subseteq {f[1] : f \in S} BY <1>1, <1>6, <3>1
    <3>4. \E M2 : Owed(S, Left(S, walk'), M2, walk'.offset, walk'.lost)
      BY <1>6, <2>2, <2>3, <3>1
    <3> QED BY <1>6, <3>1, <3>2, <3>3, <3>4, WalkOn
  <2>5. CASE Cardinality(page) # Limit
    <3>1. T \in SUBSET S /\ IsFiniteSet(T)
      <4>1. T \in SUBSET S OBVIOUS
      <4> HIDE DEF T, S
      <4> QED BY <1>3, <4>1, FS_Subset DEF Ranked
    <3>2. Cardinality(page) = Cardinality(T)
      <4> HIDE DEF T, S
      <4> QED BY <1>3, <3>1, IdsCount
    <3>3. ASSUME NEW f \in S, Newer(S, f) >= o + Limit PROVE FALSE
      <4> DEFINE n == Limit
      <4>0. n \in Nat /\ Newer(S, f) >= o + n BY <1>2, <3>3
      <4> HIDE DEF S, o, n
      <4>2. Cardinality({e \in S : Newer(S, e) \in o..(o + n - 1)}) = n
        BY <1>2, <1>3, <1>9, <4>0, FullPage
      <4>1. Cardinality(T) = Limit BY <4>2 DEF n
      <4> QED BY <2>5, <3>2, <4>1
    <3>4. \A f \in S : Newer(S, f) \in Nat
      <4> HIDE DEF S
      <4> QED BY <1>3, NewerIs
    <3>5. Cardinality(L2) <= walk.lost
      <4> HIDE DEF S, L2
      <4> QED BY <1>2, <2>2, <3>3, <3>4
    <3>6. next.present \ next.seen = {f[1] : f \in L2}
      <4>1. \A x \in walk.present : \E f \in S : f[1] = x BY <1>1
      <4> HIDE DEF S, next, L2
      <4> QED BY <1>6, <2>3, <4>1 DEF Left
    <3>7. L2 \in SUBSET S /\ IsFiniteSet(L2)
      <4>1. L2 \in SUBSET S BY <1>7
      <4> HIDE DEF L2, S
      <4> QED BY <1>3, <4>1, FS_Subset DEF Ranked
    <3>8. Cardinality(next.present \ next.seen) = Cardinality(L2)
      <4> HIDE DEF L2, S, next
      <4> QED BY <1>3, <3>6, <3>7, IdsCount
    <3>9. walk' = Over(next) BY <1>4, <1>9, <2>5
    <3> HIDE DEF next, L2
    <3>10. walk'.table = "none" /\ walk'.missed = Cardinality(L2) /\ walk'.lost = walk.lost
      BY <1>6, <3>8, <3>9 DEF Over, NoWalk
    <3> QED BY <3>5, <3>10 DEF WalkInv
  <2> QED BY <2>4, <2>5
<1> QED BY <1>8, <1>9

-----------------------------------------------------------------------------
(* Rows that are changed keep the stamp they have; those that go move the  *)
(* others forward by as many ranks at most.  One that is put in anew goes  *)
(* to a later stamp: it moves no other forward, and may be lost itself.    *)
LEMMA CommitMoves ==
  ASSUME BookInv, BookInv', WalkInv, walk.table = "bans",
         NEW c \in Calls, calls[c] \in BansCall, NEW gone \in SUBSET Rows,
         NEW put \in SUBSET Named(calls[c].body, TRUE),
         NEW anew \in SUBSET (put \cap calls[c].visible), gone \cap put = {},
         Changes(calls[c], gone, put, anew)
  PROVE  WalkInv'
<1> DEFINE S == Stamped("bans")
           S2 == S'
           g == Cardinality(gone)
           n == Cardinality(anew)
<1>1. S = {<<i, rows[i].at>> : i \in Rows} /\ S2 = {<<i, rows'[i].at>> : i \in Rows'}
  BY DEF Stamped
<1>2. Ranked(S) /\ Keyed(S) BY StampedIs
<1>3. Ranked(S2) /\ Keyed(S2) BY StampedNext
<1>4. /\ anew \subseteq Rows
      /\ \A i \in anew : rows[i].at <= calls[c].at
  BY DEF BansCall, BookInv, CallInv
<1>5. /\ walk' = [walk EXCEPT !.present = @ \ gone, !.lost = @ + g + n]
      /\ walk \in Walking /\ walk.present \subseteq {f[1] : f \in S}
      /\ \E M : Owed(S, Left(S, walk), M, walk.offset, walk.lost)
  BY DEF WalkLoses, WalkInv, Changes
<1>6. IsFiniteSet(gone) /\ g \in Nat /\ IsFiniteSet(anew) /\ n \in Nat
  <2>1. gone \in SUBSET Ids /\ anew \in SUBSET Ids BY <1>4 DEF Rows
  <2> QED BY <2>1, BookAssumption, FS_Subset, FS_CardinalityType
<1>7. /\ walk' \in Walking /\ walk'.offset = walk.offset /\ walk'.seen = walk.seen
      /\ walk'.present = walk.present \ gone /\ walk'.lost = walk.lost + g + n
      /\ walk'.table = "bans"
  <2> HIDE DEF S, g, n
  <2>1. walk = [table |-> walk.table, offset |-> walk.offset, seen |-> walk.seen,
                lost |-> walk.lost, present |-> walk.present]
        /\ walk.lost \in Nat /\ walk.present \in SUBSET (Ids \cup Nat)
    BY <1>5 DEF Walking
  <2>2. walk' = [table |-> walk.table, offset |-> walk.offset, seen |-> walk.seen,
                 lost |-> walk.lost + g + n, present |-> walk.present \ gone]
    BY <1>5, <2>1
  <2>3. walk.lost + g + n \in Nat /\ walk.present \ gone \in SUBSET (Ids \cup Nat)
    BY <1>6, <2>1
  <2>4. walk' \in Walking BY <1>5, <2>2, <2>3 DEF Walking
  <2> QED BY <2>2, <2>4
<1>8. \A i \in put : /\ i \in Ids /\ RowFor(i, calls[c], anew) \in Row
                     /\ IF i \in anew \/ rows[i] = NoRow
                        THEN RowFor(i, calls[c], anew).at = calls[c].at
                        ELSE RowFor(i, calls[c], anew).at = rows[i].at
  BY Upserted
(* Who stays keeps the stamp, or gets one that is no older. *)
<1>9. \A i \in Rows \ gone : /\ i \in Rows'
                             /\ IF i \in anew THEN rows'[i].at = calls[c].at
                                ELSE rows'[i].at = rows[i].at
  <2> SUFFICES ASSUME NEW i \in Rows \ gone
               PROVE  /\ i \in Rows'
                      /\ IF i \in anew THEN rows'[i].at = calls[c].at
                         ELSE rows'[i].at = rows[i].at
    OBVIOUS
  <2>1. i \in Ids /\ rows[i] # NoRow BY DEF Rows
  <2>2. CASE i \in put
    <3>1. rows'[i] = RowFor(i, calls[c], anew) BY <2>1, <2>2 DEF Changes
    <3>2. /\ RowFor(i, calls[c], anew) \in Row
          /\ IF i \in anew \/ rows[i] = NoRow THEN RowFor(i, calls[c], anew).at = calls[c].at
             ELSE RowFor(i, calls[c], anew).at = rows[i].at
      BY <2>2, <1>8
    <3>3. rows'[i] # NoRow BY <3>1, <3>2, NoRowApart
    <3> QED BY <2>1, <3>1, <3>2, <3>3 DEF Rows
  <2>3. CASE i \notin put
    <3>1. rows'[i] = rows[i] /\ i \notin anew BY <2>1, <2>3 DEF Changes
    <3> QED BY <2>1, <3>1 DEF Rows
  <2> QED BY <2>2, <2>3
<1>10. ASSUME NEW f \in S, f[1] \notin gone
      PROVE  /\ f[1] \in anew => <<f[1], calls[c].at>> \in S2 /\ f[2] <= calls[c].at
             /\ f[1] \notin anew => f \in S2
  <2>1. PICK i \in Rows : f = <<i, rows[i].at>> BY <1>1
  <2>2. i \in Rows' /\ IF i \in anew THEN rows'[i].at = calls[c].at ELSE rows'[i].at = rows[i].at
    BY <1>9, <1>10, <2>1
  <2>3. <<i, rows'[i].at>> \in S2 BY <1>1, <2>2
  <2> QED BY <1>4, <2>1, <2>2, <2>3
<1>11. ASSUME NEW f \in S, f \in S2 PROVE Newer(S, f) <= Newer(S2, f) + g
  <2> DEFINE A == {h \in S : h[2] > f[2]}
             B == {h \in S2 : h[2] > f[2]}
             IA == {h[1] : h \in A}
             IB == {h[1] : h \in B}
  <2>0. \A h \in S : h[2] \in Nat BY <1>2 DEF Ranked
  <2>1. IA \subseteq IB \cup gone
    <3> SUFFICES ASSUME NEW h \in A, h[1] \notin gone PROVE \E x \in B : x[1] = h[1]
      OBVIOUS
    <3>1. CASE h[1] \in anew
      <4> DEFINE x == <<h[1], calls[c].at>>
      <4>1. x \in S2 /\ h[2] <= x[2] BY <1>10, <3>1
      <4>2. x[2] \in Nat /\ h[2] \in Nat /\ f[2] \in Nat BY <1>3, <2>0, <4>1 DEF Ranked
      <4>3. x[2] > f[2] BY <4>1, <4>2
      <4> QED BY <4>1, <4>3
    <3>2. CASE h[1] \notin anew BY <1>10, <3>2
    <3> QED BY <3>1, <3>2
  <2>2. A \in SUBSET S /\ B \in SUBSET S2 OBVIOUS
  <2>3. Newer(S, f) = Cardinality(A) /\ Newer(S2, f) = Cardinality(B) BY DEF Newer
  <2> DEFINE T2 == S2
  <2>4. B \in SUBSET T2 /\ Ranked(T2) /\ Keyed(T2) BY <1>3, <2>2
  <2> HIDE DEF A, B, S, T2
  <2>5. IsFiniteSet(A) /\ IsFiniteSet(B) BY <1>2, <2>2, <2>4, FS_Subset DEF Ranked
  <2>6. Cardinality(IA) = Cardinality(A) BY <1>2, <2>2, <2>5, IdsCount
  <2>7. Cardinality(IB) = Cardinality(B) BY <2>4, <2>5, IdsCount
  <2>8. IsFiniteSet(IB) /\ Cardinality(IB) \in Nat
    <3> DEFINE k == [h \in B |-> h[1]]
    <3>1. k \in Surjection(B, IB) BY DEF Surjection
    <3> HIDE DEF k, IB
    <3>2. IsFiniteSet(IB) BY <2>5, <3>1, FS_Surjection
    <3> QED BY <3>2, FS_CardinalityType
  <2> HIDE DEF IA, IB
  <2>9. /\ IsFiniteSet(IB \cup gone) /\ Cardinality(IB \cap gone) \in Nat
        /\ Cardinality(IB \cup gone) = Cardinality(IB) + Cardinality(gone) - Cardinality(IB \cap gone)
    BY <1>6, <2>8, FS_Union, FS_Subset, FS_CardinalityType
  <2>10. Cardinality(IA) \in Nat /\ Cardinality(IA) <= Cardinality(IB \cup gone)
    BY <2>1, <2>9, FS_Subset, FS_CardinalityType
  <2> HIDE DEF g
  <2>11. Cardinality(gone) = g BY DEF g
  <2> QED BY <1>6, <2>3, <2>6, <2>7, <2>8, <2>9, <2>10, <2>11
<1> DEFINE L == Left(S, walk)
           L2 == Left(S2, walk')
           K == {f \in L2 : f[1] \in anew}
<1>12. L \in SUBSET S /\ L2 \in SUBSET S2 /\ K \in SUBSET L2 BY DEF Left
<1>13. L2 \ K \subseteq L
  <2> SUFFICES ASSUME NEW f \in L2, f[1] \notin anew PROVE f \in L OBVIOUS
  <2>1. f \in S2 /\ f[1] \in walk.present \ walk.seen /\ f[1] \notin gone BY <1>7 DEF Left
  <2>2. PICK e \in S : e[1] = f[1] BY <1>5, <2>1
  <2>3. e \in S2 BY <1>10, <2>1, <2>2
  <2>4. e = f
    <3>1. \A x, y \in S2 : x[1] = y[1] => x = y BY <1>3 DEF Keyed
    <3> QED BY <2>1, <2>2, <2>3, <3>1
  <2> QED BY <2>1, <2>2, <2>4 DEF Left
<1>14. Cardinality(K) <= n
  <2> DEFINE T2 == S2
             I == {e[1] : e \in K}
  <2>1. K \in SUBSET T2 /\ Ranked(T2) /\ Keyed(T2) BY <1>3, <1>12
  <2>2. I \in SUBSET anew OBVIOUS
  <2> HIDE DEF K, T2
  <2>3. IsFiniteSet(K) BY <2>1, FS_Subset DEF Ranked
  <2>4. Cardinality(I) = Cardinality(K) BY <2>1, <2>3, IdsCount
  <2> HIDE DEF I
  <2> QED BY <1>6, <2>2, <2>4, FS_Subset
<1>15. \E M : Owed(S2, L2, M, walk'.offset, walk'.lost)
  <2>1. PICK M : Owed(S, L, M, walk.offset, walk.lost) BY <1>5
  <2>2. walk.offset \in Nat /\ walk.lost \in Nat BY <1>5 DEF Walking
  <2>3. \A f \in L2 \ K : Newer(S, f) <= Newer(S2, f) + g BY <1>11, <1>12, <1>13
  <2> DEFINE T2 == S2
             o == walk.offset
             lost == walk.lost
  <2>4. /\ Ranked(T2) /\ L2 \in SUBSET T2 /\ \A f \in L2 \ K : Newer(S, f) <= Newer(T2, f) + g
        /\ Owed(S, L, M, o, lost) /\ o \in Nat /\ lost \in Nat
    BY <1>3, <1>12, <2>1, <2>2, <2>3
  <2>5. walk'.offset = o /\ walk'.lost = lost + g + n BY <1>7
  <2>6. /\ Ranked(S) /\ L \in SUBSET S /\ K \in SUBSET L2 /\ L2 \ K \subseteq L
        /\ g \in Nat /\ n \in Nat /\ Cardinality(K) <= n
    BY <1>2, <1>6, <1>12, <1>13, <1>14
  <2> HIDE DEF T2, o, lost, g, n, L, L2, K, S
  <2>7. \E M2 : Owed(T2, L2, M2, o, lost + g + n) BY <2>4, <2>6, ChangeOwes
  <2> QED BY <2>5, <2>7 DEF T2
<1>16. walk'.present \subseteq {f[1] : f \in S2}
  <2> SUFFICES ASSUME NEW x \in walk'.present PROVE \E f \in S2 : f[1] = x OBVIOUS
  <2>1. x \in walk.present /\ x \notin gone BY <1>7
  <2>2. PICK f \in S : f[1] = x BY <1>5, <2>1
  <2> QED BY <1>10, <2>1, <2>2
<1>17. Stamped(walk.table)' = S2 BY <1>7
<1> HIDE DEF S, L2
<1> QED BY <1>7, <1>15, <1>16, <1>17, WalkOn DEF L2

LEMMA CommitWalks ==
  ASSUME BookInv, BookInv', WalkInv, NEW c \in Calls, Commit(c)
  PROVE  WalkInv'
<1>1. calls[c] \in BansCall
  <2>1. calls[c] \in Call /\ calls[c].table = "bans" BY DEF Commit, BookInv, TypeOK
  <2> QED BY <2>1, CallIs
<1>2. PICK gone \in SUBSET Rows, put \in SUBSET Named(calls[c].body, TRUE) :
        \E anew \in SUBSET (put \cap calls[c].visible) :
          gone \cap put = {} /\ Changes(calls[c], gone, put, anew)
  BY CommitEffect
<1>3. CASE walk.table = "bans" BY <1>1, <1>2, <1>3, CommitMoves
<1>4. CASE walk.table # "bans"
  <2>1. walk' = walk /\ UNCHANGED reports BY <1>2, <1>4 DEF WalkLoses, Changes
  <2>2. CASE walk.table = "none" BY <2>1, <2>2 DEF WalkInv, Walking
  <2>3. CASE walk.table # "none"
    <3>1. Stamped(walk.table)' = Stamped(walk.table)
      <4>1. walk.table = "reports" BY <1>4, <2>3 DEF WalkInv, Walking
      <4> QED BY <2>1, <4>1 DEF Stamped
    <3>2. walk \in Walking /\ walk.present \subseteq {f[1] : f \in Stamped(walk.table)}
          /\ \E M : Owed(Stamped(walk.table), Left(Stamped(walk.table), walk), M,
                         walk.offset, walk.lost)
      BY <2>3 DEF WalkInv
    <3> DEFINE S == Stamped(walk.table)
    <3> HIDE DEF S
    <3>3. walk' \in Walking /\ walk'.present \subseteq {f[1] : f \in S}
          /\ \E M : Owed(S, Left(S, walk'), M, walk'.offset, walk'.lost)
      BY <2>1, <3>2 DEF S
    <3>4. Stamped(walk.table)' = S BY <3>1 DEF S
    <3> QED BY <3>3, <3>4, WalkOn
  <2> QED BY <2>2, <2>3
<1> QED BY <1>3, <1>4

(* A report that comes in has no place before those that are there but by  *)
(* its stamp: it moves none of them forward.                               *)
LEMMA ReportWalks ==
  ASSUME BookInv, BookInv', WalkInv, NEW c \in Calls, CommitReport(c)
  PROVE  WalkInv'
<1>1. walk' = walk /\ rows' = rows BY DEF CommitReport
<1>2. CASE walk.table = "none" BY <1>1, <1>2 DEF WalkInv, Walking
<1>3. CASE walk.table = "bans"
  <2>1. UNCHANGED Stamped("bans") BY <1>1 DEF Stamped, Rows
  <2> QED BY <1>1, <1>3, <2>1 DEF WalkInv, Left, Walking
<1>4. CASE walk.table \notin {"none", "bans"}
  <2>0. walk \in Walking /\ walk.table = "reports" BY <1>4 DEF WalkInv, Walking
  <2> DEFINE S == Stamped("reports")
             S2 == S'
             L == Left(S, walk)
             L2 == Left(S2, walk)
             new == [bag |-> calls[c].bag, at |-> calls[c].at]
  <2>1. /\ walk.present \subseteq {f[1] : f \in S}
        /\ \E M : Owed(S, L, M, walk.offset, walk.lost)
    BY <2>0 DEF WalkInv
  <2>2. Ranked(S) /\ Ranked(S2) /\ Keyed(S2) BY StampedIs, StampedNext
  <2>3. S \subseteq S2
    <3>1. reports \in Seq([bag : Ids, at : 0..MaxTime]) BY DEF BookInv, TypeOK
    <3>2. reports' = Append(reports, new) BY DEF CommitReport
    <3> HIDE DEF new
    <3>3. \A j \in DOMAIN reports : j \in DOMAIN reports' /\ reports'[j] = reports[j]
      BY <3>1, <3>2
    <3> QED BY <3>3 DEF Stamped
  <2>4. L \in SUBSET S /\ L2 \subseteq S2 BY DEF Left
  <2>5. L2 \in SUBSET L
    <3> SUFFICES ASSUME NEW f \in L2 PROVE f \in L OBVIOUS
    <3>1. f \in S2 /\ f[1] \in walk.present \ walk.seen BY DEF Left
    <3>2. PICK e \in S : e[1] = f[1] BY <2>1, <3>1
    <3>3. e = f BY <2>2, <2>3, <3>1, <3>2 DEF Keyed
    <3> QED BY <3>1, <3>2, <3>3 DEF Left
  <2>6. \A f \in L2 : Newer(S, f) <= Newer(S2, f) + 0
    <3> SUFFICES ASSUME NEW f \in L2 PROVE Newer(S, f) <= Newer(S2, f) + 0 OBVIOUS
    <3> HIDE DEF S, L2
    <3>1. S \in SUBSET S2 BY <2>3
    <3> DEFINE T2 == S2
    <3>2. Ranked(T2) /\ S \in SUBSET T2 BY <2>2, <3>1
    <3> HIDE DEF T2
    <3>3. Newer(S, f) \in Nat /\ Newer(T2, f) \in Nat /\ Newer(S, f) <= Newer(T2, f)
      BY <3>2, NewerIs
    <3> QED BY <3>3 DEF T2
  <2>7. walk.offset \in Nat /\ walk.lost \in Nat BY <2>0 DEF Walking
  <2>8. \E M : Owed(S2, L2, M, walk.offset, walk.lost)
    <3> DEFINE T2 == S2
               o == walk.offset
               lost == walk.lost
               g == 0
               K == {}
    <3>1. PICK M : Owed(S, L, M, walk.offset, walk.lost) BY <2>1
    <3>2. /\ Ranked(S) /\ Ranked(T2) /\ L \in SUBSET S /\ L2 \in SUBSET T2
          /\ K \in SUBSET L2 /\ L2 \ K \subseteq L /\ Cardinality(K) <= g
          /\ o \in Nat /\ lost \in Nat /\ g \in Nat /\ Owed(S, L, M, o, lost)
          /\ \A f \in L2 \ K : Newer(S, f) <= Newer(T2, f) + g
      BY <2>2, <2>4, <2>5, <2>6, <2>7, <3>1, FS_EmptySet
    <3>3. lost + g + g = lost BY <2>7
    <3> HIDE DEF S, L, L2, T2, o, lost, g, K
    <3>4. \E M2 : Owed(T2, L2, M2, o, lost + g + g) BY <3>2, ChangeOwes
    <3> QED BY <3>3, <3>4 DEF T2, o, lost
  <2>9. walk'.present \subseteq {f[1] : f \in S2} BY <1>1, <2>1, <2>3
  <2>10. Stamped(walk.table)' = S2 BY <1>1, <2>0
  <2>11. \E M : Owed(S2, Left(S2, walk'), M, walk'.offset, walk'.lost) BY <1>1, <2>8
  <2> HIDE DEF S
  <2> QED BY <1>1, <2>0, <2>9, <2>10, <2>11, WalkOn
<1> QED BY <1>2, <1>3, <1>4

LEMMA WalkStep == ASSUME BookInv, BookInv', WalkInv, [Next]_vars PROVE WalkInv'
<1>1. CASE UNCHANGED vars BY <1>1, WalkSame DEF vars
<1>2. ASSUME NEW c \in Calls, NEW h \in Headers, NEW s \in Bodies, PutBans(c, h, s) PROVE WalkInv'
  BY <1>2, WalkSame DEF PutBans
<1>3. ASSUME NEW c \in Calls, NEW h \in Headers, NEW i \in Ids, PostReport(c, h, i) PROVE WalkInv'
  BY <1>3, WalkSame DEF PostReport
<1>4. ASSUME NEW c \in Calls, StatementFails(c) PROVE WalkInv'
  BY <1>4, WalkSame DEF StatementFails
<1>5. CASE Tick BY <1>5, WalkSame DEF Tick
<1>6. CASE Restart BY <1>6 DEF Restart, WalkInv, NoWalk
<1> QED BY <1>1, <1>2, <1>3, <1>4, <1>5, <1>6, CommitWalks, ReportWalks, BeginWalkKeeps,
       PageKeeps DEF Next

(* Paging through bans or reports misses no more than was taken out        *)
(* meanwhile (GetAllBans, GetReports).                                     *)
THEOREM PagesMissNoMoreEver == Spec => []PagesMissNoMore
<1>1. Spec => []BookInv BY BookSound
<1>2. Init => WalkInv BY WalkInit
<1>3. BookInv /\ BookInv' /\ WalkInv /\ [Next]_vars => WalkInv' BY WalkStep
<1>4. WalkInv => PagesMissNoMore BY DEF WalkInv, PagesMissNoMore, Walking
<1> QED BY <1>1, <1>2, <1>3, <1>4, PTL DEF Spec

-----------------------------------------------------------------------------
(* The map after each entry of the list: what the last entry for a token   *)
(* so far grants, or nothing.                                              *)
Maps == [Hashes -> SUBSET (Permissions \cup Unknown)]
LastFor(l, i, n, hash) ==
  i \in 1..n /\ l[i].hash = hash /\ \A j \in i + 1..n : l[j].hash # hash
Tells(l, n, tokens) ==
  /\ tokens \in Maps
  /\ \A hash \in Hashes \ {NoHash} :
       \/ tokens[hash] = Unknown
       \/ \E i \in 1..n : LastFor(l, i, n, hash) /\ tokens[hash] = PermissionsOf(l[i])

LEMMA EntriesAre ==
  ASSUME NEW l \in TokenLists, NEW n \in 1..Len(l)
  PROVE  /\ l[n].hash \in Hashes /\ PermissionsOf(l[n]) \subseteq Permissions
         /\ l[n].words \subseteq Words /\ l[n].listed \in BOOLEAN
<1>1. l[n] \in [hash : Hashes, listed : BOOLEAN, words : SUBSET Words]
  <2> DEFINE E == [hash : Hashes, listed : BOOLEAN, words : SUBSET Words]
  <2>1. l \in Seq(E) BY TokenAssumption
  <2>2. n \in DOMAIN l BY <2>1
  <2> HIDE DEF E
  <2> QED BY <2>1, <2>2, ElementOf DEF E
<1>2. \A w \in Words : Granted[w] \subseteq Permissions
  BY DEF Words, Permissions, Granted
<1> QED BY <1>1, <1>2 DEF PermissionsOf

LEMMA EnteredTells ==
  ASSUME NEW l \in TokenLists, NEW n \in Nat, n + 1 \in 1..Len(l), NEW tokens,
         Tells(l, n, tokens)
  PROVE  Tells(l, n + 1, Entered(tokens, l[n + 1]))
<1> DEFINE e == l[n + 1]
           after == Entered(tokens, e)
<1>1. e.hash \in Hashes /\ PermissionsOf(e) \subseteq Permissions
  BY EntriesAre
<1>2. tokens \in Maps BY DEF Tells
<1>3. after \in Maps BY <1>1, <1>2 DEF Entered, Maps
<1>4. ASSUME NEW hash \in Hashes \ {NoHash}
      PROVE  \/ after[hash] = Unknown
             \/ \E i \in 1..n+1 : LastFor(l, i, n + 1, hash) /\ after[hash] = PermissionsOf(l[i])
  <2>1. CASE hash = e.hash
    <3>1. after[hash] = PermissionsOf(e) BY <1>1, <1>2, <2>1 DEF Entered, Maps
    <3>2. LastFor(l, n + 1, n + 1, hash) BY <2>1 DEF LastFor
    <3>3. n + 1 \in 1..n+1 OBVIOUS
    <3> QED BY <3>1, <3>2, <3>3
  <2>2. CASE hash # e.hash
    <3>1. after[hash] = tokens[hash] BY <1>1, <1>2, <2>2 DEF Entered, Maps
    <3>2. \A i \in 1..n : LastFor(l, i, n, hash) => LastFor(l, i, n + 1, hash) /\ i \in 1..n+1
      BY <2>2 DEF LastFor
    <3> HIDE DEF after
    <3> QED BY <3>1, <3>2 DEF Tells
  <2> QED BY <2>1, <2>2
<1> QED BY <1>3, <1>4 DEF Tells

(* AccessTokensMap is what the loop ends with. *)
LEMMA MapTells == ASSUME NEW l \in TokenLists PROVE Tells(l, Len(l), AccessTokensMap(l))
<1> DEFINE N == Len(l)
           Body(f) == [n \in 0..N |-> IF n = 0 THEN NoTokens ELSE Entered(f[n - 1], l[n])]
           after == CHOOSE f : f = Body(f)
           step == [n \in 1..N |-> [x \in Maps |-> Entered(x, l[n])]]
<1>1. N \in Nat /\ \A n \in 1..N : l[n].hash \in Hashes /\ PermissionsOf(l[n]) \subseteq Permissions
  BY EntriesAre, TokenAssumption
<1>2. NoTokens \in Maps BY DEF NoTokens, Maps
<1>3. \A n \in 1..N, x \in Maps : step[n][x] = Entered(x, l[n]) /\ step[n][x] \in Maps
  <2> TAKE n \in 1..N, x \in Maps
  <2>1. Entered(x, l[n]) \in Maps BY <1>1 DEF Entered, Maps
  <2> QED BY <2>1
<1>4. \E f : f = Body(f)
  <2>1. PICK f \in [0..N -> Maps] :
          f[0] = NoTokens /\ \A n \in 1..N : f[n] = step[n][f[n - 1]]
    <3>1. step \in [1..N -> [Maps -> Maps]] BY <1>3
    <3> HIDE DEF step, N
    <3> QED BY <1>1, <1>2, <3>1, RecursionOnNat
  <2>2. \A n \in 0..N : n # 0 => n \in 1..N /\ n - 1 \in 0..N BY <1>1
  <2>3. \A n \in 0..N : n # 0 => f[n] = Entered(f[n - 1], l[n])
    BY <1>3, <2>1, <2>2
  <2>4. f = Body(f) BY <2>1, <2>3
  <2> QED BY <2>4
<1>5. after = Body(after) BY <1>4
<1>6. AccessTokensMap(l) = after[N] BY DEF AccessTokensMap
<1> HIDE DEF after, N
<1>7. after[0] = NoTokens /\ \A n \in Nat : n + 1 \in 1..N => after[n + 1] = Entered(after[n], l[n + 1])
  BY <1>1, <1>5
<1> DEFINE S == {n \in Nat : n <= N => Tells(l, n, after[n])}
<1>8. 0 \in S
  <2>1. Tells(l, 0, NoTokens) BY <1>2 DEF Tells, NoTokens
  <2> QED BY <1>7, <2>1
<1>9. ASSUME NEW n \in Nat, n \in S PROVE n + 1 \in S
  <2> SUFFICES ASSUME n + 1 <= N PROVE Tells(l, n + 1, after[n + 1]) OBVIOUS
  <2>1. n + 1 \in 1..Len(l) /\ n <= N BY <1>1 DEF N
  <2>2. Tells(l, n, after[n]) BY <1>9, <2>1
  <2>3. Tells(l, n + 1, Entered(after[n], l[n + 1])) BY <2>1, <2>2, EnteredTells
  <2> QED BY <1>7, <2>1, <2>3 DEF N
<1> HIDE DEF S
<1>10. \A n \in Nat : n \in S BY <1>8, <1>9, NatSetInduction
<1>11. Tells(l, N, after[N]) BY <1>1, <1>10 DEF S
<1> QED BY <1>6, <1>11 DEF N

(* The check before a handler allows what the list says, no more. *)
LEMMA AllowedIsGranted ==
  ASSUME NEW l \in TokenLists, NEW h \in Headers, NEW p \in {"bans", "reports"},
         Verdict(AccessTokensMap(l), h, p) = 200
  PROVE  SaysSo(l, h, p)
<1> DEFINE tokens == AccessTokensMap(l)
           hash == MD5[Presented(h)]
<1>1. h # <<>> /\ tokens[hash] # Unknown /\ p \in tokens[hash] BY DEF Verdict
<1>2. hash \in Hashes \ {NoHash} BY <1>1, TokenAssumption
<1>3. Tells(l, Len(l), tokens) BY MapTells
<1> HIDE DEF tokens, hash
<1>4. PICK i \in 1..Len(l) : LastFor(l, i, Len(l), hash) /\ tokens[hash] = PermissionsOf(l[i])
  BY <1>1, <1>2, <1>3 DEF Tells
<1>5. p \in PermissionsOf(l[i]) BY <1>1, <1>4
<1>6. l[i].words \subseteq Words /\ l[i].listed \in BOOLEAN BY EntriesAre
<1>7. \/ ~l[i].listed \/ p \in l[i].words \/ "all" \in l[i].words
      \/ p = "reports" /\ "bans" \in l[i].words
  <2>1. CASE l[i].listed
    <3>1. PICK w \in l[i].words : p \in Granted[w] BY <1>5, <2>1 DEF PermissionsOf
    <3>2. w \in {"bans", "reports", "metrics", "all", "other"}
      BY <1>6, <3>1 DEF Words, Permissions
    <3> QED BY <3>1, <3>2 DEF Granted, Permissions
  <2> QED BY <2>1, <1>6
<1>8. i \in DOMAIN l
  BY TokenAssumption
<1> QED BY <1>1, <1>4, <1>7, <1>8 DEF SaysSo, LastFor, hash

GrantedInv == list \in TokenLists /\ OnlyGranted

LEMMA GrantedInit == ASSUME Init PROVE GrantedInv
  BY DEF Init, GrantedInv, OnlyGranted

LEMMA GrantedStep == ASSUME BookInv, GrantedInv, [Next]_vars PROVE GrantedInv'
<1>0. calls \in [Calls -> Call] BY DEF BookInv, TypeOK
<1>1. ASSUME UNCHANGED list,
             \A c \in Calls : calls'[c] # NoCall =>
               \/ calls[c] # NoCall /\ calls'[c].header = calls[c].header
                    /\ calls'[c].table = calls[c].table
               \/ SaysSo(list, calls'[c].header, calls'[c].table)
      PROVE  GrantedInv'
  BY <1>1 DEF GrantedInv, OnlyGranted
<1>2. CASE UNCHANGED <<list, calls>> BY <1>1, <1>2
<1>3. ASSUME NEW c \in Calls, NEW h \in Headers, NEW s \in Bodies, PutBans(c, h, s)
      PROVE  GrantedInv'
  <2>1. SaysSo(list, h, "bans")
    BY <1>3, AllowedIsGranted DEF PutBans, Allowed, GrantedInv
  <2>2. calls'[c].header = h /\ calls'[c].table = "bans" /\ UNCHANGED list
        /\ \A d \in Calls : d # c => calls'[d] = calls[d]
    BY <1>0, <1>3 DEF PutBans
  <2> QED BY <1>1, <2>1, <2>2
<1>4. ASSUME NEW c \in Calls, NEW h \in Headers, NEW i \in Ids, PostReport(c, h, i)
      PROVE  GrantedInv'
  <2>1. SaysSo(list, h, "reports")
    BY <1>4, AllowedIsGranted DEF PostReport, Allowed, GrantedInv
  <2>2. calls'[c].header = h /\ calls'[c].table = "reports" /\ UNCHANGED list
        /\ \A d \in Calls : d # c => calls'[d] = calls[d]
    BY <1>0, <1>4 DEF PostReport
  <2> QED BY <1>1, <2>1, <2>2
<1>5. ASSUME NEW c \in Calls, Commit(c) PROVE GrantedInv'
  <2>1. PICK moved : calls' = [d \in Calls |->
               IF d = c THEN NoCall
               ELSE IF calls[d].table = "bans" THEN [calls[d] EXCEPT !.visible = @ \ moved]
               ELSE calls[d]]
    BY <1>5 DEF Commit
  <2>2. UNCHANGED list BY <1>5 DEF Commit
  <2>3. ASSUME NEW d \in Calls, calls[d].table = "bans"
        PROVE  /\ calls[d] # NoCall
               /\ [calls[d] EXCEPT !.visible = @ \ moved].header = calls[d].header
               /\ [calls[d] EXCEPT !.visible = @ \ moved].table = calls[d].table
    <3>1. calls[d] # NoCall BY <2>3, NoCallTable
    <3> QED BY <1>0, <2>3, <3>1, CallIs
  <2> QED BY <1>1, <2>1, <2>2, <2>3
<1>6. ASSUME NEW c \in Calls, CommitReport(c) \/ StatementFails(c) PROVE GrantedInv'
  <2>1. UNCHANGED list /\ \A d \in Calls : calls'[d] \in {calls[d], NoCall}
    BY <1>0, <1>6 DEF CommitReport, StatementFails
  <2> QED BY <1>1, <2>1
<1>7. CASE Restart BY <1>1, <1>7 DEF Restart
<1> QED BY <1>2, <1>3, <1>4, <1>5, <1>6, <1>7 DEF Next, Page, BeginWalk, Tick, vars

(* No statement runs without a token to which the configured list gives    *)
(* the permission, for every list (New, requirePermission).                *)
THEOREM OnlyGrantedEver == Spec => []OnlyGranted
<1>1. GrantedInv => OnlyGranted BY DEF GrantedInv
<1> QED BY <1>1, GrantedInit, GrantedStep, BookSound, PTL DEF Spec
=============================================================================
