------------------------------- MODULE BanBook -------------------------------
(***************************************************************************)
(* The tables of moderation and the API that keeps them: ban updates,      *)
(* reports and their listings from the routes (pkg/httpServer) through     *)
(* services/reports to the statements (pkg/repositories/files) and the     *)
(* triggers that write the history of bans (db/init.sql).                  *)
(*                                                                         *)
(* A statement has the time and the snapshot of its beginning and takes    *)
(* effect later, with others in between.  A listing is read page by page,  *)
(* each page a request and a snapshot of its own.  Who is named in a row   *)
(* stands for its admin, reason and comment.                               *)
(***************************************************************************)
EXTENDS AccessTokens, BanStatement, FiniteSets, SequencesExt

CONSTANTS
  Calls,       \* requests that change a table, in progress at a time
  Ids,         \* bag ids of 64 characters, in any capitals
  Lower,       \* Lower[i]: strings.ToLower
  Hex,         \* the ids that validateBagID accepts
  Names,       \* administrators named in bodies
  Bodies,      \* bodies of ban updates: sequences of [bag, name, status]
  ShortId,     \* an id of another length
  Limit,       \* entries on a page
  MaxTime, MaxWrites  \* bounds of the model

ASSUME BookAssumption ==
  /\ Lower \in [Ids -> Ids] /\ \A i \in Ids : Lower[Lower[i]] = Lower[i]
  /\ Hex \subseteq Ids /\ ShortId \notin Ids
  /\ Bodies \subseteq Seq([bag : Ids \cup {ShortId}, name : Names, status : BOOLEAN])
  /\ "nobody" \notin Names
  /\ Limit \in Nat \ {0} /\ MaxTime \in Nat
  /\ IsFiniteSet(Ids)

VARIABLES
  list,      \* the list of access tokens the program was started with
  rows,      \* rows[i]: the row of files.blacklist for i, or NoRow
  history,   \* history[i]: the entries of files.blacklist_history for i
  reports,   \* files.reports, in the order of their ids
  now,       \* the database's clock
  calls,     \* calls[c]: the statement of a call in progress, or NoCall
  walk       \* a client that lists a table page by page

tables == <<rows, history, reports>>
vars == <<list, tables, now, calls, walk>>

NoRow == [name |-> "nobody", at |-> 0]
Rows == {i \in Ids : rows[i] # NoRow}
NoCall == [table |-> "none"]

(* The entries ever written to the history and the reports. *)
Written == MapThenSumSet(LAMBDA i : Len(history[i]), Ids) + Len(reports)

Row == [name : Names, at : 0..MaxTime]
Entry == [name : Names, at : 0..MaxTime, banned : BOOLEAN]
Call ==
  {NoCall}
  \cup [table : {"bans"}, header : Headers, body : Seq([bag : Ids, name : Names, status : BOOLEAN]),
        at : 0..MaxTime, visible : SUBSET Ids]
  \cup [table : {"reports"}, header : Headers, bag : Ids, at : 0..MaxTime]

TypeOK ==
  /\ list \in TokenLists
  /\ rows \in [Ids -> Row \cup {NoRow}]
  /\ history \in [Ids -> Seq(Entry)]
  /\ reports \in Seq([bag : Ids, at : 0..MaxTime])
  /\ now \in 0..MaxTime
  /\ calls \in [Calls -> Call]

(* No walk is on; of the last one, the entries it missed and those that    *)
(* went meanwhile.                                                         *)
NoWalk == [table |-> "none", missed |-> 0, lost |-> 0]

Init ==
  /\ list \in TokenLists
  /\ rows = [i \in Ids |-> NoRow] /\ history = [i \in Ids |-> <<>>]
  /\ reports = <<>> /\ now = 0
  /\ calls = [c \in Calls |-> NoCall] /\ walk = NoWalk

Allowed(h, permission) == Verdict(AccessTokensMap(list), h, permission) = 200

-----------------------------------------------------------------------------
(* PUT /bans: a body that cannot be read, or an id of another length, is   *)
(* refused and an empty list does nothing; else the statement begins.      *)
(* Faulty variant: ids go on as they are written.                          *)
PutBansAsWritten(c, h, s) ==
  /\ calls[c] = NoCall /\ Written < MaxWrites /\ Allowed(h, "bans")
  /\ s # <<>> /\ \A k \in DOMAIN s : s[k].bag # ShortId
  /\ calls' = [calls EXCEPT ![c] =
       [table |-> "bans", header |-> h, body |-> s, at |-> now, visible |-> Rows]]
  /\ UNCHANGED <<list, tables, now, walk>>
PutBans(c, h, s) ==
  /\ calls[c] = NoCall /\ Written < MaxWrites /\ Allowed(h, "bans")
  /\ s # <<>> /\ \A k \in DOMAIN s : s[k].bag # ShortId
  /\ calls' = [calls EXCEPT ![c] =
       [table |-> "bans", header |-> h, at |-> now, visible |-> Rows,
        body |-> [k \in DOMAIN s |-> [s[k] EXCEPT !.bag = Lower[@]]]]]
  /\ UNCHANGED <<list, tables, now, walk>>

(* POST /reports. *)
PostReport(c, h, i) ==
  /\ calls[c] = NoCall /\ Written < MaxWrites /\ Allowed(h, "reports")
  /\ Lower[i] \in Hex
  /\ calls' = [calls EXCEPT ![c] =
       [table |-> "reports", header |-> h, bag |-> Lower[i], at |-> now]]
  /\ UNCHANGED <<list, tables, now, walk>>

(* The row a body's INSERT puts in for i, and the one it leaves where a row *)
(* is there, which keeps its created_at.  Faulty variant: it gets a new    *)
(* one.                                                                    *)
BanningName(s, i) == (CHOOSE k \in DOMAIN s : s[k].bag = i /\ s[k].status)
Inserted(i, call) ==
  [name |-> call.body[BanningName(call.body, i)].name, at |-> call.at]
UpsertRestamped(i, call) == Inserted(i, call)
Upsert(i, call) ==
  IF rows[i] = NoRow THEN Inserted(i, call) ELSE [Inserted(i, call) EXCEPT !.at = rows[i].at]
RowFor(i, call, anew) == IF i \in anew THEN Inserted(i, call) ELSE Upsert(i, call)

(* log_blacklist_changes: the entry for a row that was put in or changed,  *)
(* and for one that was taken out.  Faulty variant: no trigger for DELETE. *)
Put(row) == [name |-> row.name, at |-> row.at, banned |-> TRUE]
TakenOutUnlogged(row, t) == <<>>
TakenOut(row, t) == <<[name |-> row.name, at |-> t, banned |-> FALSE]>>

(* A client that lists bans: rows that go no longer count as present, and  *)
(* each row that is taken out counts, one that is put in anew included.    *)
WalkLoses(gone, anew) ==
  IF walk.table = "bans"
  THEN [walk EXCEPT !.present = @ \ gone, !.lost = @ + Cardinality(gone) + Cardinality(anew)]
  ELSE walk

(* The statement of UpdateBanStatus takes effect.  Rows it takes out are   *)
(* in no other statement's snapshot any more, should they come back.       *)
Commit(c) ==
  LET call == calls[c] IN
  /\ call.table = "bans" /\ ~BansTwice(call.body)
  /\ Written < MaxWrites
  /\ \E outcome \in Outcomes(call.visible, call.body) :
       LET gone == outcome.gone
           anew == outcome.anew
           put  == Named(call.body, TRUE) \ gone
       IN /\ rows' = [i \in Ids |-> IF i \in gone THEN NoRow
                                    ELSE IF i \in put THEN RowFor(i, call, anew) ELSE rows[i]]
          /\ history' = [i \in Ids |->
               (history[i] \o (IF i \in gone \cup anew THEN TakenOut(rows[i], call.at) ELSE <<>>))
                 \o (IF i \in put THEN <<Put(RowFor(i, call, anew))>> ELSE <<>>)]
          /\ calls' = [d \in Calls |->
               IF d = c THEN NoCall
               ELSE IF calls[d].table = "bans"
                    THEN [calls[d] EXCEPT !.visible = @ \ (gone \cup anew)]
               ELSE calls[d]]
          /\ walk' = WalkLoses(gone, anew)
  /\ UNCHANGED <<list, reports, now>>

(* The INSERT of AddReport takes effect. *)
CommitReport(c) ==
  /\ calls[c].table = "reports" /\ Written < MaxWrites
  /\ reports' = Append(reports, [bag |-> calls[c].bag, at |-> calls[c].at])
  /\ calls' = [calls EXCEPT ![c] = NoCall]
  /\ UNCHANGED <<list, rows, history, now, walk>>

(* A statement fails and leaves nothing behind. *)
StatementFails(c) ==
  /\ calls[c] # NoCall
  /\ calls' = [calls EXCEPT ![c] = NoCall]
  /\ UNCHANGED <<list, tables, now, walk>>

-----------------------------------------------------------------------------
(* GET /bans and GET /reports, one page after the other until one is not   *)
(* full: GetAllBans, GetReports.                                           *)
Stamped(table) ==
  IF table = "bans" THEN {<<i, rows[i].at>> : i \in Rows}
  ELSE {<<k, reports[k].at>> : k \in DOMAIN reports}

(* ORDER BY created_at DESC: how many entries come before e.  Entries of    *)
(* one stamp come in any order.                                            *)
Newer(S, e) == Cardinality({f \in S : f[2] > e[2]})
Tied(S) == \E e, f \in S : e # f /\ e[2] = f[2]

BeginWalk(h, table) ==
  /\ walk.table = "none"
  /\ Allowed(h, table)
  /\ walk' = [table |-> table, offset |-> 0, seen |-> {}, lost |-> 0,
              present |-> {e[1] : e \in Stamped(table)}]
  /\ UNCHANGED <<list, tables, now, calls>>

Over(w) ==
  [NoWalk EXCEPT !.missed = Cardinality(w.present \ w.seen), !.lost = w.lost]

(* A walk that meets a tie can miss anything and is not followed further. *)
Page(h) ==
  /\ walk.table # "none"
  /\ Allowed(h, walk.table)
  /\ LET S    == Stamped(walk.table)
         page == {e[1] : e \in {f \in S : Newer(S, f) \in walk.offset..walk.offset + Limit - 1}}
         next == [walk EXCEPT !.offset = @ + Limit, !.seen = @ \cup page]
     IN walk' = IF Tied(S) THEN NoWalk
                ELSE IF Cardinality(page) = Limit THEN next ELSE Over(next)
  /\ UNCHANGED <<list, tables, now, calls>>

(* The database's clock. *)
Tick ==
  /\ now < MaxTime /\ now' = now + 1
  /\ UNCHANGED <<list, tables, calls, walk>>

(* The program is started again: the calls go, the tables stay. *)
Restart ==
  /\ calls' = [c \in Calls |-> NoCall] /\ walk' = NoWalk
  /\ UNCHANGED <<list, tables, now>>

Next ==
  \/ \E c \in Calls :
       \/ \E h \in Headers, s \in Bodies : PutBans(c, h, s)
       \/ \E h \in Headers, i \in Ids : PostReport(c, h, i)
       \/ Commit(c) \/ CommitReport(c) \/ StatementFails(c)
  \/ \E h \in Headers : Page(h) \/ \E t \in {"bans", "reports"} : BeginWalk(h, t)
  \/ Tick \/ Restart

Spec == Init /\ [][Next]_vars

-----------------------------------------------------------------------------
(* The history tells the table: a bag has a row exactly when its last      *)
(* entry says banned, and the row is that entry, whichever statements      *)
(* overlapped and whatever one body said twice (UpdateBanStatus, the       *)
(* triggers).                                                              *)
HistoryTellsTable ==
  \A i \in Ids :
    IF history[i] # <<>> /\ Last(history[i]).banned
    THEN rows[i] # NoRow /\ Put(rows[i]) = Last(history[i])
    ELSE rows[i] = NoRow

(* A client that pages through a table misses no more of what was there    *)
(* all the while than rows were taken out meanwhile, nothing of the        *)
(* reports, as long as no two entries it meets share a stamp: what comes   *)
(* in, or is banned again where its row is still there, pushes nothing out *)
(* of sight.  A row that one body bans and unbans may be taken out and put *)
(* in anew, and be missed though it is banned throughout (GetAllBans,      *)
(* GetReports, created_at in UpdateBanStatus).                             *)
PagesMissNoMore == walk.table = "none" => walk.missed <= walk.lost

(* What changes a table needs a token to which the list gives the          *)
(* permission, by the last entry for it (New, requirePermission, the       *)
(* routes).                                                                *)
OnlyGranted ==
  \A c \in Calls : calls[c] # NoCall => SaysSo(list, calls[c].header, calls[c].table)

(* Bans and reports are kept under the id in lower case, the one requests  *)
(* are checked with, however a body writes it (UpdateBanStatus, addReport).*)
KeptInLower ==
  /\ \A i \in Rows : Lower[i] = i
  /\ \A k \in DOMAIN reports : Lower[reports[k].bag] = reports[k].bag

(* The inductive invariant behind the history and the pages: a statement  *)
(* sees no row that is younger than it.                                    *)
CallInv(c) ==
  /\ calls[c].table = "bans" =>
       /\ calls[c].visible \subseteq Rows /\ calls[c].at <= now
       /\ \A i \in calls[c].visible : rows[i].at <= calls[c].at
       /\ \A k \in DOMAIN calls[c].body : Lower[calls[c].body[k].bag] = calls[c].body[k].bag
  /\ calls[c].table = "reports" => Lower[calls[c].bag] = calls[c].bag

BookInv ==
  /\ TypeOK /\ HistoryTellsTable /\ KeptInLower
  /\ \A i \in Rows : rows[i].at <= now
  /\ \A c \in Calls : CallInv(c)
=============================================================================
