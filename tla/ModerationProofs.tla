--------------------------- MODULE ModerationProofs ---------------------------
(***************************************************************************)
(* Proofs about Moderation, for any bags, requests, updates, batches and   *)
(* times to live.  GateInv is inductive: one lemma per action says that    *)
(* the action keeps it, with one step per conjunct.                        *)
(***************************************************************************)
EXTENDS Moderation, SequenceTheorems, TLAPS

-----------------------------------------------------------------------------
(* What the operations of the two caches and the ends of calls return.     *)

LEMMA HorizonNat == Horizon \in Nat
  BY ModerationAssumption DEF Horizon

(* Every age and every time left is a number. *)
LEMMA Ages ==
  ASSUME TypeOK
  PROVE  /\ \A b \in Bags : /\ since[b] \in Nat
                            /\ bans[b].left \in Int /\ bans[b].left <= BanTTL
                            /\ lists[b].left \in Int /\ lists[b].left <= ListTTL
         /\ \A r \in Readers : rage[r] \in Nat
         /\ \A a \in Admins : aage[a] \in Nat
<1>1. /\ \A b \in Bags : since[b] \in 0..Horizon
      /\ \A r \in Readers : rage[r] \in 0..MaxCall
      /\ \A a \in Admins : aage[a] \in 0..MaxCall
  BY DEF TypeOK
<1>2. \A b \in Bags : /\ bans[b] \in [value : {TRUE} \cup {NoValue}, left : -1..BanTTL]
                      /\ lists[b] \in [value : {TRUE} \cup {NoValue}, left : -1..ListTTL]
  BY DEF TypeOK, Ban!ItemsTypeOK, List!ItemsTypeOK
<1>3. \A b \in Bags : bans[b].left \in -1..BanTTL /\ lists[b].left \in -1..ListTTL
  BY <1>2
<1> QED  BY <1>1, <1>3, HorizonNat, ModerationAssumption

(* An update of a body names a bag and says whether to ban it. *)
LEMMA UpdateType ==
  ASSUME NEW s \in Seq([bag : Bags, status : BOOLEAN]), NEW i \in DOMAIN s
  PROVE  s[i].bag \in Bags /\ s[i].status \in BOOLEAN
<1>1. i \in 1..Len(s)
  BY LenProperties
<1>2. s[i] \in [bag : Bags, status : BOOLEAN]
  BY <1>1, ElementOfSeq
<1> QED  BY <1>2

LEMMA BanItems ==
  ASSUME TypeOK,
         \/ Ban!Cleanup \/ Ban!Elapse
         \/ \E b \in Bags : Ban!Get(b) \/ Ban!Set(b, TRUE) \/ Ban!Release(b)
  PROVE  Ban!ItemsTypeOK'
<1> DEFINE Item == [value : {TRUE} \cup {NoValue}, left : -1..BanTTL]
<1>1. bans \in [Bags -> Item]
  BY DEF TypeOK, Ban!ItemsTypeOK
<1>2. Ban!NoItem \in Item /\ [value |-> TRUE, left |-> BanTTL] \in Item
  BY ModerationAssumption DEF Ban!NoItem
<1>3. \A k \in Bags : Ban!Fresh(k) => [bans[k] EXCEPT !.left = @ - 1] \in Item
  <2> SUFFICES ASSUME NEW k \in Bags, Ban!Fresh(k)
               PROVE  [bans[k] EXCEPT !.left = @ - 1] \in Item
    OBVIOUS
  <2>1. bans[k] \in Item
    BY <1>1
  <2>2. bans[k].left \in -1..BanTTL /\ bans[k].left >= 0
    BY <2>1 DEF Ban!Fresh
  <2>3. bans[k].left - 1 \in -1..BanTTL
    BY <2>2, ModerationAssumption
  <2> QED  BY <2>1, <2>3
<1>4. bans' \in [Bags -> Item]
  <2>1. CASE \E b \in Bags : Ban!Get(b) \/ Ban!Set(b, TRUE) \/ Ban!Release(b)
    BY <2>1, <1>1, <1>2 DEF Ban!Get, Ban!Set, Ban!Release
  <2>2. CASE Ban!Cleanup
    BY <2>2, <1>1, <1>2 DEF Ban!Cleanup
  <2>3. CASE Ban!Elapse
    BY <2>3, <1>1, <1>3 DEF Ban!Elapse
  <2> QED BY <2>1, <2>2, <2>3
<1> QED BY <1>4 DEF Ban!ItemsTypeOK

LEMMA ListItems ==
  ASSUME TypeOK,
         \/ List!Cleanup \/ List!Elapse
         \/ \E b \in Bags : List!Get(b) \/ List!Set(b, TRUE) \/ List!Release(b)
  PROVE  List!ItemsTypeOK'
<1> DEFINE Item == [value : {TRUE} \cup {NoValue}, left : -1..ListTTL]
<1>1. lists \in [Bags -> Item]
  BY DEF TypeOK, List!ItemsTypeOK
<1>2. List!NoItem \in Item /\ [value |-> TRUE, left |-> ListTTL] \in Item
  BY ModerationAssumption DEF List!NoItem
<1>3. \A k \in Bags : List!Fresh(k) => [lists[k] EXCEPT !.left = @ - 1] \in Item
  <2> SUFFICES ASSUME NEW k \in Bags, List!Fresh(k)
               PROVE  [lists[k] EXCEPT !.left = @ - 1] \in Item
    OBVIOUS
  <2>1. lists[k] \in Item
    BY <1>1
  <2>2. lists[k].left \in -1..ListTTL /\ lists[k].left >= 0
    BY <2>1 DEF List!Fresh
  <2>3. lists[k].left - 1 \in -1..ListTTL
    BY <2>2, ModerationAssumption
  <2> QED  BY <2>1, <2>3
<1>4. lists' \in [Bags -> Item]
  <2>1. CASE \E b \in Bags : List!Get(b) \/ List!Set(b, TRUE) \/ List!Release(b)
    BY <2>1, <1>1, <1>2 DEF List!Get, List!Set, List!Release
  <2>2. CASE List!Cleanup
    BY <2>2, <1>1, <1>2 DEF List!Cleanup
  <2>3. CASE List!Elapse
    BY <2>3, <1>1, <1>3 DEF List!Elapse
  <2> QED BY <2>1, <2>2, <2>3
<1> QED BY <1>4 DEF List!ItemsTypeOK

LEMMA ReplyType ==
  ASSUME TypeOK, NEW r \in Readers, NEW from, Reply(r, from)
  PROVE  /\ rpc' \in [Readers -> {"idle", "listing", "cache", "query", "fill", "content", "store"}]
         /\ rbag' \in [Readers -> Bags \cup {NoBag}]
         /\ rage' \in [Readers -> 0..MaxCall]
<1>1. 0 \in 0..MaxCall
  BY ModerationAssumption
<1> QED BY <1>1 DEF TypeOK, Reply

LEMMA DoneType ==
  ASSUME TypeOK, NEW a \in Admins, Done(a)
  PROVE  /\ apc' \in [Admins -> {"idle", "exec", "apply"}]
         /\ batch' \in [Admins -> Seq([bag : Bags, status : BOOLEAN])]
         /\ aage' \in [Admins -> 0..MaxCall]
<1>1. 0 \in 0..MaxCall /\ <<>> \in Seq([bag : Bags, status : BOOLEAN])
  BY ModerationAssumption
<1> QED BY <1>1 DEF TypeOK, Done

-----------------------------------------------------------------------------
LEMMA InitGate ==
  Init => GateInv
<1> SUFFICES ASSUME Init PROVE GateInv
    OBVIOUS
<1>1. TypeOK
  BY HorizonNat, ModerationAssumption
     DEF Init, TypeOK, Ban!ItemsInit, Ban!ItemsTypeOK, Ban!NoItem,
         List!ItemsInit, List!ItemsTypeOK, List!NoItem
<1>2. CallsInv /\ NoBanMissed
  BY DEF Init, CallsInv, NoBanMissed
<1>3. ListingWindow /\ BanWindow
  BY DEF Init, TypeOK, ListingWindow, BanWindow, Ban!ItemsInit, Ban!NoItem, Ban!Fresh,
         List!ItemsInit, List!NoItem, List!Fresh
<1> QED  BY <1>1, <1>2, <1>3 DEF GateInv

-----------------------------------------------------------------------------
(* The steps of a request. *)

LEMMA RequestStep ==
  ASSUME GateInv, NEW r \in Readers, NEW b \in Bags, Request(r, b)
  PROVE  GateInv'
<1> USE DEF GateInv, dbVars, readerVars, adminVars
<1>1. TypeOK'
  BY ModerationAssumption DEF TypeOK, Request, Ban!ItemsTypeOK,
     List!ItemsTypeOK
<1>2. CallsInv'
  BY DEF TypeOK, CallsInv, Request
<1>3. NoBanMissed'
  BY DEF TypeOK, CallsInv, NoBanMissed, Request
<1>4. ListingWindow'
  BY DEF ListingWindow, List!Fresh, Request
<1>5. BanWindow'
  BY DEF BanWindow, Ban!Fresh, Request
<1> QED  BY <1>1, <1>2, <1>3, <1>4, <1>5

LEMMA ListingHitStep ==
  ASSUME GateInv, NEW r \in Readers, ListingHit(r)
  PROVE  GateInv'
<1> USE DEF GateInv, dbVars, readerVars, adminVars
<1>1. TypeOK'
  <2>1. rbag[r] \in Bags
    BY DEF CallsInv, ListingHit, Reply
  <2>2. List!ItemsTypeOK'
    BY <2>1, ListItems DEF ListingHit
  <2> QED
    BY <2>2, ReplyType DEF TypeOK, ListingHit, Ban!ItemsTypeOK
<1>2. CallsInv'
  BY DEF TypeOK, CallsInv, ListingHit, Reply
<1>3. NoBanMissed'
  BY DEF TypeOK, CallsInv, NoBanMissed, ListingHit, Reply
<1>4. ListingWindow'
  BY ModerationAssumption DEF TypeOK, CallsInv, NoBanMissed, List!ItemsTypeOK,
     ListingWindow, List!Fresh, ListingHit, Reply, List!Get, List!NoItem
<1>5. BanWindow'
  BY DEF BanWindow, Ban!Fresh, ListingHit
<1> QED  BY <1>1, <1>2, <1>3, <1>4, <1>5

LEMMA ListingMissStep ==
  ASSUME GateInv, NEW r \in Readers, ListingMiss(r)
  PROVE  GateInv'
<1> USE DEF GateInv, dbVars, readerVars, adminVars
<1>1. TypeOK'
  <2>1. rbag[r] \in Bags
    BY DEF CallsInv, ListingMiss, Step
  <2>2. List!ItemsTypeOK'
    BY <2>1, ListItems DEF ListingMiss
  <2> QED
    BY <2>2 DEF TypeOK, ListingMiss, Step, Ban!ItemsTypeOK
<1>2. CallsInv'
  BY DEF TypeOK, CallsInv, ListingMiss, Step
<1>3. NoBanMissed'
  BY DEF TypeOK, CallsInv, NoBanMissed, ListingMiss, Step
<1>4. ListingWindow'
  BY ModerationAssumption DEF TypeOK, CallsInv, NoBanMissed, List!ItemsTypeOK,
     ListingWindow, List!Fresh, ListingMiss, Step, List!Get, List!NoItem
<1>5. BanWindow'
  BY DEF BanWindow, Ban!Fresh, ListingMiss
<1> QED  BY <1>1, <1>2, <1>3, <1>4, <1>5

LEMMA BanHitStep ==
  ASSUME GateInv, NEW r \in Readers, BanHit(r)
  PROVE  GateInv'
<1> USE DEF GateInv, dbVars, readerVars, adminVars
<1>1. TypeOK'
  <2>1. rbag[r] \in Bags
    BY DEF CallsInv, BanHit, Reply
  <2>2. Ban!ItemsTypeOK'
    BY <2>1, BanItems DEF BanHit
  <2> QED
    BY <2>2, ReplyType DEF TypeOK, BanHit, List!ItemsTypeOK
<1>2. CallsInv'
  BY DEF TypeOK, CallsInv, BanHit, Reply
<1>3. NoBanMissed'
  BY DEF TypeOK, CallsInv, NoBanMissed, BanHit, Reply
<1>4. ListingWindow'
  BY DEF ListingWindow, List!Fresh, BanHit
<1>5. BanWindow'
  BY ModerationAssumption DEF TypeOK, CallsInv, Ban!ItemsTypeOK, BanWindow,
     Ban!Fresh, BanHit, Reply, Ban!Get, Ban!NoItem
<1> QED  BY <1>1, <1>2, <1>3, <1>4, <1>5

LEMMA BanMissStep ==
  ASSUME GateInv, NEW r \in Readers, BanMiss(r)
  PROVE  GateInv'
<1> USE DEF GateInv, dbVars, readerVars, adminVars
<1>1. TypeOK'
  <2>1. rbag[r] \in Bags
    BY DEF CallsInv, BanMiss, Step
  <2>2. Ban!ItemsTypeOK'
    BY <2>1, BanItems DEF BanMiss
  <2> QED
    BY <2>2 DEF TypeOK, BanMiss, Step, List!ItemsTypeOK
<1>2. CallsInv'
  BY DEF TypeOK, CallsInv, BanMiss, Step
<1>3. NoBanMissed'
  BY DEF TypeOK, CallsInv, NoBanMissed, BanMiss, Step
<1>4. ListingWindow'
  BY DEF ListingWindow, List!Fresh, BanMiss
<1>5. BanWindow'
  BY ModerationAssumption DEF TypeOK, CallsInv, Ban!ItemsTypeOK, BanWindow,
     Ban!Fresh, BanMiss, Step, Ban!Get, Ban!NoItem
<1> QED  BY <1>1, <1>2, <1>3, <1>4, <1>5

LEMMA QueryFailsStep ==
  ASSUME GateInv, NEW r \in Readers, QueryFails(r)
  PROVE  GateInv'
<1> USE DEF GateInv, dbVars, readerVars, adminVars
<1>1. TypeOK'
  BY ReplyType DEF TypeOK, QueryFails, Ban!ItemsTypeOK, List!ItemsTypeOK
<1>2. CallsInv'
  BY DEF TypeOK, CallsInv, QueryFails, Reply
<1>3. NoBanMissed'
  BY DEF TypeOK, CallsInv, NoBanMissed, QueryFails, Reply
<1>4. ListingWindow'
  BY DEF ListingWindow, List!Fresh, QueryFails
<1>5. BanWindow'
  BY DEF BanWindow, Ban!Fresh, QueryFails
<1> QED  BY <1>1, <1>2, <1>3, <1>4, <1>5

LEMMA QueryBanStep ==
  ASSUME GateInv, NEW r \in Readers, QueryBan(r)
  PROVE  GateInv'
<1> USE DEF GateInv, dbVars, readerVars, adminVars
<1>1. TypeOK'
  BY DEF TypeOK, QueryBan, Step, Ban!ItemsTypeOK, List!ItemsTypeOK
<1>2. CallsInv'
  BY DEF TypeOK, CallsInv, QueryBan, Step
<1>3. NoBanMissed'
  BY DEF TypeOK, CallsInv, NoBanMissed, QueryBan, Step
<1>4. ListingWindow'
  BY DEF ListingWindow, List!Fresh, QueryBan
<1>5. BanWindow'
  BY DEF BanWindow, Ban!Fresh, QueryBan
<1> QED  BY <1>1, <1>2, <1>3, <1>4, <1>5

LEMMA FillBanStep ==
  ASSUME GateInv, NEW r \in Readers, FillBan(r)
  PROVE  GateInv'
<1> USE DEF GateInv, dbVars, readerVars, adminVars
<1>1. TypeOK'
  <2>1. rbag[r] \in Bags
    BY DEF CallsInv, FillBan, Reply
  <2>2. Ban!ItemsTypeOK'
    BY <2>1, BanItems DEF FillBan
  <2> QED
    BY <2>2, ReplyType DEF TypeOK, FillBan, List!ItemsTypeOK
<1>2. CallsInv'
  BY DEF TypeOK, CallsInv, FillBan, Reply
<1>3. NoBanMissed'
  BY DEF TypeOK, CallsInv, NoBanMissed, FillBan, Reply
<1>4. ListingWindow'
  BY DEF ListingWindow, List!Fresh, FillBan
<1>5. BanWindow'
  BY ModerationAssumption DEF TypeOK, CallsInv, Ban!ItemsTypeOK, BanWindow,
     Ban!Fresh, FillBan, Reply, Ban!Set
<1> QED  BY <1>1, <1>2, <1>3, <1>4, <1>5

LEMMA ContentListingStep ==
  ASSUME GateInv, NEW r \in Readers, ContentListing(r)
  PROVE  GateInv'
<1> USE DEF GateInv, dbVars, readerVars, adminVars
<1>1. TypeOK'
  BY DEF TypeOK, ContentListing, Step, Ban!ItemsTypeOK, List!ItemsTypeOK
<1>2. CallsInv'
  BY DEF TypeOK, CallsInv, ContentListing, Step
<1>3. NoBanMissed'
  BY DEF TypeOK, CallsInv, NoBanMissed, ContentListing, Step
<1>4. ListingWindow'
  BY DEF ListingWindow, List!Fresh, ContentListing
<1>5. BanWindow'
  BY DEF BanWindow, Ban!Fresh, ContentListing
<1> QED  BY <1>1, <1>2, <1>3, <1>4, <1>5

LEMMA ContentOtherStep ==
  ASSUME GateInv, NEW r \in Readers, ContentOther(r)
  PROVE  GateInv'
<1> USE DEF GateInv, dbVars, readerVars, adminVars
<1>1. TypeOK'
  BY ReplyType DEF TypeOK, ContentOther, Ban!ItemsTypeOK, List!ItemsTypeOK
<1>2. CallsInv'
  BY DEF TypeOK, CallsInv, ContentOther, Reply
<1>3. NoBanMissed'
  BY DEF TypeOK, CallsInv, NoBanMissed, ContentOther, Reply
<1>4. ListingWindow'
  BY DEF ListingWindow, List!Fresh, ContentOther
<1>5. BanWindow'
  BY DEF BanWindow, Ban!Fresh, ContentOther
<1> QED  BY <1>1, <1>2, <1>3, <1>4, <1>5

LEMMA StoreListingStep ==
  ASSUME GateInv, NEW r \in Readers, StoreListing(r)
  PROVE  GateInv'
<1> USE DEF GateInv, dbVars, readerVars, adminVars
<1>1. TypeOK'
  <2>1. rbag[r] \in Bags
    BY DEF CallsInv, StoreListing, Reply
  <2>2. List!ItemsTypeOK'
    BY <2>1, ListItems DEF StoreListing
  <2> QED
    BY <2>2, ReplyType DEF TypeOK, StoreListing, Ban!ItemsTypeOK
<1>2. CallsInv'
  BY DEF TypeOK, CallsInv, StoreListing, Reply
<1>3. NoBanMissed'
  BY DEF TypeOK, CallsInv, NoBanMissed, StoreListing, Reply
<1>4. ListingWindow'
  BY ModerationAssumption DEF TypeOK, CallsInv, NoBanMissed, List!ItemsTypeOK,
     ListingWindow, List!Fresh, StoreListing, Reply, List!Set
<1>5. BanWindow'
  BY DEF BanWindow, Ban!Fresh, StoreListing
<1> QED  BY <1>1, <1>2, <1>3, <1>4, <1>5

LEMMA SubmitStep ==
  ASSUME GateInv, NEW a \in Admins, NEW s \in Batches, Submit(a, s)
  PROVE  GateInv'
<1> USE DEF GateInv, dbVars, readerVars, adminVars
<1>1. TypeOK'
  BY ModerationAssumption DEF TypeOK, Submit, Ban!ItemsTypeOK,
     List!ItemsTypeOK
<1>2. CallsInv'
  BY ModerationAssumption DEF TypeOK, CallsInv, Submit
<1>3. NoBanMissed'
  BY DEF TypeOK, CallsInv, NoBanMissed, Submit
<1>4. ListingWindow'
  BY DEF ListingWindow, List!Fresh, Submit
<1>5. BanWindow'
  BY DEF BanWindow, Ban!Fresh, Submit
<1> QED  BY <1>1, <1>2, <1>3, <1>4, <1>5

LEMMA ExecFailsStep ==
  ASSUME GateInv, NEW a \in Admins, ExecFails(a)
  PROVE  GateInv'
<1> USE DEF GateInv, dbVars, readerVars, adminVars
<1>1. TypeOK'
  BY DoneType DEF TypeOK, ExecFails, Ban!ItemsTypeOK, List!ItemsTypeOK
<1>2. CallsInv'
  BY DEF TypeOK, CallsInv, ExecFails, Done
<1>3. NoBanMissed'
  BY DEF TypeOK, CallsInv, NoBanMissed, ExecFails, Done
<1>4. ListingWindow'
  BY DEF ListingWindow, List!Fresh, ExecFails
<1>5. BanWindow'
  BY DEF BanWindow, Ban!Fresh, ExecFails
<1> QED  BY <1>1, <1>2, <1>3, <1>4, <1>5

LEMMA CleanBansStep ==
  ASSUME GateInv, CleanBans
  PROVE  GateInv'
<1> USE DEF GateInv, dbVars, readerVars, adminVars
<1>1. TypeOK'
  <2>2. Ban!ItemsTypeOK'
    BY BanItems DEF CleanBans
  <2> QED
    BY <2>2, ModerationAssumption DEF TypeOK, CleanBans, List!ItemsTypeOK
<1>2. CallsInv'
  BY DEF TypeOK, CallsInv, CleanBans
<1>3. NoBanMissed'
  BY DEF TypeOK, CallsInv, NoBanMissed, CleanBans
<1>4. ListingWindow'
  BY DEF ListingWindow, List!Fresh, CleanBans
<1>5. BanWindow'
  BY ModerationAssumption DEF TypeOK, CallsInv, Ban!ItemsTypeOK, BanWindow,
     Ban!Fresh, CleanBans, Ban!Cleanup, Ban!NoItem
<1> QED  BY <1>1, <1>2, <1>3, <1>4, <1>5

LEMMA CleanListsStep ==
  ASSUME GateInv, CleanLists
  PROVE  GateInv'
<1> USE DEF GateInv, dbVars, readerVars, adminVars
<1>1. TypeOK'
  <2>2. List!ItemsTypeOK'
    BY ListItems DEF CleanLists
  <2> QED
    BY <2>2, ModerationAssumption DEF TypeOK, CleanLists, Ban!ItemsTypeOK
<1>2. CallsInv'
  BY DEF TypeOK, CallsInv, CleanLists
<1>3. NoBanMissed'
  BY DEF TypeOK, CallsInv, NoBanMissed, CleanLists
<1>4. ListingWindow'
  BY ModerationAssumption DEF TypeOK, CallsInv, NoBanMissed, List!ItemsTypeOK,
     ListingWindow, List!Fresh, CleanLists, List!Cleanup, List!NoItem
<1>5. BanWindow'
  BY DEF BanWindow, Ban!Fresh, CleanLists
<1> QED  BY <1>1, <1>2, <1>3, <1>4, <1>5

-----------------------------------------------------------------------------
(* The steps of an update, and time. *)

(* What a statement leaves: a bag whose row has not changed keeps its age, *)
(* any other starts anew, and a bag the body bans has its row or lost it   *)
(* in this very statement.                                                 *)
LEMMA CommitEffect ==
  ASSUME TypeOK, NEW a \in Admins, Commit(a)
  PROVE  /\ banned' \subseteq Bags
         /\ since' \in [Bags -> 0..Horizon]
         /\ \A b \in Bags : \/ (b \in banned' <=> b \in banned) /\ since'[b] = since[b]
                            \/ since'[b] = 0
         /\ \A i \in DOMAIN batch[a] : batch[a][i].status =>
              batch[a][i].bag \in banned' \/ since'[batch[a][i].bag] = 0
<1> DEFINE s  == batch[a]
           on == Named(s, TRUE)
<1>1. s \in Seq([bag : Bags, status : BOOLEAN])
  BY DEF TypeOK
<1>2. on \subseteq Bags
  BY <1>1, UpdateType DEF Named
<1>3. PICK o \in Outcomes(banned, s) :
        /\ banned' = (banned \cup on) \ o.gone
        /\ o.gone \subseteq banned
        /\ since' = [b \in Bags |-> IF (b \in banned') = (b \in banned) THEN since[b] ELSE 0]
  BY DEF Commit, Outcomes
<1> HIDE DEF s
<1>4. banned' \subseteq Bags
  BY <1>2, <1>3 DEF TypeOK
<1>6. since' \in [Bags -> 0..Horizon]
  <2>1. \A b \in Bags : since[b] \in 0..Horizon
    BY DEF TypeOK
  <2>2. \A b \in Bags : (IF (b \in banned') = (b \in banned) THEN since[b] ELSE 0) \in 0..Horizon
    BY <2>1, HorizonNat
  <2> QED  BY <2>2, <1>3
<1>7. \A b \in Bags : \/ (b \in banned' <=> b \in banned) /\ since'[b] = since[b]
                      \/ since'[b] = 0
  BY <1>3
<1>8. ASSUME NEW i \in DOMAIN s, s[i].status
      PROVE  s[i].bag \in banned' \/ since'[s[i].bag] = 0
  <2>1. s[i].bag \in on /\ s[i].bag \in Bags
    BY <1>1, <1>2, <1>8 DEF Named
  <2>2. CASE s[i].bag \in banned
    BY <2>1, <2>2, <1>3
  <2>3. CASE s[i].bag \notin banned
    BY <2>1, <2>3, <1>3
  <2> QED  BY <2>2, <2>3
<1> QED  BY <1>4, <1>6, <1>7, <1>8 DEF s

LEMMA ExecStep ==
  ASSUME GateInv, NEW a \in Admins, Exec(a) \/ ExecLost(a)
  PROVE  GateInv'
<1> USE DEF GateInv, dbVars, readerVars, adminVars
<1>1. Commit(a) /\ UNCHANGED <<bans, lists, readerVars>>
  BY DEF Exec, ExecLost
<1>0. \A b \in Bags : /\ since'[b] \in Nat /\ since[b] \in Nat
                      /\ \/ (b \in banned' <=> b \in banned) /\ since'[b] = since[b]
                         \/ since'[b] = 0
  <2>1. \A b \in Bags : since[b] \in Nat
    BY Ages
  <2> QED  BY <2>1, <1>1, CommitEffect
<1>2. TypeOK'
  <2>1. /\ apc' \in [Admins -> {"idle", "exec", "apply"}]
        /\ batch' \in [Admins -> Seq([bag : Bags, status : BOOLEAN])]
        /\ aage' \in [Admins -> 0..MaxCall]
    BY DoneType DEF Exec, ExecLost, TypeOK
  <2> QED  BY <1>1, <2>1, CommitEffect DEF TypeOK, Ban!ItemsTypeOK, List!ItemsTypeOK
<1>3. CallsInv'
  <2>1. ASSUME NEW r \in Readers
        PROVE  /\ rpc'[r] # "idle" => rbag'[r] \in Bags
               /\ rpc'[r] = "fill" => rbag'[r] \in banned' \/ since'[rbag'[r]] <= rage'[r]
    BY <1>0, <1>1, Ages DEF CallsInv
  <2>2. ASSUME NEW x \in Admins
        PROVE  /\ apc'[x] # "idle" => batch'[x] # <<>>
               /\ apc'[x] = "apply" => \A i \in DOMAIN batch'[x] : batch'[x][i].status =>
                    batch'[x][i].bag \in banned' \/ since'[batch'[x][i].bag] <= aage'[x]
    <3>1. CASE x = a
      <4>1. CASE Exec(a)
        <5>1. /\ apc[a] = "exec" /\ batch'[x] = batch[a] /\ aage'[x] = aage[a]
              /\ aage[a] \in 0..MaxCall
          BY <3>1, <4>1 DEF TypeOK, Exec, Commit
        <5> QED  BY <5>1, <1>1, CommitEffect, ModerationAssumption DEF CallsInv
      <4>2. CASE ExecLost(a)
        BY <3>1, <4>2 DEF TypeOK, ExecLost, Done
      <4> QED  BY <4>1, <4>2
    <3>2. CASE x # a
      <4>1. apc'[x] = apc[x] /\ batch'[x] = batch[x] /\ aage'[x] = aage[x]
        BY <3>2 DEF TypeOK, Exec, ExecLost, Done
      <4>2. batch[x] \in Seq([bag : Bags, status : BOOLEAN])
        BY DEF TypeOK
      <4>3. \A i \in DOMAIN batch[x] : batch[x][i].bag \in Bags
        BY <4>2, UpdateType
      <4>4. aage[x] \in 0..MaxCall
        BY DEF TypeOK
      <4> QED  BY <4>1, <4>3, <4>4, <1>1, CommitEffect, ModerationAssumption DEF CallsInv
    <3> QED  BY <3>1, <3>2
  <2> QED  BY <2>1, <2>2 DEF CallsInv
<1>4. NoBanMissed'
  BY <1>0, <1>1, Ages DEF CallsInv, NoBanMissed
<1>5. ListingWindow'
  <2> SUFFICES ASSUME NEW b \in banned', List!Fresh(b)
               PROVE  since'[b] + lists[b].left <= MaxCall + ListTTL
    BY <1>1 DEF ListingWindow, List!Fresh
  <2>1. b \in Bags /\ lists[b].left \in Int /\ lists[b].left <= ListTTL
    BY <1>1, CommitEffect, Ages
  <2> QED  BY <2>1, <1>0, ModerationAssumption DEF ListingWindow
<1>6. BanWindow'
  <2> SUFFICES ASSUME NEW b \in Bags \ banned', Ban!Fresh(b)
               PROVE  since'[b] + bans[b].left <= MaxCall + BanTTL
    BY <1>1 DEF BanWindow, Ban!Fresh
  <2>1. bans[b].left \in Int /\ bans[b].left <= BanTTL
    BY Ages
  <2> QED  BY <2>1, <1>0, ModerationAssumption DEF BanWindow
<1> QED  BY <1>2, <1>3, <1>4, <1>5, <1>6

LEMMA ApplyStep ==
  ASSUME GateInv, NEW a \in Admins, Apply(a)
  PROVE  GateInv'
<1> USE DEF GateInv, dbVars, readerVars, adminVars
<1> DEFINE s == batch[a]
<1>1. s \in Seq([bag : Bags, status : BOOLEAN]) /\ s # <<>> /\ apc[a] = "apply"
  BY DEF TypeOK, CallsInv, Apply
<1>2. /\ Head(s) = s[1] /\ 1 \in DOMAIN s /\ s[1].bag \in Bags
      /\ s[1].status \in BOOLEAN
  <2>1. Head(s) = s[1] /\ 1 \in DOMAIN s
    BY <1>1, EmptySeq, LenProperties
  <2> QED  BY <2>1, <1>1, UpdateType
<1>3. Tail(s) \in Seq([bag : Bags, status : BOOLEAN])
  BY <1>1
<1>4. Len(s) # 1 => Tail(s) # <<>>
  <2>1. Len(s) \in Nat \ {0} /\ Len(Tail(s)) = Len(s) - 1
    BY <1>1, EmptySeq, LenProperties, HeadTailProperties
  <2>2. Tail(s) = <<>> => Len(Tail(s)) = 0
    BY EmptySeq
  <2> QED  BY <2>1, <2>2
<1>5. \A i \in DOMAIN Tail(s) : i + 1 \in DOMAIN s /\ Tail(s)[i] = s[i + 1]
  BY <1>1
<1>6. /\ IF s[1].status THEN Ban!Set(s[1].bag, TRUE) ELSE Ban!Release(s[1].bag)
      /\ UNCHANGED <<dbVars, lists, readerVars>>
  BY <1>2 DEF Apply
<1>7. \/ Done(a)
      \/ batch' = [batch EXCEPT ![a] = Tail(s)] /\ UNCHANGED <<apc, aage>> /\ Len(s) # 1
  BY DEF Apply
<1> HIDE DEF s
<1>8. TypeOK'
  <2>1. Ban!ItemsTypeOK'
    BY <1>2, <1>6, BanItems
  <2>2. /\ apc' \in [Admins -> {"idle", "exec", "apply"}]
        /\ batch' \in [Admins -> Seq([bag : Bags, status : BOOLEAN])]
        /\ aage' \in [Admins -> 0..MaxCall]
    BY <1>3, <1>7, DoneType DEF TypeOK
  <2> QED  BY <1>6, <2>1, <2>2 DEF TypeOK, List!ItemsTypeOK
<1>9. CallsInv'
  <2>1. ASSUME NEW x \in Admins
        PROVE  /\ apc'[x] # "idle" => batch'[x] # <<>>
               /\ apc'[x] = "apply" => \A i \in DOMAIN batch'[x] : batch'[x][i].status =>
                    batch'[x][i].bag \in banned' \/ since'[batch'[x][i].bag] <= aage'[x]
    <3>1. CASE Done(a)
      BY <3>1, <1>6 DEF TypeOK, CallsInv, Done
    <3>2. CASE x = a /\ ~Done(a)
      <4>1. batch'[x] = Tail(s) /\ apc'[x] = apc[a] /\ aage'[x] = aage[a] /\ Len(s) # 1
        BY <3>2, <1>7 DEF TypeOK
      <4>2. \A i \in DOMAIN s : s[i].status => s[i].bag \in banned \/ since[s[i].bag] <= aage[a]
        BY <1>1 DEF CallsInv, s
      <4> QED  BY <4>1, <4>2, <1>4, <1>5, <1>6
    <3>3. CASE x # a /\ ~Done(a)
      BY <3>3, <1>6, <1>7 DEF TypeOK, CallsInv
    <3> QED  BY <3>1, <3>2, <3>3
  <2> QED  BY <2>1, <1>6 DEF CallsInv
<1>10. NoBanMissed'
  BY <1>6 DEF NoBanMissed
<1>11. ListingWindow'
  BY <1>6 DEF ListingWindow, List!Fresh
<1>12. BanWindow'
  <2> SUFFICES ASSUME NEW b \in Bags \ banned', (Ban!Fresh(b))'
               PROVE  since'[b] + bans'[b].left <= MaxCall + BanTTL
    BY DEF BanWindow
  <2>1. CASE b = s[1].bag
    <3>1. s[1].status /\ bans'[b].left = BanTTL
      BY <2>1, <1>2, <1>6 DEF TypeOK, Ban!ItemsTypeOK, Ban!Set, Ban!Release, Ban!NoItem, Ban!Fresh
    <3>2. since[b] <= aage[a]
      BY <3>1, <2>1, <1>1, <1>2, <1>6 DEF CallsInv, s
    <3> QED  BY <3>1, <3>2, <1>6, ModerationAssumption DEF TypeOK
  <2>2. CASE b # s[1].bag
    BY <2>2, <1>2, <1>6 DEF TypeOK, BanWindow, Ban!ItemsTypeOK, Ban!Set, Ban!Release, Ban!Fresh
  <2> QED  BY <2>1, <2>2
<1> QED  BY <1>8, <1>9, <1>10, <1>11, <1>12

LEMMA TickStep ==
  ASSUME GateInv, Tick
  PROVE  GateInv'
<1> USE DEF GateInv, dbVars, readerVars, adminVars
<1>1. UNCHANGED <<banned, rpc, rbag, apc, batch>>
  BY DEF Tick
<1>2. \A b \in Bags : /\ since[b] \in Nat /\ since'[b] \in 0..Horizon
                      /\ since'[b] \in Nat /\ since'[b] <= since[b] + 1
  BY HorizonNat DEF Tick, TypeOK
<1>3. \A r \in Readers : /\ rage'[r] \in 0..MaxCall /\ rage[r] \in Nat
                         /\ rpc[r] # "idle" => rage'[r] = rage[r] + 1
  BY ModerationAssumption DEF Tick, TypeOK
<1>4. \A a \in Admins : /\ aage'[a] \in 0..MaxCall /\ aage[a] \in Nat
                        /\ apc[a] # "idle" => aage'[a] = aage[a] + 1
  BY ModerationAssumption DEF Tick, TypeOK
<1>5. TypeOK'
  <2>1. Ban!ItemsTypeOK' /\ List!ItemsTypeOK'
    BY BanItems, ListItems DEF Tick
  <2>2. /\ since' \in [Bags -> 0..Horizon]
        /\ rage' \in [Readers -> 0..MaxCall]
        /\ aage' \in [Admins -> 0..MaxCall]
    BY <1>2, <1>3, <1>4 DEF Tick
  <2> QED  BY <1>1, <2>1, <2>2 DEF TypeOK
<1>6. CallsInv'
  <2>1. ASSUME NEW r \in Readers, rpc[r] = "fill", rbag[r] \notin banned
        PROVE  since'[rbag[r]] <= rage'[r]
    BY <2>1, <1>2, <1>3 DEF CallsInv
  <2>2. ASSUME NEW a \in Admins, apc[a] = "apply", NEW i \in DOMAIN batch[a],
               batch[a][i].status, batch[a][i].bag \notin banned
        PROVE  since'[batch[a][i].bag] <= aage'[a]
    <3>1. batch[a] \in Seq([bag : Bags, status : BOOLEAN])
      BY DEF TypeOK
    <3>2. batch[a][i].bag \in Bags
      BY <3>1, UpdateType
    <3> QED  BY <3>2, <2>2, <1>2, <1>4 DEF CallsInv
  <2> QED  BY <1>1, <2>1, <2>2 DEF CallsInv
<1>7. NoBanMissed'
  BY <1>1, <1>2, <1>3 DEF CallsInv, NoBanMissed
<1>8. ListingWindow'
  <2> SUFFICES ASSUME NEW b \in banned, (List!Fresh(b))'
               PROVE  since'[b] + lists'[b].left <= MaxCall + ListTTL
    BY <1>1 DEF ListingWindow
  <2>1. b \in Bags /\ lists[b] \in [value : {TRUE} \cup {NoValue}, left : -1..ListTTL]
    BY DEF TypeOK, List!ItemsTypeOK
  <2>2. lists[b].left \in Int
    BY <2>1, Ages
  <2>3. List!Fresh(b) /\ lists'[b].left = lists[b].left - 1
    BY <2>1 DEF Tick, List!Elapse, List!Fresh
  <2> QED  BY <2>1, <2>2, <2>3, <1>2, ModerationAssumption DEF ListingWindow
<1>9. BanWindow'
  <2> SUFFICES ASSUME NEW b \in Bags \ banned, (Ban!Fresh(b))'
               PROVE  since'[b] + bans'[b].left <= MaxCall + BanTTL
    BY <1>1 DEF BanWindow
  <2>1. bans[b] \in [value : {TRUE} \cup {NoValue}, left : -1..BanTTL]
    BY DEF TypeOK, Ban!ItemsTypeOK
  <2>2. bans[b].left \in Int
    BY Ages
  <2>3. Ban!Fresh(b) /\ bans'[b].left = bans[b].left - 1
    BY <2>1 DEF Tick, Ban!Elapse, Ban!Fresh
  <2> QED  BY <2>2, <2>3, <1>2, ModerationAssumption DEF BanWindow
<1> QED  BY <1>5, <1>6, <1>7, <1>8, <1>9

(* Restart: empty caches and no calls claim nothing. *)
LEMMA RestartStep ==
  ASSUME GateInv, Restart
  PROVE  GateInv'
<1> USE DEF GateInv, dbVars, readerVars, adminVars
<1>1. TypeOK'
  BY ModerationAssumption
     DEF TypeOK, Restart, Ban!NoItem, List!NoItem, Ban!ItemsTypeOK, List!ItemsTypeOK
<1>2. CallsInv' /\ NoBanMissed'
  BY DEF Restart, CallsInv, NoBanMissed
<1>3. ListingWindow' /\ BanWindow'
  BY DEF TypeOK, Restart, ListingWindow, BanWindow, List!NoItem, Ban!NoItem,
         List!Fresh, Ban!Fresh
<1> QED  BY <1>1, <1>2, <1>3

-----------------------------------------------------------------------------
LEMMA NextGate ==
  GateInv /\ [Next]_vars => GateInv'
<1> SUFFICES ASSUME GateInv, [Next]_vars PROVE GateInv'
    OBVIOUS
<1>1. ASSUME NEW r \in Readers, Reader(r) PROVE GateInv'
  BY <1>1, ListingHitStep, ListingMissStep, BanHitStep, BanMissStep, QueryFailsStep,
     QueryBanStep, FillBanStep, ContentListingStep, ContentOtherStep, StoreListingStep
     DEF Reader
<1>2. ASSUME NEW a \in Admins, Admin(a) PROVE GateInv'
  BY <1>2, ExecStep, ExecFailsStep, ApplyStep DEF Admin
<1>3. ASSUME NEW r \in Readers, NEW b \in Bags, Request(r, b) PROVE GateInv'
  BY <1>3, RequestStep
<1>4. ASSUME NEW a \in Admins, NEW s \in Batches, Submit(a, s) PROVE GateInv'
  BY <1>4, SubmitStep
<1>5. CASE CleanBans \/ CleanLists \/ Tick \/ Restart
  BY <1>5, CleanBansStep, CleanListsStep, TickStep, RestartStep
<1>6. CASE UNCHANGED vars
  BY <1>6 DEF vars, dbVars, readerVars, adminVars, GateInv, TypeOK, CallsInv, NoBanMissed,
       ListingWindow, BanWindow, Ban!ItemsTypeOK, List!ItemsTypeOK, Ban!Fresh, List!Fresh
<1> QED  BY <1>1, <1>2, <1>3, <1>4, <1>5, <1>6 DEF Next

(* Every state of the gate meets its inductive invariant: types, and what  *)
(* a request or an update has in hand was true when it began or later      *)
(* (GetPathInfo, HasBan, UpdateBanStatus).                                 *)
THEOREM GateCorrect == Spec => []GateInv
<1> QED  BY InitGate, NextGate, PTL DEF Spec

(* No content is fetched for a bag banned before the request came in,      *)
(* whatever the ban cache holds and whichever statements fail (HasBan).    *)
THEOREM NoBanIsMissed == Spec => []NoBanMissed
<1>1. GateInv => NoBanMissed
  BY DEF GateInv
<1> QED  BY <1>1, GateCorrect, PTL

(* The listing of a banned bag is served from the listing cache for no     *)
(* longer than its TTL and one call after the ban (cacheMiddleware).       *)
THEOREM BannedListingsExpire == Spec => []ListingWindow
<1>1. GateInv => ListingWindow
  BY DEF GateInv
<1> QED  BY <1>1, GateCorrect, PTL

(* A lifted ban is enforced from the ban cache for no longer than its TTL  *)
(* and one call after it was lifted (HasBan, UpdateBanStatus).             *)
THEOREM LiftedBansExpire == Spec => []BanWindow
<1>1. GateInv => BanWindow
  BY DEF GateInv
<1> QED  BY <1>1, GateCorrect, PTL
=============================================================================
