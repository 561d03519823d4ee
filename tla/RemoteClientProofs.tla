-------------------------- MODULE RemoteClientProofs --------------------------
(***************************************************************************)
(* Proofs about the remote client and its cache of opened bags, for every  *)
(* number of goroutines, bags and torrents, every cache size and both      *)
(* kinds of clock.  First the cache by itself: what the loop over          *)
(* freeUnsafe removes, and the LRU order; then RemoteClient.               *)
(***************************************************************************)
EXTENDS RemoteClient, FreeLoop, NatRecursion

(* Sets of bags are finite. *)
LEMMA FiniteCounts ==
  ASSUME NEW S \in SUBSET Bags
  PROVE  IsFiniteSet(S) /\ Cardinality(S) \in Nat
BY FS_Subset, FS_CardinalityType, CacheAssumption

(* Among some entries there is one with the oldest stamp. *)
LEMMA OldestExists ==
  ASSUME NEW a \in [Bags -> Nat], NEW T \in SUBSET Bags, T # {}
  PROVE  \E v \in T : \A y \in T : a[y] <= a[v]
<1> DEFINE S == {n \in Nat : \A U \in SUBSET Bags : U # {} /\ Cardinality(U) = n =>
                   \E v \in U : \A y \in U : a[y] <= a[v]}
<1>1. 0 \in S
  <2>1. \A U \in SUBSET Bags : Cardinality(U) = 0 => U = {}
    BY FiniteCounts, FS_EmptySet
  <2> QED BY <2>1
<1>2. ASSUME NEW n \in Nat, n \in S PROVE n + 1 \in S
  <2> SUFFICES ASSUME NEW U \in SUBSET Bags, U # {}, Cardinality(U) = n + 1
               PROVE  \E v \in U : \A y \in U : a[y] <= a[v]
    OBVIOUS
  <2>1. PICK x \in U : TRUE OBVIOUS
  <2>2. CASE U \ {x} = {}
    BY <2>1, <2>2
  <2>3. CASE U \ {x} # {}
    <3>1. Cardinality(U \ {x}) = n
      BY <2>1, FS_RemoveElement, FiniteCounts
    <3>2. PICK v \in U \ {x} : \A y \in U \ {x} : a[y] <= a[v]
      BY <1>2, <2>3, <3>1
    <3>3. a[x] \in Nat /\ a[v] \in Nat /\ \A y \in U : a[y] \in Nat
      OBVIOUS
    <3>4. CASE a[x] <= a[v] BY <3>2, <3>4
    <3>5. CASE a[v] <= a[x]
      <4>1. \A y \in U : a[y] <= a[x] BY <3>2, <3>3, <3>5
      <4> QED BY <2>1, <4>1
    <3> QED BY <3>3, <3>4, <3>5
  <2> QED BY <2>2, <2>3
<1> HIDE DEF S
<1>3. \A n \in Nat : n \in S BY <1>1, <1>2, NatSetInduction
<1>4. Cardinality(T) \in S BY <1>3, FiniteCounts
<1> QED BY <1>4 DEF S

(* One entry less. *)
LEMMA OneLess ==
  ASSUME NEW S \in SUBSET Bags, NEW v \in S
  PROVE  Cardinality(S \ {v}) = Cardinality(S) - 1
BY FS_RemoveElement, FiniteCounts

(* A set has more elements than a part of it. *)
LEMMA StrictlyFewer ==
  ASSUME NEW S \in SUBSET Bags, NEW T \in SUBSET S, T # S
  PROVE  Cardinality(T) < Cardinality(S)
<1>1. Cardinality(T) <= Cardinality(S) /\ Cardinality(T) # Cardinality(S)
  BY FS_Subset, FiniteCounts
<1>2. Cardinality(T) \in Nat /\ Cardinality(S) \in Nat BY FiniteCounts
<1> QED BY <1>1, <1>2

(* Ages when the clock has ticked. *)
LEMMA LaterType ==
  ASSUME NEW a \in [Bags -> Nat], NEW n \in Nat
  PROVE  /\ Later(a, n) \in [Bags -> Nat]
         /\ \A x \in Bags : Later(a, n)[x] = a[x] + n
BY DEF Later

(* Ranks are numbers. *)
LEMMA RankedType ==
  ASSUME NEW a
  PROVE  Ranked(a) \in [Bags -> Nat]
<1> SUFFICES ASSUME NEW x \in Bags
             PROVE  Cardinality({y \in Bags : 0 < a[y] /\ a[y] <= a[x]}) \in Nat
    BY DEF Ranked
<1> IsFiniteSet({y \in Bags : 0 < a[y] /\ a[y] <= a[x]})
    BY FS_Subset, CacheAssumption
<1> QED  BY FS_CardinalityType

(* What a hit leaves alone. *)
LEMMA GetHitEffect ==
  ASSUME CacheTypeOK, NEW b, GetHit(b)
  PROVE  /\ CacheTypeOK'
         /\ b \in Cached
         /\ UNCHANGED <<cache, run, dl>>
<1>1. b \in Cached /\ UNCHANGED <<cache, run, dl>>
      BY DEF GetHit
<1>2. age' \in [Bags -> Nat]
      BY RankedType DEF GetHit
<1> QED  BY <1>1, <1>2 DEF CacheTypeOK

(* What a Set may do: it stores the torrent and takes out some entries,    *)
(* each with its torrent stopped and its downloader closed, and keeps none *)
(* that was used before one it takes out.                                  *)
SetWith(b, t, V) ==
  LET gone == {u \in Torrents : (b \in V /\ u = t) \/ \E v \in V \ {b} : u = cache[v]}
  IN /\ V # {} => Cardinality((Cached \cup {b}) \ V) >= MaxCacheEntries
     /\ \A v \in V \ {b}, k \in Cached \ (V \cup {b}) : age[k] <= age[v]
     /\ cache' = [x \in Bags |-> IF x \in V THEN NoTorrent
                                 ELSE IF x = b THEN t ELSE cache[x]]
     /\ run' = [u \in Torrents |-> IF u \in gone THEN "stopped" ELSE run[u]]
     /\ dl' = [u \in Torrents |-> IF u \in gone THEN "closed" ELSE dl[u]]

LEMMA SetEffect ==
  ASSUME CacheTypeOK, NEW b \in Bags, NEW t \in Torrents, Set(b, t)
  PROVE  /\ CacheTypeOK'
         /\ \E V \in SUBSET (Cached \cup {b}) : SetWith(b, t, V)
<1> DEFINE stored == [cache EXCEPT ![b] = t]
<1>1. PICK V \in SUBSET Bags :
        /\ V \subseteq Cached \cup {b}
        /\ V # {} => Cardinality((Cached \cup {b}) \ V) >= MaxCacheEntries
        /\ TearDown({stored[v] : v \in V})
        /\ cache' = Without(stored, V)
        /\ \A v \in V \ {b}, k \in Cached \ (V \cup {b}) : age[k] <= age[v]
  <2>1. PICK d1 \in ClockSteps, d2 \in ClockSteps, V \in SUBSET Bags :
          LET a == [x \in Bags |-> IF x = b THEN d2
                                   ELSE IF x \in Cached THEN age[x] + d1 + d2 ELSE 0]
          IN /\ Freed(V, Cached \cup {b}, a)
             /\ TearDown({stored[v] : v \in V})
             /\ cache' = Without(stored, V)
        BY DEF Set
  <2> DEFINE a == [x \in Bags |-> IF x = b THEN d2
                                  ELSE IF x \in Cached THEN age[x] + d1 + d2 ELSE 0]
  <2>2. Evictable(V, Cached \cup {b}, a)
        BY <2>1 DEF Freed
  <2>3. ASSUME NEW v \in V \ {b}, NEW k \in Cached \ (V \cup {b})
        PROVE  age[k] <= age[v]
    <3>1. a[k] <= a[v] /\ v \in Cached /\ k \in Cached /\ v \in Bags /\ k \in Bags
          BY <2>2, <2>3 DEF Evictable, Cached
    <3>2. d1 \in Nat /\ d2 \in Nat /\ age[k] \in Nat /\ age[v] \in Nat
          BY <3>1, CacheAssumption DEF CacheTypeOK
    <3>3. a[k] = age[k] + d1 + d2 /\ a[v] = age[v] + d1 + d2
          BY <2>3, <3>1
    <3> QED  BY <3>1, <3>2, <3>3
  <2>4. V # {} => Cardinality((Cached \cup {b}) \ V) >= MaxCacheEntries
        BY <2>1 DEF Freed
  <2> QED  BY <2>1, <2>2, <2>3, <2>4 DEF Evictable
<1>2. age' \in [Bags -> Nat]
      BY RankedType DEF Set
<1> DEFINE gone == {u \in Torrents : (b \in V /\ u = t) \/ \E v \in V \ {b} : u = cache[v]}
<1>3. \A u \in Torrents : u \in {stored[v] : v \in V} <=> u \in gone
      BY DEF CacheTypeOK
<1>4. /\ run' = [u \in Torrents |-> IF u \in gone THEN "stopped" ELSE run[u]]
      /\ dl' = [u \in Torrents |-> IF u \in gone THEN "closed" ELSE dl[u]]
      BY <1>1, <1>3 DEF TearDown
<1>5. cache' = [x \in Bags |-> IF x \in V THEN NoTorrent
                               ELSE IF x = b THEN t ELSE cache[x]]
      BY <1>1 DEF Without, CacheTypeOK
<1>6. CacheTypeOK'
      BY <1>2, <1>4, <1>5 DEF CacheTypeOK
<1>7. SetWith(b, t, V)
      BY <1>1, <1>4, <1>5 DEF SetWith
<1> QED  BY <1>1, <1>6, <1>7

-----------------------------------------------------------------------------
(* What the loop has done after some rounds: the entries gone were the     *)
(* oldest, and if any went no fewer than the limit are left.               *)
Progressed(S, a, T, n) ==
  /\ n \in Nat
  /\ \E W \in SUBSET S :
       /\ T = S \ W
       /\ Evictable(W, S, Later(a, n))
       /\ W # {} => Cardinality(S \ W) >= MaxCacheEntries

LEMMA RoundProgresses ==
  ASSUME NEW a \in [Bags -> Nat], NEW S \in SUBSET Bags, NEW c, Progressed(S, a, c[1], c[2]),
         NEW d \in ClockSteps, NEW T \in FreeRound(c[1], Later(a, c[2] + d))
  PROVE  Progressed(S, a, T, c[2] + d)
<1> DEFINE n == c[2] + d
<1>1. PICK W \in SUBSET S :
        /\ c[1] = S \ W
        /\ Evictable(W, S, Later(a, c[2]))
        /\ W # {} => Cardinality(S \ W) >= MaxCacheEntries
  BY DEF Progressed
<1>2. c[2] \in Nat /\ d \in Nat /\ n \in Nat /\ n >= c[2] BY CacheAssumption DEF Progressed
<1>3. c[1] = S \ W BY <1>1
<1>4. PICK v \in S \ W : /\ T = (S \ W) \ {v}
                         /\ Later(a, n)[v] > 0
                         /\ \A y \in S \ W : Later(a, n)[y] <= Later(a, n)[v]
                         /\ Cardinality(S \ W) > MaxCacheEntries
  BY <1>3 DEF FreeRound
<1> DEFINE X == W \cup {v}
<1>5. X \in SUBSET S /\ T = S \ X BY <1>4
<1>6. Evictable(X, S, Later(a, n))
  <2>1. \A x \in Bags : /\ Later(a, n)[x] = a[x] + n
                        /\ Later(a, c[2])[x] = a[x] + c[2]
                        /\ a[x] \in Nat
    BY <1>2, LaterType
  <2>2. ASSUME NEW w \in W
        PROVE  Later(a, n)[w] > 0 /\ \A k \in S \ X : Later(a, n)[k] <= Later(a, n)[w]
    <3>1. a[w] + c[2] > 0 /\ \A k \in S \ W : a[k] + c[2] <= a[w] + c[2]
      BY <1>1, <2>1 DEF Evictable
    <3>2. a[w] \in Nat /\ \A k \in S \ W : a[k] \in Nat OBVIOUS
    <3> HIDE DEF n
    <3>3. a[w] + n > 0 BY <1>2, <3>1, <3>2
    <3>4. \A k \in S \ W : a[k] + n <= a[w] + n BY <1>2, <3>1, <3>2
    <3> QED BY <2>1, <3>3, <3>4
  <2> QED BY <1>4, <1>5, <2>2 DEF Evictable
<1>7. Cardinality(S \ X) >= MaxCacheEntries
  <2>1. Cardinality((S \ W) \ {v}) = Cardinality(S \ W) - 1 BY <1>4, OneLess
  <2>2. Cardinality(S \ W) \in Nat BY FiniteCounts
  <2> QED BY <1>4, <1>5, <2>1, <2>2, CacheAssumption
<1> HIDE DEF X
<1> QED BY <1>2, <1>5, <1>6, <1>7 DEF Progressed

(* When the loop ends, Freed allows what it has done. *)
LEMMA EndIsFreed ==
  ASSUME NEW a \in [Bags -> Nat], NEW S \in SUBSET Bags, NEW c, Progressed(S, a, c[1], c[2]),
         NEW d \in ClockSteps, FreeRound(c[1], Later(a, c[2] + d)) = {}
  PROVE  /\ c[1] \in Kept(S, a, c[2] + d)
         /\ c[2] + d \in Nat
<1> DEFINE n == c[2] + d
<1>1. PICK W \in SUBSET S :
        /\ c[1] = S \ W
        /\ Evictable(W, S, Later(a, c[2]))
        /\ W # {} => Cardinality(S \ W) >= MaxCacheEntries
  BY DEF Progressed
<1>2. c[2] \in Nat /\ d \in Nat /\ n \in Nat /\ n >= c[2] BY CacheAssumption DEF Progressed
<1>3. c[1] = S \ W BY <1>1
<1>4. Evictable(W, S, Later(a, n))
  <2>1. \A x \in Bags : /\ Later(a, n)[x] = a[x] + n
                        /\ Later(a, c[2])[x] = a[x] + c[2]
                        /\ a[x] \in Nat
    BY <1>2, LaterType
  <2> SUFFICES ASSUME NEW w \in W
        PROVE  Later(a, n)[w] > 0 /\ \A k \in S \ W : Later(a, n)[k] <= Later(a, n)[w]
    BY DEF Evictable
  <2>3. a[w] + c[2] > 0 /\ \A k \in S \ W : a[k] + c[2] <= a[w] + c[2]
    BY <1>1, <2>1 DEF Evictable
  <2>4. a[w] \in Nat /\ \A k \in S \ W : a[k] \in Nat OBVIOUS
  <2> HIDE DEF n
  <2>5. a[w] + n > 0 BY <1>2, <2>3, <2>4
  <2>6. \A k \in S \ W : a[k] + n <= a[w] + n BY <1>2, <2>3, <2>4
  <2> QED BY <2>1, <2>5, <2>6
<1>5. \/ Cardinality(S \ W) <= MaxCacheEntries
      \/ \A k \in S \ W : Later(a, n)[k] = 0
  <2> SUFFICES ASSUME Cardinality(S \ W) > MaxCacheEntries
               PROVE  \A k \in S \ W : Later(a, n)[k] = 0
    BY FiniteCounts, CacheAssumption
  <2>1. \A v \in S \ W : ~(Later(a, n)[v] > 0 /\ \A y \in S \ W : Later(a, n)[y] <= Later(a, n)[v])
    BY <1>3 DEF FreeRound
  <2>2. Later(a, n) \in [Bags -> Nat] BY <1>2, LaterType
  <2>3. CASE S \ W # {}
    <3>1. PICK v \in S \ W : \A y \in S \ W : Later(a, n)[y] <= Later(a, n)[v]
      BY <2>2, <2>3, OldestExists
    <3>2. Later(a, n)[v] = 0 /\ \A y \in S \ W : Later(a, n)[y] \in Nat
      BY <2>1, <2>2, <3>1
    <3> QED BY <3>1, <3>2
  <2> QED BY <2>3
<1>6. Freed(W, S, Later(a, n)) BY <1>1, <1>4, <1>5 DEF Freed
<1> QED BY <1>2, <1>3, <1>6 DEF Kept

(* Once the clock has ticked it makes no difference how often. *)
LEMMA TicksAlike ==
  ASSUME NEW a \in [Bags -> Nat], NEW S \in SUBSET Bags, NEW n \in Nat, n > 0
  PROVE  Kept(S, a, n) = Kept(S, a, 1)
<1>1. \A x \in Bags : /\ Later(a, n)[x] = a[x] + n /\ Later(a, 1)[x] = a[x] + 1
                      /\ a[x] \in Nat
  BY LaterType
<1>2. ASSUME NEW W \in SUBSET S
      PROVE  Evictable(W, S, Later(a, n)) <=> Evictable(W, S, Later(a, 1))
  <2>1. \A x, y \in Bags : Later(a, n)[x] <= Later(a, n)[y] <=> Later(a, 1)[x] <= Later(a, 1)[y]
    BY <1>1
  <2>2. \A x \in Bags : Later(a, n)[x] > 0 /\ Later(a, 1)[x] > 0 BY <1>1
  <2>3. W \subseteq Bags /\ S \ W \subseteq Bags OBVIOUS
  <2> QED BY <2>1, <2>2, <2>3 DEF Evictable
<1>3. ASSUME NEW W \in SUBSET S
      PROVE  (\A k \in S \ W : Later(a, n)[k] = 0) <=> (\A k \in S \ W : Later(a, 1)[k] = 0)
  <2>1. \A k \in S \ W : Later(a, n)[k] # 0 /\ Later(a, 1)[k] # 0 BY <1>1
  <2> QED BY <2>1
<1>4. \A W \in SUBSET S : Freed(W, S, Later(a, n)) <=> Freed(W, S, Later(a, 1))
  BY <1>2, <1>3 DEF Freed
<1> QED BY <1>4 DEF Kept

(* A read of the clock may or must find that it has ticked. *)
LEMMA Ticks == ClockSteps \subseteq Nat /\ 1 \in ClockSteps
BY CacheAssumption

(* A state after one more round, and a state at the end. *)
LEMMA AgainElement ==
  ASSUME NEW a, NEW C, NEW x
  PROVE  x \in Again(a, C) <=>
           \E c \in C, d \in ClockSteps :
             \E T \in FreeRound(c[1], Later(a, c[2] + d)) : x = <<T, c[2] + d>>
<1> DEFINE Made(c, d) == {<<T, c[2] + d>> : T \in FreeRound(c[1], Later(a, c[2] + d))}
<1>1. \A c, d : x \in Made(c, d) <=>
        \E T \in FreeRound(c[1], Later(a, c[2] + d)) : x = <<T, c[2] + d>>
  OBVIOUS
<1>2. Again(a, C) = UNION {Made(c, d) : c \in C, d \in ClockSteps} BY DEF Again
<1> HIDE DEF Made
<1>3. x \in Again(a, C) <=> \E c \in C, d \in ClockSteps : x \in Made(c, d) BY <1>2
<1> QED BY <1>1, <1>3

LEMMA DoneElement ==
  ASSUME NEW a, NEW C, NEW x
  PROVE  x \in Done(a, C) <=>
           \E c \in C, d \in ClockSteps :
             FreeRound(c[1], Later(a, c[2] + d)) = {} /\ x = <<c[1], c[2] + d>>
BY DEF Done

(* The course of the loop: what is left after each number of rounds. *)
LEMMA LoopCourse ==
  ASSUME NEW a \in [Bags -> Nat], NEW S \in SUBSET Bags
  PROVE  \E f :
           /\ f = Course(S, a)
           /\ f[0] = {<<S, 0>>}
           /\ \A k \in 1..Cardinality(S) : f[k] = Again(a, f[k - 1])
           /\ \A x : x \in LoopEnds(S, a) <=> \E k \in 0..Cardinality(S) : x \in Done(a, f[k])
<1> DEFINE N == Cardinality(S)
           Start == {<<S, 0>>}
           Stage == SUBSET ((SUBSET Bags) \X Nat)
           Body(f) == [k \in 0..N |-> IF k = 0 THEN Start ELSE Again(a, f[k - 1])]
           after == CHOOSE f : f = Body(f)
           step == [k \in 1..N |-> [C \in Stage |-> Again(a, C)]]
<1>1. N \in Nat BY FiniteCounts
<1>2. \A C \in Stage : Again(a, C) \in Stage
  <2> SUFFICES ASSUME NEW C \in Stage, NEW x \in Again(a, C)
               PROVE  x \in (SUBSET Bags) \X Nat
    OBVIOUS
  <2>1. PICK c \in C, d \in ClockSteps :
          \E T \in FreeRound(c[1], Later(a, c[2] + d)) : x = <<T, c[2] + d>>
    BY AgainElement
  <2>2. c[1] \in SUBSET Bags /\ c[2] \in Nat /\ d \in Nat BY Ticks
  <2>3. FreeRound(c[1], Later(a, c[2] + d)) \subseteq SUBSET Bags BY <2>2 DEF FreeRound
  <2> QED BY <2>1, <2>2, <2>3
<1>3. Start \in Stage OBVIOUS
<1>4. after = Course(S, a) BY DEF Course
<1>5. \A x : x \in LoopEnds(S, a) <=> \E k \in 0..N : x \in Done(a, after[k])
  <2> HIDE DEF after
  <2> QED BY <1>4 DEF LoopEnds
<1> HIDE DEF Stage, N, Start
<1>6. \E f : f = Body(f)
  <2>1. PICK f \in [0..N -> Stage] :
          f[0] = Start /\ \A k \in 1..N : f[k] = step[k][f[k - 1]]
    <3>1. step \in [1..N -> [Stage -> Stage]] BY <1>2
    <3> HIDE DEF step
    <3> QED BY <1>1, <1>3, <3>1, RecursionOnNat
  <2>2. \A k \in 0..N : k # 0 => k \in 1..N /\ k - 1 \in 0..N BY <1>1
  <2>3. \A k \in 0..N : k # 0 => f[k] = Again(a, f[k - 1]) BY <2>1, <2>2
  <2>4. f = Body(f) BY <2>1, <2>3
  <2> QED BY <2>4
<1>7. after = Body(after) BY <1>6
<1> HIDE DEF after
<1>8. after[0] = Start /\ \A k \in 1..N : after[k] = Again(a, after[k - 1])
  BY <1>1, <1>7
<1> QED BY <1>4, <1>5, <1>8 DEF N, Start

(* Whatever the loop leaves, Freed allows. *)
LEMMA LoopIsSound ==
  ASSUME NEW a \in [Bags -> Nat], NEW S \in SUBSET Bags, NEW e \in LoopEnds(S, a)
  PROVE  /\ e[2] \in Nat
         /\ e[1] \in Kept(S, a, e[2])
         /\ 0 \notin ClockSteps => e[2] > 0
<1> DEFINE N == Cardinality(S)
<1>1. PICK f : /\ f[0] = {<<S, 0>>}
               /\ \A k \in 1..N : f[k] = Again(a, f[k - 1])
               /\ \A x : x \in LoopEnds(S, a) <=> \E k \in 0..N : x \in Done(a, f[k])
  BY LoopCourse
<1> DEFINE I == {k \in Nat : k <= N => \A c \in f[k] : Progressed(S, a, c[1], c[2])}
<1>2. N \in Nat BY FiniteCounts
<1> HIDE DEF N
<1>3. 0 \in I
  <2>1. Evictable({}, S, Later(a, 0)) BY DEF Evictable
  <2>2. <<S, 0>>[1] = S /\ <<S, 0>>[2] = 0 /\ S \ {} = S /\ {} \in SUBSET S OBVIOUS
  <2>3. Progressed(S, a, S, 0) BY <2>1, <2>2 DEF Progressed
  <2>4. \A c \in f[0] : c = <<S, 0>> BY <1>1
  <2> QED BY <2>2, <2>3, <2>4
<1>4. ASSUME NEW k \in Nat, k \in I PROVE k + 1 \in I
  <2> SUFFICES ASSUME k + 1 <= N, NEW c \in f[k + 1] PROVE Progressed(S, a, c[1], c[2])
    OBVIOUS
  <2>1. k + 1 \in 1..N /\ k <= N /\ (k + 1) - 1 = k BY <1>2
  <2>2. c \in Again(a, f[k]) BY <1>1, <2>1
  <2>3. PICK b \in f[k], d \in ClockSteps :
          \E T \in FreeRound(b[1], Later(a, b[2] + d)) : c = <<T, b[2] + d>>
    BY <2>2, AgainElement
  <2>4. Progressed(S, a, b[1], b[2]) BY <1>4, <2>1
  <2>5. PICK T \in FreeRound(b[1], Later(a, b[2] + d)) : c = <<T, b[2] + d>> BY <2>3
  <2>6. c[1] = T /\ c[2] = b[2] + d BY <2>5
  <2> QED BY <2>4, <2>6, RoundProgresses
<1> HIDE DEF I
<1>5. \A k \in Nat : k \in I BY <1>3, <1>4, NatSetInduction
<1>6. PICK k \in 0..N : e \in Done(a, f[k]) BY <1>1
<1>7. PICK c \in f[k], d \in ClockSteps :
        FreeRound(c[1], Later(a, c[2] + d)) = {} /\ e = <<c[1], c[2] + d>>
  BY <1>6, DoneElement
<1>8. Progressed(S, a, c[1], c[2]) BY <1>2, <1>5, <1>6 DEF I
<1>9. e[1] = c[1] /\ e[2] = c[2] + d BY <1>7
<1>10. c[2] + d \in Nat /\ c[1] \in Kept(S, a, c[2] + d) BY <1>7, <1>8, EndIsFreed
<1>11. 0 \notin ClockSteps => c[2] + d > 0 BY <1>8, <1>10, CacheAssumption DEF Progressed
<1> QED BY <1>9, <1>10, <1>11

(* Every round takes one entry out, so the rounds are no more than the     *)
(* entries.                                                                *)
LEMMA LoopMustStop ==
  ASSUME NEW a \in [Bags -> Nat], NEW S \in SUBSET Bags
  PROVE  LoopStops(S, a)
<1> DEFINE N == Cardinality(S)
<1>1. PICK f : /\ f = Course(S, a)
               /\ f[0] = {<<S, 0>>}
               /\ \A k \in 1..N : f[k] = Again(a, f[k - 1])
  BY LoopCourse
<1> DEFINE I == {k \in Nat : k <= N => \A c \in f[k] :
                               c[1] \in SUBSET S /\ Cardinality(c[1]) = N - k}
<1>2. N \in Nat BY FiniteCounts
<1>3. 0 \in I
  <2>1. \A c \in f[0] : c[1] = S BY <1>1
  <2>2. N - 0 = N BY <1>2
  <2> QED BY <2>1, <2>2
<1> HIDE DEF N
<1>4. ASSUME NEW k \in Nat, k \in I PROVE k + 1 \in I
  <2> SUFFICES ASSUME k + 1 <= N, NEW c \in f[k + 1]
               PROVE  c[1] \in SUBSET S /\ Cardinality(c[1]) = N - (k + 1)
    OBVIOUS
  <2>1. k + 1 \in 1..N /\ k <= N /\ (k + 1) - 1 = k BY <1>2
  <2>2. c \in Again(a, f[k]) BY <1>1, <2>1
  <2>3. PICK b \in f[k], d \in ClockSteps :
          \E T \in FreeRound(b[1], Later(a, b[2] + d)) : c = <<T, b[2] + d>>
    BY <2>2, AgainElement
  <2>4. b[1] \in SUBSET S /\ Cardinality(b[1]) = N - k BY <1>4, <2>1
  <2>5. PICK v \in b[1] : c[1] = b[1] \ {v} BY <2>3 DEF FreeRound
  <2>6. Cardinality(b[1] \ {v}) = Cardinality(b[1]) - 1 BY <2>4, <2>5, OneLess
  <2> QED BY <1>2, <2>4, <2>5, <2>6
<1> HIDE DEF I
<1>5. \A k \in Nat : k \in I BY <1>3, <1>4, NatSetInduction
<1>6. \A c \in f[N] : Cardinality(c[1]) = 0 BY <1>2, <1>5 DEF I
<1>7. \A c \in f[N] : \A n : FreeRound(c[1], n) = {}
  BY <1>6, CacheAssumption DEF FreeRound
<1>8. Again(a, f[N]) = {} BY <1>7, AgainElement
<1> QED BY <1>1, <1>8 DEF LoopStops, N

(* The loop may leave whatever Freed allows: it can take the entries out   *)
(* by age, while the clock stands still or ticks at every round.           *)
LEMMA LoopIsComplete ==
  ASSUME NEW a \in [Bags -> Nat], NEW S \in SUBSET Bags, NEW t \in ClockSteps,
         NEW R \in Kept(S, a, t)
  PROVE  \E e \in LoopEnds(S, a) : e[1] = R /\ e[2] \in Nat /\ (e[2] = 0 <=> t = 0)
<1> DEFINE N == Cardinality(S)
<1>1. PICK f : /\ f[0] = {<<S, 0>>}
               /\ \A k \in 1..N : f[k] = Again(a, f[k - 1])
               /\ \A x : x \in LoopEnds(S, a) <=> \E k \in 0..N : x \in Done(a, f[k])
  BY LoopCourse
<1>2. PICK V \in SUBSET S : R = S \ V /\ Freed(V, S, Later(a, t)) BY DEF Kept
<1> DEFINE M == Cardinality(V)
           Reached(k, W, m) ==
             /\ W \in SUBSET V /\ Cardinality(W) = k
             /\ m \in Nat /\ (t = 0 => m = 0)
             /\ <<S \ W, m>> \in f[k]
           I == {k \in Nat : k <= M => \E W, m : Reached(k, W, m)}
<1>3. N \in Nat /\ M \in Nat /\ M <= N /\ t \in Nat BY FiniteCounts, FS_Subset, Ticks
<1> HIDE DEF N
<1>4. Later(a, t) \in [Bags -> Nat] BY <1>3, LaterType
<1>5. 0 \in I
  <2>1. Reached(0, {}, 0) BY <1>1, FS_EmptySet
  <2> HIDE DEF Reached
  <2> QED BY <2>1
<1>6. ASSUME NEW k \in Nat, k \in I PROVE k + 1 \in I
  <2> SUFFICES ASSUME k + 1 <= M PROVE \E W, m : Reached(k + 1, W, m)
    <3> HIDE DEF Reached, M
    <3> QED BY DEF I
  <2>0. \E W, m : Reached(k, W, m)
    <3> HIDE DEF Reached
    <3> QED BY <1>3, <1>6
  <2>1. PICK W, m : Reached(k, W, m) BY <2>0
  <2>2. V \ W # {}
    <3>1. Cardinality(W) # Cardinality(V) BY <1>3, <2>1
    <3> QED BY <2>1, <3>1
  <2>3. PICK v \in V \ W : \A y \in V \ W : a[y] <= a[v]
    BY <2>2, OldestExists
  <2> DEFINE n == m + t
             T == (S \ W) \ {v}
  <2>4. n \in Nat /\ (t = 0 => n = 0) BY <1>3, <2>1
  <2>5. Later(a, n)[v] > 0 /\ \A y \in S \ W : Later(a, n)[y] <= Later(a, n)[v]
    <3>1. \A x \in S : /\ Later(a, n)[x] = a[x] + n /\ Later(a, t)[x] = a[x] + t
                       /\ a[x] \in Nat
      BY <1>3, <2>4, LaterType
    <3>2. Later(a, t)[v] > 0 /\ \A y \in S \ V : Later(a, t)[y] <= Later(a, t)[v]
      BY <1>2, <2>3 DEF Freed, Evictable
    <3>3. a[v] + t > 0 /\ \A y \in S \ V : a[y] <= a[v] BY <1>3, <3>1, <3>2
    <3>4. a[v] + n > 0 BY <1>3, <2>1, <3>1, <3>3
    <3>5. \A y \in S \ W : a[y] <= a[v] BY <2>3, <3>3
    <3> HIDE DEF n
    <3> QED BY <2>4, <3>1, <3>4, <3>5
  <2>6. Cardinality(S \ W) > MaxCacheEntries
    <3>1. Cardinality(S \ V) >= MaxCacheEntries BY <1>2, <2>3 DEF Freed
    <3>2. Cardinality(S \ V) < Cardinality(S \ W) BY <2>1, <2>3, StrictlyFewer
    <3> QED BY <3>1, <3>2, FiniteCounts, CacheAssumption
  <2>7. T \in FreeRound(S \ W, Later(a, n)) BY <2>1, <2>3, <2>5, <2>6 DEF FreeRound
  <2>8. <<T, n>> \in f[k + 1]
    <3>1. k + 1 \in 1..N /\ (k + 1) - 1 = k BY <1>3
    <3>2. f[k + 1] = Again(a, f[k]) BY <1>1, <3>1
    <3> DEFINE c == <<S \ W, m>>
    <3>3. c \in f[k] /\ c[1] = S \ W /\ c[2] = m BY <2>1
    <3> HIDE DEF c, T
    <3>4. <<T, n>> \in Again(a, f[k]) BY <2>7, <3>3, AgainElement
    <3> QED BY <3>2, <3>4
  <2>9. W \cup {v} \in SUBSET V /\ Cardinality(W \cup {v}) = k + 1
    <3>1. W \in SUBSET V /\ Cardinality(W) = k /\ v \notin W BY <2>1
    <3>2. IsFiniteSet(W) BY <3>1, FiniteCounts
    <3> QED BY <3>1, <3>2, FS_AddElement
  <2>10. T = S \ (W \cup {v}) OBVIOUS
  <2>11. Reached(k + 1, W \cup {v}, n) BY <2>4, <2>8, <2>9, <2>10
  <2> HIDE DEF Reached
  <2> QED BY <2>11
<1> HIDE DEF I
<1>7. \A k \in Nat : k \in I BY <1>5, <1>6, NatSetInduction
<1>8. \E W, m : Reached(M, W, m)
  <2> HIDE DEF Reached
  <2> QED BY <1>3, <1>7 DEF I
<1>9. PICK W, m : Reached(M, W, m) BY <1>8
<1>10. W = V BY <1>9, FS_Subset, FiniteCounts
<1>11. m + t \in Nat /\ (m + t = 0 <=> t = 0) /\ m \in Nat BY <1>3, <1>9
<1>12. FreeRound(S \ V, Later(a, m + t)) = {}
  <2>1. CASE Cardinality(S \ V) <= MaxCacheEntries
    BY <2>1, FiniteCounts, CacheAssumption DEF FreeRound
  <2>2. CASE \A k \in S \ V : Later(a, t)[k] = 0
    <3>1. \A k \in S \ V : Later(a, t)[k] = a[k] + t /\ a[k] \in Nat BY <1>3, LaterType
    <3>2. \A k \in S \ V : a[k] = 0 /\ t = 0 BY <1>3, <2>2, <3>1
    <3>3. \A k \in S \ V : Later(a, m + t)[k] = 0 BY <1>9, <1>11, <3>2, LaterType
    <3> QED BY <3>3 DEF FreeRound
  <2> QED BY <1>2, <2>1, <2>2 DEF Freed
<1>13. <<R, m + t>> \in LoopEnds(S, a)
  <2> DEFINE c == <<S \ V, m>>
  <2>1. c \in f[M] /\ c[1] = R /\ c[2] = m BY <1>2, <1>9, <1>10
  <2> HIDE DEF c
  <2>2. <<R, m + t>> \in Done(a, f[M]) BY <1>2, <1>12, <2>1, DoneElement
  <2> QED BY <1>1, <1>3, <2>2
<1> QED BY <1>11, <1>13

(* What freeUnsafe, called until it returns false, may leave of any        *)
(* entries with any stamps is what Freed says: however many rounds it      *)
(* takes, and however the clock ticks between them.  And it stops.         *)
THEOREM LoopIsFreed ==
  ASSUME NEW a \in [Bags -> Nat], NEW S \in SUBSET Bags
  PROVE  LET ends == LoopEnds(S, a)
         IN /\ LoopStops(S, a)
            /\ {e[1] : e \in {f \in ends : f[2] = 0}}
                 = (IF 0 \in ClockSteps THEN Kept(S, a, 0) ELSE {})
            /\ {e[1] : e \in {f \in ends : f[2] > 0}} = Kept(S, a, 1)
<1> DEFINE ends == LoopEnds(S, a)
<1>1. \A e \in ends : /\ e[2] \in Nat /\ e[1] \in Kept(S, a, e[2])
                      /\ e[2] > 0 => e[1] \in Kept(S, a, 1)
                      /\ 0 \notin ClockSteps => e[2] > 0
  BY LoopIsSound, TicksAlike
<1>2. \A t \in ClockSteps : \A R \in Kept(S, a, t) :
        \E e \in ends : e[1] = R /\ e[2] \in Nat /\ (e[2] = 0 <=> t = 0)
  BY LoopIsComplete
<1> HIDE DEF ends
<1>3. 1 \in ClockSteps BY CacheAssumption
<1>4. {e[1] : e \in {f \in ends : f[2] > 0}} = Kept(S, a, 1)
  <2>1. ASSUME NEW R \in Kept(S, a, 1) PROVE R \in {e[1] : e \in {f \in ends : f[2] > 0}}
    <3>1. PICK e \in ends : e[1] = R /\ e[2] \in Nat /\ (e[2] = 0 <=> 1 = 0) BY <1>2, <1>3
    <3>2. e[2] > 0 BY <3>1
    <3> QED BY <3>1, <3>2
  <2> QED BY <1>1, <2>1
<1>5. {e[1] : e \in {f \in ends : f[2] = 0}}
        = (IF 0 \in ClockSteps THEN Kept(S, a, 0) ELSE {})
  <2>1. CASE 0 \in ClockSteps
    <3>1. ASSUME NEW R \in Kept(S, a, 0) PROVE R \in {e[1] : e \in {f \in ends : f[2] = 0}}
      BY <1>2, <2>1
    <3>2. ASSUME NEW e \in ends, e[2] = 0 PROVE e[1] \in Kept(S, a, 0) BY <1>1, <3>2
    <3> QED BY <2>1, <3>1, <3>2
  <2>2. CASE 0 \notin ClockSteps BY <1>1, <2>2
  <2> QED BY <2>1, <2>2
<1> QED BY <1>4, <1>5, LoopMustStop DEF ends

-----------------------------------------------------------------------------
(* The types of the cache by itself. *)
LEMMA CacheTypeInit == SpecInit => CacheTypeOK
BY DEF SpecInit, CacheInit, CacheTypeOK

LEMMA CacheTypeStep == CacheTypeOK /\ [CacheNext]_specVars => CacheTypeOK'
<1> SUFFICES ASSUME CacheTypeOK, [CacheNext]_specVars PROVE CacheTypeOK' OBVIOUS
<1>1. CASE UNCHANGED specVars BY <1>1 DEF specVars, CacheTypeOK
<1>2. ASSUME NEW b \in Bags, GetHit(b) PROVE CacheTypeOK' BY <1>2, GetHitEffect
<1>3. ASSUME NEW t \in Torrents, Open(t) PROVE CacheTypeOK' BY <1>3 DEF Open, CacheTypeOK
<1>4. ASSUME NEW b \in Bags, NEW t \in Torrents, Set(b, t) PROVE CacheTypeOK'
  BY <1>4, SetEffect
<1>5. CASE Clear BY <1>5 DEF Clear, CacheTypeOK
<1> QED BY <1>1, <1>2, <1>3, <1>4, <1>5 DEF CacheNext

(* The variables of the cache keep their types (Get, Set, Clear). *)
THEOREM CacheTyped == CacheSpec => []CacheTypeOK
BY CacheTypeInit, CacheTypeStep, PTL DEF CacheSpec

(* The cache removes what the loop over freeUnsafe removes, from whatever  *)
(* cache it starts, and the loop stops.                                    *)
THEOREM FreedIsAlwaysTheLoop == CacheSpec => []FreedIsTheLoop
<1>1. CacheTypeOK => FreedIsTheLoop
  <2> SUFFICES ASSUME CacheTypeOK, NEW b \in Bags, NEW d \in ClockSteps
               PROVE  LET S == Cached \cup {b}
                          a == [x \in Bags |-> IF x \in Cached \ {b} THEN age[x] + d ELSE 0]
                          ends == LoopEnds(S, a)
                      IN /\ LoopStops(S, a)
                         /\ {e[1] : e \in {f \in ends : f[2] = 0}}
                              = (IF 0 \in ClockSteps THEN Kept(S, a, 0) ELSE {})
                         /\ {e[1] : e \in {f \in ends : f[2] > 0}} = Kept(S, a, 1)
    BY DEF FreedIsTheLoop
  <2> DEFINE S == Cached \cup {b}
             a == [x \in Bags |-> IF x \in Cached \ {b} THEN age[x] + d ELSE 0]
  <2>1. S \in SUBSET Bags BY DEF Cached
  <2>2. a \in [Bags -> Nat] BY Ticks DEF CacheTypeOK
  <2> HIDE DEF S, a
  <2>3. LET ends == LoopEnds(S, a)
        IN /\ LoopStops(S, a)
           /\ {e[1] : e \in {f \in ends : f[2] = 0}}
                = (IF 0 \in ClockSteps THEN Kept(S, a, 0) ELSE {})
           /\ {e[1] : e \in {f \in ends : f[2] > 0}} = Kept(S, a, 1)
    BY <2>1, <2>2, LoopIsFreed
  <2> QED BY <2>3 DEF S, a
<1> QED BY <1>1, CacheTyped, PTL

-----------------------------------------------------------------------------
(* Renumbering the ages keeps their order. *)
LEMMA RankedOrder ==
  ASSUME NEW a \in [Bags -> Nat], NEW x \in Bags, NEW y \in Bags
  PROVE  Ranked(a)[x] < Ranked(a)[y] <=> a[x] < a[y]
<1> DEFINE Upto(z) == {w \in Bags : 0 < a[w] /\ a[w] <= a[z]}
<1>1. Ranked(a)[x] = Cardinality(Upto(x)) /\ Ranked(a)[y] = Cardinality(Upto(y))
  BY DEF Ranked
<1>2. \A z \in Bags : Upto(z) \in SUBSET Bags /\ Cardinality(Upto(z)) \in Nat
  BY FiniteCounts
<1>3. \A z \in Bags : a[z] \in Nat OBVIOUS
<1>4. CASE a[x] < a[y]
  <2>1. Upto(x) \in SUBSET Upto(y) /\ y \in Upto(y) /\ y \notin Upto(x) BY <1>3, <1>4
  <2>2. Cardinality(Upto(x)) < Cardinality(Upto(y))
    <3> HIDE DEF Upto
    <3> QED BY <1>2, <2>1, StrictlyFewer
  <2> QED BY <1>1, <1>4, <2>2
<1>5. CASE a[y] <= a[x]
  <2>1. Upto(y) \in SUBSET Upto(x) BY <1>3, <1>5
  <2>2. Cardinality(Upto(y)) <= Cardinality(Upto(x))
    <3> HIDE DEF Upto
    <3> QED BY <1>2, <2>1, FS_Subset, FiniteCounts
  <2> HIDE DEF Upto
  <2>3. ~(Cardinality(Upto(x)) < Cardinality(Upto(y))) BY <1>2, <2>2
  <2>4. ~(a[x] < a[y]) BY <1>3, <1>5
  <2> QED BY <1>1, <2>3, <2>4
<1> QED BY <1>3, <1>4, <1>5

(* Pairs of entries of H ordered by the ages a. *)
Order(H, a) == {e \in H \X H : a[e[1]] < a[e[2]]}

(* What is in such an order, *)
LEMMA OrderElement ==
  ASSUME NEW H, NEW a
  PROVE  \A x, y : <<x, y>> \in Order(H, a) <=> x \in H /\ y \in H /\ a[x] < a[y]
BY DEF Order

(* that the refinement mapping is one, *)
LEMMA NewerIsOrder == Newer = Order(Cached, age)
BY DEF Newer, Order

(* that ages and their ranks have the same, *)
LEMMA RankedSameOrder ==
  ASSUME NEW a \in [Bags -> Nat], NEW H \in SUBSET Bags
  PROVE  Order(H, Ranked(a)) = Order(H, a)
BY RankedOrder DEF Order

(* and when two of them are equal. *)
LEMMA SamePairs ==
  ASSUME NEW H, NEW P \in SUBSET (H \X H), NEW Q \in SUBSET (H \X H),
         \A x, y : <<x, y>> \in P <=> <<x, y>> \in Q
  PROVE  P = Q
OBVIOUS

(* The order after b was used: b is younger than all other entries, or, if *)
(* the clock stood still, than all but the youngest of them.               *)
LEMMA UseTouches ==
  ASSUME CacheTypeOK, NEW b \in Bags, NEW a \in [Bags -> Nat], NEW d \in ClockSteps,
         NEW s \in Nat,
         a[b] = s, \A x \in Cached \ {b} : a[x] = age[x] + d + s
  PROVE  Order(Cached \cup {b}, a) \in Lru!Touched(b)
<1> DEFINE rest == Cached \ {b}
           O == Order(Cached \cup {b}, a)
<1>1. Cached \subseteq Bags /\ rest \subseteq Bags BY DEF Cached
<1>2. d \in Nat /\ s \in Nat /\ (d = 0 \/ d = 1) /\ \A x \in Bags : age[x] \in Nat /\ a[x] \in Nat
  BY CacheAssumption DEF CacheTypeOK
<1>3. \A x, y \in rest : <<x, y>> \in O <=> <<x, y>> \in Newer
  <2> SUFFICES ASSUME NEW x \in rest, NEW y \in rest
               PROVE  <<x, y>> \in O <=> <<x, y>> \in Newer
    OBVIOUS
  <2>1. <<x, y>> \in O <=> a[x] < a[y] BY OrderElement
  <2>2. <<x, y>> \in Newer <=> age[x] < age[y] BY OrderElement, NewerIsOrder
  <2>3. age[x] \in Nat /\ age[y] \in Nat /\ a[x] = age[x] + d + s /\ a[y] = age[y] + d + s
    BY <1>1, <1>2
  <2>4. a[x] < a[y] <=> age[x] < age[y] BY <1>2, <2>3
  <2> QED BY <2>1, <2>2, <2>4
<1>4. \A x \in rest : <<x, b>> \notin O
  BY <1>1, <1>2, OrderElement
<1>5. <<b, b>> \notin O BY <1>2, OrderElement
<1>6. \A x \in rest : <<b, x>> \in O <=> age[x] + d > 0
  BY <1>1, <1>2, OrderElement
<1>7. O \subseteq (Cached \cup {b}) \X (Cached \cup {b}) BY DEF Order
<1>8. ASSUME NEW older \in SUBSET rest, \A x \in rest : x \in older <=> age[x] + d > 0
      PROVE  O = (Newer \cap (rest \X rest)) \cup ({b} \X older)
  <2> HIDE DEF O
  <2>1. \A x, y : <<x, y>> \in O <=> <<x, y>> \in (Newer \cap (rest \X rest)) \cup ({b} \X older)
    BY <1>3, <1>4, <1>5, <1>6, <1>7, <1>8
  <2>2. (Newer \cap (rest \X rest)) \cup ({b} \X older)
          \subseteq (Cached \cup {b}) \X (Cached \cup {b})
    BY DEF Newer
  <2> DEFINE H == Cached \cup {b}
             Q == (Newer \cap (rest \X rest)) \cup ({b} \X older)
  <2> HIDE DEF H, Q
  <2>3. O \in SUBSET (H \X H) /\ Q \in SUBSET (H \X H) BY <1>7, <2>2 DEF H, Q
  <2>4. \A x, y : <<x, y>> \in O <=> <<x, y>> \in Q BY <2>1 DEF Q
  <2>5. O = Q BY <2>3, <2>4, SamePairs
  <2> QED BY <2>5 DEF Q
<1>9. CASE \A x \in rest : age[x] + d > 0
  BY <1>8, <1>9 DEF Lru!Touched
<1>10. CASE ~ \A x \in rest : age[x] + d > 0
  <2>1. PICK z \in rest : age[z] + d = 0 BY <1>1, <1>2, <1>10
  <2>2. d = 0 /\ age[z] = 0 BY <1>1, <1>2, <2>1
  <2>3. \A x \in Cached : x \in Lru!Newest <=> age[x] = 0
    <3>1. \A x, y \in Cached : <<x, y>> \in Newer <=> age[x] < age[y]
      BY DEF Newer
    <3>2. z \in Cached /\ \A x \in Cached : age[x] \in Nat BY <1>1, <1>2
    <3>3. \A x \in Cached : (\A y \in Cached : ~(age[y] < age[x])) <=> age[x] = 0
      BY <2>2, <3>2
    <3>4. \A x \in Cached : x \in Lru!Newest <=> \A y \in Cached : <<y, x>> \notin Newer
      BY DEF Lru!Newest
    <3> QED BY <3>1, <3>3, <3>4
  <2>4. \A x \in rest : x \in rest \ Lru!Newest <=> age[x] + d > 0
    BY <1>1, <1>2, <2>2, <2>3
  <2>5. O = (Newer \cap (rest \X rest)) \cup ({b} \X (rest \ Lru!Newest))
    BY <1>8, <2>4
  <2> QED BY <2>5 DEF Lru!Touched
<1> QED BY <1>9, <1>10

(* A Get that finds its bag uses it. *)
LEMMA GetHitUses ==
  ASSUME CacheTypeOK, NEW b \in Bags, GetHit(b), used' = b
  PROVE  Lru!Use(b)
<1>1. b \in Cached /\ cache' = cache /\ Cached' = Cached BY DEF GetHit, Cached
<1>2. PICK d \in ClockSteps :
        age' = Ranked([x \in Bags |-> IF x \in Cached \ {b} THEN age[x] + d ELSE 0])
  BY DEF GetHit
<1> DEFINE a == [x \in Bags |-> IF x \in Cached \ {b} THEN age[x] + d ELSE 0]
<1>3. a \in [Bags -> Nat] BY Ticks DEF CacheTypeOK
<1>4. Newer' = Order(Cached, a)
  <2> HIDE DEF a
  <2>1. Newer' = Order(Cached, age') BY <1>1 DEF Newer, Order
  <2>2. Cached \in SUBSET Bags BY DEF Cached
  <2> QED BY <1>2, <1>3, <2>1, <2>2, RankedSameOrder DEF a
<1>5. Order(Cached, a) \in Lru!Touched(b)
  <2>1. a[b] = 0 /\ \A x \in Cached \ {b} : a[x] = age[x] + d + 0
    BY Ticks DEF Cached, CacheTypeOK
  <2>2. Cached \cup {b} = Cached BY <1>1
  <2> HIDE DEF a
  <2> QED BY <1>3, <2>1, <2>2, UseTouches
<1> QED BY <1>1, <1>4, <1>5 DEF Lru!Use

(* A Set stores its bag and gives up the oldest. *)
LEMMA SetStores ==
  ASSUME CacheTypeOK, NEW b \in Bags, NEW t \in Torrents, Set(b, t), used' = b
  PROVE  Lru!Store(b)
<1> DEFINE have == Cached \cup {b}
           stored == [cache EXCEPT ![b] = t]
           Aged(d1, d2) == [x \in Bags |-> IF x = b THEN d2
                                           ELSE IF x \in Cached THEN age[x] + d1 + d2 ELSE 0]
<1>1. PICK d1 \in ClockSteps, d2 \in ClockSteps, V \in SUBSET Bags :
        /\ Freed(V, have, Aged(d1, d2))
        /\ cache' = Without(stored, V)
        /\ age' = Ranked([x \in Bags |-> IF x \in V THEN 0 ELSE Aged(d1, d2)[x]])
  BY DEF Set
<1> DEFINE a == Aged(d1, d2)
           kept == have \ V
           order == Order(have, a)
           left == [x \in Bags |-> IF x \in V THEN 0 ELSE a[x]]
<1>2. /\ a \in [Bags -> Nat] /\ d2 \in Nat
      /\ a[b] = d2 /\ \A x \in Cached \ {b} : a[x] = age[x] + d1 + d2
  BY Ticks DEF CacheTypeOK, Cached
<1>3. have \subseteq Bags /\ V \subseteq have /\ kept \in SUBSET have /\ have \ kept = V
  BY <1>1 DEF Cached, Freed, Evictable
<1>4. /\ \A v \in V : a[v] > 0 /\ \A k \in kept : a[k] <= a[v]
      /\ V # {} => Cardinality(kept) >= MaxCacheEntries
      /\ Cardinality(kept) <= MaxCacheEntries \/ \A k \in kept : a[k] = 0
  BY <1>1 DEF Freed, Evictable
<1>5. Cached' = kept
  <2>1. stored \in [Bags -> Torrents \cup {NoTorrent}] /\ stored[b] = t
        /\ \A x \in Bags \ {b} : stored[x] = cache[x]
    BY DEF CacheTypeOK
  <2> HIDE DEF stored
  <2>2. \A x \in Bags : cache'[x] # NoTorrent <=> x \in kept
    BY <1>1, <2>1, CacheAssumption DEF Without, Cached
  <2> QED BY <1>3, <2>2 DEF Cached
<1>6. left \in [Bags -> Nat] /\ \A x \in kept : left[x] = a[x]
  BY <1>2, <1>3
<1> HIDE DEF Aged, a, stored
<1>7. Newer' = order \cap (kept \X kept)
  <2> HIDE DEF left, have
  <2>1. Newer' = Order(kept, Ranked(left)) BY <1>1, <1>5 DEF Newer, Order, left, a
  <2>2. Order(kept, Ranked(left)) = Order(kept, left) BY <1>3, <1>6, RankedSameOrder
  <2>3. Order(kept, left) = order \cap (kept \X kept)
    <3> HIDE DEF kept
    <3>1. \A x, y : <<x, y>> \in Order(kept, left) <=> x \in kept /\ y \in kept /\ a[x] < a[y]
      <4>1. \A x, y : <<x, y>> \in Order(kept, left)
                        <=> x \in kept /\ y \in kept /\ left[x] < left[y]
        BY OrderElement
      <4> QED BY <1>6, <4>1
    <3>2. \A x, y : <<x, y>> \in order \cap (kept \X kept)
                      <=> x \in kept /\ y \in kept /\ a[x] < a[y]
      BY <1>3, OrderElement
    <3>3. Order(kept, left) \in SUBSET (kept \X kept) BY DEF Order
    <3>4. order \cap (kept \X kept) \in SUBSET (kept \X kept) OBVIOUS
    <3> HIDE DEF order
    <3>5. \A x, y : <<x, y>> \in Order(kept, left) <=> <<x, y>> \in order \cap (kept \X kept)
      BY <3>1, <3>2
    <3> QED BY <3>3, <3>4, <3>5, SamePairs
  <2> QED BY <2>1, <2>2, <2>3
<1>8. order \in Lru!Touched(b) BY <1>2, UseTouches
<1>9. \A v \in V, x \in kept : <<v, x>> \notin order
  <2>1. \A v \in V, x \in kept : a[v] \in Nat /\ a[x] \in Nat /\ a[x] <= a[v] BY <1>2, <1>3, <1>4
  <2>2. \A v \in V, x \in kept : ~(a[v] < a[x]) BY <2>1
  <2> QED BY <2>2, OrderElement
<1>10. \/ Cardinality(kept) <= MaxCacheEntries
       \/ \A x \in kept : /\ \A y \in kept : <<x, y>> \notin order
                          /\ \A v \in V : <<x, v>> \in order
  <2> SUFFICES ASSUME \A k \in kept : a[k] = 0, NEW x \in kept
               PROVE  /\ \A y \in kept : <<x, y>> \notin order
                      /\ \A v \in V : <<x, v>> \in order
    BY <1>4
  <2>1. \A y \in kept : ~(a[x] < a[y]) OBVIOUS
  <2>2. \A v \in V : a[x] < a[v] /\ v \in have /\ x \in have BY <1>3, <1>4
  <2> QED BY <2>1, <2>2, OrderElement
<1>11. \A S : Lru!Cardinality(S) = Cardinality(S)
  BY DEF Lru!Cardinality, Cardinality
<1> HIDE DEF order, kept, have
<1>12. /\ \A v \in have \ kept, x \in kept : <<v, x>> \notin order
       /\ have \ kept # {} => Lru!Cardinality(kept) >= MaxCacheEntries
       /\ \/ Lru!Cardinality(kept) <= MaxCacheEntries
          \/ \A x \in kept : /\ \A y \in kept : <<x, y>> \notin order
                             /\ \A v \in have \ kept : <<x, v>> \in order
       /\ Cached' = kept
       /\ Newer' = order \cap (kept \X kept)
  BY <1>3, <1>4, <1>5, <1>7, <1>9, <1>10, <1>11
<1> QED BY <1>3, <1>8, <1>12 DEF Lru!Store, have

(* The cache starts as an LRU order does, and takes its steps. *)
LEMMA LruInitial == SpecInit => Lru!LruInit
BY CacheAssumption DEF SpecInit, CacheInit, Lru!LruInit, Newer, Cached

LEMMA LruStep == ASSUME CacheTypeOK, [CacheNext]_specVars PROVE [Lru!LruNext]_(Lru!lruVars)
<1>1. CASE UNCHANGED specVars
  BY <1>1 DEF specVars, Lru!lruVars, Newer, Cached
<1>2. ASSUME NEW b \in Bags, GetHit(b), used' = b PROVE Lru!LruNext
  BY <1>2, GetHitUses DEF Lru!LruNext
<1>3. ASSUME NEW t \in Torrents, Open(t) PROVE UNCHANGED Lru!lruVars
  BY <1>3 DEF Open, Lru!lruVars, Newer, Cached
<1>4. ASSUME NEW b \in Bags, NEW t \in Torrents, Set(b, t), used' = b PROVE Lru!LruNext
  BY <1>4, SetStores DEF Lru!LruNext
<1>5. CASE Clear /\ used' = NoBag
  BY <1>5, CacheAssumption DEF Clear, Lru!LruNext, Lru!Forget, Newer, Cached
<1> QED BY <1>1, <1>2, <1>3, <1>4, <1>5 DEF CacheNext

(* The cache of opened bags implements the LRU order, with ties for the    *)
(* bags of one instant of the clock (Get, Set, freeUnsafe, Clear).         *)
THEOREM CacheImplementsLru == CacheSpec => ImplementsLru
<1>1. SpecInit => Lru!LruInit BY LruInitial
<1>2. CacheTypeOK /\ [CacheNext]_specVars => [Lru!LruNext]_(Lru!lruVars) BY LruStep
<1> QED BY <1>1, <1>2, CacheTyped, PTL DEF CacheSpec, ImplementsLru, Lru!LruSpec

-----------------------------------------------------------------------------
(* Nobody can reach a running torrent that is not accounted for. *)
NothingLost ==
  \A t \in Torrents : run[t] = "running" =>
    \/ IsCached(t)
    \/ \E p \in Procs : lock[tbag[t]] = p /\ held[p] = t

(* The second half of RunningAccounted follows from the rest of ClientInv. *)
LEMMA OneTorrentPerBag ==
  ASSUME TypeOK, LockInv, HeldInv, BuildingInv, CachedIsLive, HandedOutIsUsable,
         NothingLost
  PROVE  RunningAccounted
<1>1. SUFFICES ASSUME NEW t \in Torrents, NEW u \in Torrents,
                      run[t] = "running", run[u] = "running", tbag[t] = tbag[u]
               PROVE  t = u
      BY DEF RunningAccounted, NothingLost
<1> DEFINE b == tbag[t]
<1>2. ASSUME NEW x \in Torrents, IsCached(x), tbag[x] = b
      PROVE  b \in Bags /\ cache[b] = x
  <2>1. PICK c \in Bags : cache[c] = x
        BY <1>2 DEF IsCached
  <2>2. c \in Cached
        BY <2>1, CacheAssumption DEF Cached
  <2> QED  BY <1>2, <2>1, <2>2 DEF CachedIsLive
<1>3. \A x \in Torrents, p \in Procs :
        /\ run[x] = "running" /\ tbag[x] = b
        /\ lock[b] = p /\ held[p] = x
        => \/ pc[p] \in Building /\ b \in Bags /\ b \notin Cached /\ bag[p] = b
           \/ b \in Bags /\ cache[b] = x
  <2> SUFFICES ASSUME NEW x \in Torrents, NEW p \in Procs,
                      run[x] = "running", tbag[x] = b, lock[b] = p, held[p] = x
               PROVE  \/ pc[p] \in Building /\ b \in Bags /\ b \notin Cached /\ bag[p] = b
                      \/ b \in Bags /\ cache[b] = x
      OBVIOUS
  <2>1. held[p] # NoTorrent
        BY CacheAssumption
  <2>2. bag[p] = b
        BY <2>1 DEF HeldInv
  <2>3. CASE pc[p] \in Building
        BY <2>2, <2>3 DEF BuildingInv, LockInv, Building, Locked
  <2>4. CASE pc[p] = "unlock" \/ pc[p] = "use"
        BY <2>1, <2>2, <2>4 DEF HandedOutIsUsable, LiveOrTornDown, LockInv, Locked, TypeOK
  <2>5. pc[p] \in Building \/ pc[p] = "unlock" \/ pc[p] = "use"
        BY <2>1 DEF HeldInv, TypeOK, Steps, Building
  <2> QED  BY <2>3, <2>4, <2>5
<1>4. \A x \in Torrents : run[x] = "running" /\ tbag[x] = b =>
        \/ b \in Bags /\ cache[b] = x
        \/ \E p \in Procs : lock[b] = p /\ held[p] = x
      BY <1>2 DEF NothingLost
<1>5. CASE \E p, q \in Procs : /\ lock[b] = p /\ held[p] = t
                               /\ lock[b] = q /\ held[q] = u
      BY <1>5
<1>6. CASE b \in Bags /\ (cache[b] = t \/ cache[b] = u)
  <2>1. b \in Cached
        BY <1>6, CacheAssumption DEF Cached
  <2> QED  BY <1>1, <1>3, <1>4, <1>6, <2>1
<1> QED  BY <1>1, <1>4, <1>5, <1>6

-----------------------------------------------------------------------------
(* The inductive invariant that the steps are checked against: ClientInv   *)
(* with NothingLost for RunningAccounted.                                  *)
Core ==
  /\ TypeOK /\ LockInv /\ HeldInv /\ BuildingInv
  /\ CachedIsLive /\ HandedOutIsUsable /\ NothingLost

LEMMA CallStep ==
  ASSUME Core, NEW p \in Procs, NEW b \in Bags, Call(p, b)
  PROVE  Core'
<1> USE CacheAssumption, ClientAssumption DEF Core, Goto, cacheVars
<1>1. TypeOK'
      BY DEF Call, TypeOK, CacheTypeOK, Steps
<1>2. LockInv'
      BY DEF Call, TypeOK, LockInv, Locked
<1>3. HeldInv'
      BY DEF Call, TypeOK, HeldInv, Building
<1>4. BuildingInv'
      BY DEF Call, TypeOK, BuildingInv, Building, Cached
<1>5. CachedIsLive'
      BY DEF Call, CachedIsLive, Cached
<1>6. HandedOutIsUsable'
      BY DEF Call, TypeOK, HandedOutIsUsable, LiveOrTornDown
<1>7. NothingLost'
      BY DEF Call, NothingLost, IsCached
<1> QED  BY <1>1, <1>2, <1>3, <1>4, <1>5, <1>6, <1>7 DEF Core

LEMMA FirstMissStep ==
  ASSUME Core, NEW p \in Procs, FirstMiss(p)
  PROVE  Core'
<1> USE CacheAssumption, ClientAssumption DEF Core, Goto, cacheVars
<1>1. TypeOK'
      BY DEF FirstMiss, GetMiss, TypeOK, CacheTypeOK, Steps
<1>2. LockInv'
      BY DEF FirstMiss, GetMiss, TypeOK, LockInv, Locked
<1>3. HeldInv'
      BY DEF FirstMiss, GetMiss, TypeOK, HeldInv, Building
<1>4. BuildingInv'
      BY DEF FirstMiss, GetMiss, TypeOK, BuildingInv, Building, Cached
<1>5. CachedIsLive'
      BY DEF FirstMiss, GetMiss, CachedIsLive, Cached
<1>6. HandedOutIsUsable'
      BY DEF FirstMiss, GetMiss, TypeOK, HandedOutIsUsable, LiveOrTornDown
<1>7. NothingLost'
      BY DEF FirstMiss, GetMiss, NothingLost, IsCached
<1> QED  BY <1>1, <1>2, <1>3, <1>4, <1>5, <1>6, <1>7 DEF Core

LEMMA AcquireLockStep ==
  ASSUME Core, NEW p \in Procs, AcquireLock(p)
  PROVE  Core'
<1> USE CacheAssumption, ClientAssumption DEF Core, Goto, cacheVars
<1>1. TypeOK'
      BY DEF AcquireLock, TypeOK, CacheTypeOK, Steps
<1>2. LockInv'
      BY DEF AcquireLock, TypeOK, LockInv, Locked
<1>3. HeldInv'
      BY DEF AcquireLock, TypeOK, HeldInv, Building
<1>4. BuildingInv'
      BY DEF AcquireLock, TypeOK, BuildingInv, Building, Cached
<1>5. CachedIsLive'
      BY DEF AcquireLock, CachedIsLive, Cached
<1>6. HandedOutIsUsable'
      BY DEF AcquireLock, TypeOK, HandedOutIsUsable, LiveOrTornDown
<1>7. NothingLost'
      BY DEF AcquireLock, NothingLost, IsCached
<1> QED  BY <1>1, <1>2, <1>3, <1>4, <1>5, <1>6, <1>7 DEF Core

LEMMA StartTorrentStep ==
  ASSUME Core, NEW p \in Procs, StartTorrent(p)
  PROVE  Core'
<1> USE CacheAssumption, ClientAssumption DEF Core, Goto, cacheVars
<1>1. TypeOK'
      BY DEF StartTorrent, TypeOK, CacheTypeOK, Steps
<1>2. LockInv'
      BY DEF StartTorrent, TypeOK, LockInv, Locked
<1>3. HeldInv'
      BY DEF StartTorrent, TypeOK, HeldInv, Building
<1>4. BuildingInv'
      BY DEF StartTorrent, TypeOK, CacheTypeOK, LockInv, Locked, HeldInv,
         BuildingInv, Building, Cached
<1>5. CachedIsLive'
      BY DEF StartTorrent, CachedIsLive, Cached
<1>6. HandedOutIsUsable'
      BY DEF StartTorrent, TypeOK, CacheTypeOK, HandedOutIsUsable,
         LiveOrTornDown, HeldInv, BuildingInv, Building
<1>7. NothingLost'
      BY DEF StartTorrent, TypeOK, CacheTypeOK, LockInv, Locked, HeldInv,
         BuildingInv, Building, NothingLost, IsCached
<1> QED  BY <1>1, <1>2, <1>3, <1>4, <1>5, <1>6, <1>7 DEF Core

LEMMA DownloaderOpensStep ==
  ASSUME Core, NEW p \in Procs, DownloaderOpens(p)
  PROVE  Core'
<1> USE CacheAssumption, ClientAssumption DEF Core, Goto, cacheVars
<1>1. TypeOK'
      BY DEF DownloaderOpens, TypeOK, CacheTypeOK, Steps
<1>2. LockInv'
      BY DEF DownloaderOpens, TypeOK, LockInv, Locked
<1>3. HeldInv'
      BY DEF DownloaderOpens, TypeOK, HeldInv, Building
<1>4. BuildingInv'
      BY DEF DownloaderOpens, TypeOK, CacheTypeOK, LockInv, Locked, HeldInv,
         BuildingInv, Building, Cached
<1>5. CachedIsLive'
      BY DEF DownloaderOpens, CachedIsLive, Cached
<1>6. HandedOutIsUsable'
      BY DEF DownloaderOpens, TypeOK, CacheTypeOK, HandedOutIsUsable,
         LiveOrTornDown, HeldInv, BuildingInv, Building
<1>7. NothingLost'
      BY DEF DownloaderOpens, NothingLost, IsCached
<1> QED  BY <1>1, <1>2, <1>3, <1>4, <1>5, <1>6, <1>7 DEF Core

LEMMA GiveUpStep ==
  ASSUME Core, NEW p \in Procs, pc[p] \in Building, GiveUp(p)
  PROVE  Core'
<1> USE CacheAssumption, ClientAssumption DEF Core, Goto, cacheVars
<1>1. TypeOK'
      BY DEF GiveUp, TypeOK, CacheTypeOK, Steps
<1>2. LockInv'
      BY DEF GiveUp, TypeOK, LockInv, Locked, Building
<1>3. HeldInv'
      BY DEF GiveUp, TypeOK, HeldInv, Building
<1>4. BuildingInv'
      BY DEF GiveUp, TypeOK, CacheTypeOK, LockInv, Locked, HeldInv,
         BuildingInv, Building, Cached
<1>5. CachedIsLive'
      BY DEF GiveUp, TypeOK, CacheTypeOK, LockInv, Locked, HeldInv,
         BuildingInv, Building, CachedIsLive, Cached
<1>6. HandedOutIsUsable'
      BY DEF GiveUp, TypeOK, CacheTypeOK, HandedOutIsUsable, LiveOrTornDown,
         HeldInv, BuildingInv, Building
<1>7. NothingLost'
      BY DEF GiveUp, TypeOK, CacheTypeOK, NothingLost, IsCached, LockInv,
         Locked
<1> QED  BY <1>1, <1>2, <1>3, <1>4, <1>5, <1>6, <1>7 DEF Core

LEMMA UnlockStep ==
  ASSUME Core, NEW p \in Procs, Unlock(p)
  PROVE  Core'
<1> USE CacheAssumption, ClientAssumption DEF Core, Goto, cacheVars
<1>1. TypeOK'
      BY DEF Unlock, TypeOK, CacheTypeOK, Steps
<1>2. LockInv'
      BY DEF Unlock, TypeOK, LockInv, Locked
<1>3. HeldInv'
      BY DEF Unlock, TypeOK, HeldInv, Building
<1>4. BuildingInv'
      BY DEF Unlock, TypeOK, BuildingInv, Building, Cached
<1>5. CachedIsLive'
      BY DEF Unlock, CachedIsLive, Cached
<1>6. HandedOutIsUsable'
      BY DEF Unlock, TypeOK, HandedOutIsUsable, LiveOrTornDown
<1>7. NothingLost'
      BY DEF Unlock, TypeOK, CacheTypeOK, LockInv, HeldInv, BuildingInv,
         CachedIsLive, HandedOutIsUsable, LiveOrTornDown, NothingLost,
         IsCached, Cached, Steps, Locked, Building
<1> QED  BY <1>1, <1>2, <1>3, <1>4, <1>5, <1>6, <1>7 DEF Core

LEMMA LeaveStep ==
  ASSUME Core, NEW p \in Procs, Leave(p)
  PROVE  Core'
<1> USE CacheAssumption, ClientAssumption DEF Core, Goto, cacheVars
<1>1. TypeOK'
      BY DEF Leave, TypeOK, CacheTypeOK, Steps
<1>2. LockInv'
      BY DEF Leave, TypeOK, LockInv, Locked
<1>3. HeldInv'
      BY DEF Leave, TypeOK, HeldInv, Building
<1>4. BuildingInv'
      BY DEF Leave, TypeOK, CacheTypeOK, LockInv, Locked, HeldInv,
         BuildingInv, Building, Cached
<1>5. CachedIsLive'
      BY DEF Leave, CachedIsLive, Cached
<1>6. HandedOutIsUsable'
      BY DEF Leave, TypeOK, HandedOutIsUsable, LiveOrTornDown
<1>7. NothingLost'
      BY DEF Leave, TypeOK, CacheTypeOK, LockInv, Locked, HeldInv,
         BuildingInv, Building, NothingLost, IsCached
<1> QED  BY <1>1, <1>2, <1>3, <1>4, <1>5, <1>6, <1>7 DEF Core

LEMMA FirstHitStep ==
  ASSUME Core, NEW p \in Procs, FirstHit(p)
  PROVE  Core'
<1> USE CacheAssumption, ClientAssumption DEF Core, Goto, cacheVars
<1>0. CacheTypeOK' /\ bag[p] \in Cached /\ UNCHANGED <<cache, run, dl>>
      BY GetHitEffect DEF Core, TypeOK, FirstHit
<1>1. TypeOK'
      BY <1>0 DEF FirstHit, TypeOK, CacheTypeOK, Steps, LockInv, Locked
<1>2. LockInv'
      BY <1>0 DEF FirstHit, TypeOK, LockInv, Locked
<1>3. HeldInv'
      BY <1>0 DEF FirstHit, TypeOK, CacheTypeOK, LockInv, HeldInv,
         BuildingInv, CachedIsLive, HandedOutIsUsable, LiveOrTornDown,
         NothingLost, IsCached, Cached, Steps, Locked, Building
<1>4. BuildingInv'
      BY <1>0 DEF FirstHit, TypeOK, CacheTypeOK, LockInv, Locked, HeldInv,
         BuildingInv, Building, Cached, CachedIsLive
<1>5. CachedIsLive'
      BY <1>0 DEF FirstHit, CachedIsLive, Cached
<1>6. HandedOutIsUsable'
      BY <1>0 DEF FirstHit, TypeOK, CacheTypeOK, LockInv, Locked, HeldInv,
         BuildingInv, Building, CachedIsLive, Cached, HandedOutIsUsable,
         LiveOrTornDown
<1>7. NothingLost'
      BY <1>0 DEF FirstHit, TypeOK, CacheTypeOK, LockInv, Locked, HeldInv,
         BuildingInv, Building, NothingLost, IsCached
<1> QED  BY <1>1, <1>2, <1>3, <1>4, <1>5, <1>6, <1>7 DEF Core

LEMMA SecondHitStep ==
  ASSUME Core, NEW p \in Procs, SecondHit(p)
  PROVE  Core'
<1> USE CacheAssumption, ClientAssumption DEF Core, Goto, cacheVars
<1>0. CacheTypeOK' /\ bag[p] \in Cached /\ UNCHANGED <<cache, run, dl>>
      BY GetHitEffect DEF Core, TypeOK, SecondHit
<1>1. TypeOK'
      BY <1>0 DEF SecondHit, TypeOK, CacheTypeOK, Steps, LockInv, Locked
<1>2. LockInv'
      BY <1>0 DEF SecondHit, TypeOK, LockInv, Locked
<1>3. HeldInv'
      BY <1>0 DEF SecondHit, TypeOK, CacheTypeOK, LockInv, Locked, HeldInv,
         Building, CachedIsLive
<1>4. BuildingInv'
      BY <1>0 DEF SecondHit, TypeOK, CacheTypeOK, LockInv, Locked, HeldInv,
         BuildingInv, Building, Cached, CachedIsLive
<1>5. CachedIsLive'
      BY <1>0 DEF SecondHit, CachedIsLive, Cached
<1>6. HandedOutIsUsable'
      BY <1>0 DEF SecondHit, TypeOK, CacheTypeOK, LockInv, Locked, HeldInv,
         BuildingInv, Building, CachedIsLive, Cached, HandedOutIsUsable,
         LiveOrTornDown
<1>7. NothingLost'
      BY <1>0 DEF SecondHit, TypeOK, CacheTypeOK, LockInv, Locked, HeldInv,
         BuildingInv, Building, NothingLost, IsCached
<1> QED  BY <1>1, <1>2, <1>3, <1>4, <1>5, <1>6, <1>7 DEF Core

LEMMA CreateTorrentStep ==
  ASSUME Core, NEW p \in Procs, CreateTorrent(p)
  PROVE  Core'
<1> USE CacheAssumption, ClientAssumption DEF Core, Goto, cacheVars
<1> DEFINE t == CHOOSE u \in Unused : TRUE
<1>0. /\ t \in Torrents /\ run[t] # "running"
      /\ \A b \in Bags : cache[b] # t /\ store[b] # t
      /\ \A q \in Procs : held[q] # t
      BY DEF CreateTorrent, SetTorrent, NewTorrent, Unused
<1>8. /\ run'[t] = "new" /\ dl'[t] = "none" /\ tbag'[t] = bag[p]
      /\ held' = [held EXCEPT ![p] = t] /\ store' = [store EXCEPT ![bag[p]] = t]
      /\ pc' = [pc EXCEPT ![p] = "start"]
      /\ UNCHANGED <<cache, age, bag, lock>>
      /\ pc[p] = "recheck" /\ bag[p] \notin Cached
      BY <1>0 DEF Core, TypeOK, CacheTypeOK, CreateTorrent, SetTorrent, NewTorrent, Goto
<1>9. \A u \in Torrents \ {t} :
        /\ run[u] = "running" \/ IsCached(u) \/ (\E q \in Procs : held[q] = u)
           => run'[u] = run[u] /\ dl'[u] = dl[u] /\ tbag'[u] = tbag[u]
        /\ run'[u] = "running" => run[u] = "running"
      BY <1>0 DEF Core, TypeOK, CacheTypeOK, CreateTorrent, SetTorrent, NewTorrent, Unused, IsCached
<1>11. /\ run' \in [Torrents -> {"none", "new", "running", "stopped"}]
       /\ dl' \in [Torrents -> {"none", "open", "closed"}]
       /\ tbag' \in [Torrents -> Bags \cup {NoBag}]
      BY DEF Core, TypeOK, CacheTypeOK, CreateTorrent, SetTorrent, NewTorrent
<1>10. TypeOK'
      BY <1>0, <1>8, <1>11 DEF Core, TypeOK, CacheTypeOK, Steps
<1> HIDE DEF t
<1>2. LockInv'
      BY <1>0, <1>8, <1>9 DEF TypeOK, LockInv, Locked
<1>3. HeldInv'
      BY <1>0, <1>8, <1>9 DEF TypeOK, HeldInv, Building
<1>4. BuildingInv'
      BY <1>0, <1>8, <1>9 DEF TypeOK, CacheTypeOK, LockInv, Locked, HeldInv,
         BuildingInv, Building, Cached
<1>5. CachedIsLive'
      BY <1>0, <1>8, <1>9 DEF TypeOK, CacheTypeOK, CachedIsLive, Cached,
         BuildingInv, Building
<1>6. HandedOutIsUsable'
      BY <1>0, <1>8, <1>9 DEF TypeOK, CacheTypeOK, HandedOutIsUsable,
         LiveOrTornDown, HeldInv, BuildingInv, Building
<1>7. NothingLost'
      BY <1>0, <1>8, <1>9 DEF TypeOK, CacheTypeOK, LockInv, Locked, HeldInv,
         BuildingInv, Building, NothingLost, IsCached
<1> QED  BY <1>10, <1>2, <1>3, <1>4, <1>5, <1>6, <1>7 DEF Core

LEMMA PublishStep ==
  ASSUME Core, NEW p \in Procs, Publish(p)
  PROVE  Core'
<1> USE CacheAssumption, ClientAssumption DEF Core, Goto, cacheVars
<1> DEFINE b == bag[p]
           t == held[p]
<1>0. pc[p] = "publish" /\ b \in Bags /\ t \in Torrents /\ Set(b, t)
      BY DEF Core, Publish, LockInv, HeldInv, Locked, Building
<1>8. CacheTypeOK'
      BY <1>0, SetEffect DEF Core, TypeOK
<1>9. PICK V \in SUBSET (Cached \cup {b}) : SetWith(b, t, V)
      BY <1>0, SetEffect DEF Core, TypeOK
<1>1. TypeOK'
      BY <1>0, <1>8, <1>9 DEF Publish, SetWith, TypeOK, CacheTypeOK, Steps
<1>2. LockInv'
      BY <1>0, <1>8, <1>9 DEF Publish, SetWith, TypeOK, LockInv, Locked
<1>3. HeldInv'
      BY <1>0, <1>8, <1>9 DEF Publish, SetWith, TypeOK, HeldInv, Building
<1>4. BuildingInv'
      BY <1>0, <1>8, <1>9 DEF Publish, SetWith, TypeOK, CacheTypeOK, LockInv,
         Locked, HeldInv, BuildingInv, Building, Cached, CachedIsLive
<1>5. CachedIsLive'
      BY <1>0, <1>8, <1>9 DEF Publish, SetWith, TypeOK, CacheTypeOK, LockInv,
         Locked, HeldInv, BuildingInv, Building, CachedIsLive, Cached
<1>6. HandedOutIsUsable'
      BY <1>0, <1>8, <1>9 DEF Publish, SetWith, TypeOK, CacheTypeOK, LockInv,
         Locked, HeldInv, BuildingInv, Building, CachedIsLive, Cached,
         HandedOutIsUsable, LiveOrTornDown
<1>7. NothingLost'
      BY <1>0, <1>8, <1>9 DEF Publish, SetWith, TypeOK, CacheTypeOK, LockInv,
         Locked, HeldInv, BuildingInv, Building, CachedIsLive, Cached,
         NothingLost, IsCached
<1> QED  BY <1>1, <1>2, <1>3, <1>4, <1>5, <1>6, <1>7 DEF Core

-----------------------------------------------------------------------------
LEMMA InitCore ==
  Init => Core
<1> SUFFICES ASSUME Init PROVE Core
    OBVIOUS
<1> QED  BY CacheAssumption, ClientAssumption DEF Init, CacheInit, Core,
            TypeOK, CacheTypeOK, LockInv, HeldInv, BuildingInv, CachedIsLive,
            HandedOutIsUsable, NothingLost, Cached, Steps, Locked, Building

LEMMA NextCore ==
  ASSUME Core, [Next]_vars
  PROVE  Core'
<1>1. ASSUME NEW p \in Procs, NEW b \in Bags, Call(p, b)
      PROVE  Core'
      BY <1>1, CallStep
<1>2. ASSUME NEW p \in Procs, GetTorrent(p)
      PROVE  Core'
  <2>1. CASE FirstHit(p)         BY <2>1, FirstHitStep
  <2>2. CASE FirstMiss(p)        BY <2>2, FirstMissStep
  <2>3. CASE AcquireLock(p)      BY <2>3, AcquireLockStep
  <2>4. CASE SecondHit(p)        BY <2>4, SecondHitStep
  <2>5. CASE CreateTorrent(p)    BY <2>5, CreateTorrentStep
  <2>6. CASE StartTorrent(p)     BY <2>6, StartTorrentStep
  <2>7. CASE StartFails(p) \/ DownloaderFails(p) \/ HeaderMissing(p)
        BY <2>7, GiveUpStep DEF StartFails, DownloaderFails, HeaderMissing, Building
  <2>8. CASE DownloaderOpens(p)  BY <2>8, DownloaderOpensStep
  <2>9. CASE Publish(p)          BY <2>9, PublishStep
  <2>10. CASE Unlock(p)          BY <2>10, UnlockStep
  <2> QED  BY <1>2, <2>1, <2>2, <2>3, <2>4, <2>5, <2>6, <2>7, <2>8, <2>9, <2>10
              DEF GetTorrent
<1>3. ASSUME NEW p \in Procs, Leave(p)
      PROVE  Core'
      BY <1>3, LeaveStep
<1>4. CASE UNCHANGED vars
      BY <1>4 DEF vars, cacheVars, clientVars, Core, TypeOK, CacheTypeOK,
         LockInv, HeldInv, BuildingInv, CachedIsLive, HandedOutIsUsable,
         LiveOrTornDown, NothingLost, IsCached, Cached
<1> QED  BY <1>1, <1>2, <1>3, <1>4 DEF Next

LEMMA CoreImpliesClientInv ==
  Core => ClientInv
BY OneTorrentPerBag DEF Core, ClientInv

LEMMA AlwaysCore ==
  Spec => []Core
<1>1. Init => Core
      BY InitCore
<1>2. Core /\ [Next]_vars => Core'
      BY NextCore
<1> QED  BY <1>1, <1>2, PTL DEF Spec

-----------------------------------------------------------------------------
(* Every variable keeps its type: getTorrent never uses a bag, lock or     *)
(* torrent that does not exist.                                            *)
THEOREM TypeCorrect ==
  Spec => []TypeOK
<1>1. Core => TypeOK
      BY DEF Core
<1> QED  BY <1>1, AlwaysCore, PTL

(* ClientInv, the invariant of getTorrent's locking and of its cache, for  *)
(* any number of goroutines, bags and torrents.                            *)
THEOREM ClientCorrect ==
  Spec => []ClientInv
BY CoreImpliesClientInv, AlwaysCore, PTL

(* No torrent is lost or opened twice: the double-checked locking of       *)
(* getTorrent works with a cache that evicts at any time.                  *)
THEOREM NoTorrentLost ==
  Spec => []RunningAccounted
<1>1. ClientInv => RunningAccounted
      BY DEF ClientInv
<1> QED  BY <1>1, ClientCorrect, PTL

(* What the cache offers is live (Set, Get, free).                         *)
THEOREM CacheIsLive ==
  Spec => []CachedIsLive
<1>1. ClientInv => CachedIsLive
      BY DEF ClientInv
<1> QED  BY <1>1, ClientCorrect, PTL

(* What a caller was given is live or torn down whole (getTorrent, free).  *)
THEOREM HandedOutCorrect ==
  Spec => []HandedOutIsUsable
<1>1. ClientInv => HandedOutIsUsable
      BY DEF ClientInv
<1> QED  BY <1>1, ClientCorrect, PTL

-----------------------------------------------------------------------------
(* The bags being opened are those of the goroutines between Start and     *)
(* Set.                                                                    *)
OpeningIsBeingOpened ==
  \A b : b \in Opening <=>
    \E p \in Procs : pc[p] \in {"connect", "publish"} /\ bag[p] = b

LEMMA OpeningBags ==
  Core => OpeningIsBeingOpened
<1> SUFFICES ASSUME Core PROVE OpeningIsBeingOpened
    OBVIOUS
<1>1. ASSUME NEW t \in Torrents, run[t] = "running", ~IsCached(t)
      PROVE  \E p \in Procs : pc[p] \in {"connect", "publish"} /\ bag[p] = tbag[t]
  <2>1. PICK p \in Procs : lock[tbag[t]] = p /\ held[p] = t
        BY <1>1 DEF Core, NothingLost
  <2>2. held[p] # NoTorrent /\ bag[p] = tbag[t]
        BY <2>1, CacheAssumption DEF Core, HeldInv
  <2>3. bag[p] \in Bags
        BY <2>2 DEF Core, TypeOK, LockInv, HeldInv
  <2>4. ~(pc[p] \in {"unlock", "use"})
        BY <1>1, <2>1, <2>2, <2>3
           DEF Core, HandedOutIsUsable, LiveOrTornDown, IsCached
  <2>5. pc[p] # "start"
        BY <1>1, <2>1 DEF Core, BuildingInv, Building
  <2> QED  BY <2>1, <2>2, <2>4, <2>5 DEF Core, TypeOK, HeldInv, Steps
<1>2. ASSUME NEW p \in Procs, pc[p] \in {"connect", "publish"}
      PROVE  /\ held[p] \in Torrents /\ run[held[p]] = "running"
             /\ tbag[held[p]] = bag[p] /\ ~IsCached(held[p])
      BY <1>2, CacheAssumption
         DEF Core, HeldInv, BuildingInv, CachedIsLive, IsCached, Cached, Building
<1> QED  BY <1>1, <1>2 DEF Opening, OpeningIsBeingOpened

LEMMA SessionsStep ==
  ASSUME Core, Core', [Next]_vars
  PROVE  [Sessions!SessionsNext]_<<Opening, Cached>>
<1> USE DEF OpeningIsBeingOpened
<1>1. OpeningIsBeingOpened /\ OpeningIsBeingOpened'
  <2>1. OpeningIsBeingOpened'
        BY OpeningBags, PTL
  <2> QED  BY <2>1, OpeningBags
<1>2. ASSUME NEW p \in Procs, NEW q \in Procs, bag[p] = bag[q],
             pc[p] \in {"start", "connect", "publish"},
             pc[q] \in {"start", "connect", "publish"}
      PROVE  p = q
      BY <1>2 DEF Core, LockInv, Locked
<1>3. ASSUME NEW p \in Procs, UNCHANGED cache,
             \A q \in Procs \ {p} : pc'[q] = pc[q] /\ bag'[q] = bag[q],
             \/ pc[p] \notin {"connect", "publish"} /\ pc'[p] \notin {"connect", "publish"}
             \/ pc[p] = "connect" /\ pc'[p] = "publish" /\ bag'[p] = bag[p]
      PROVE  UNCHANGED <<Opening, Cached>>
  <2>1. \A b : b \in Opening' <=> b \in Opening
        BY <1>1, <1>3
  <2>2. Opening' = Opening
        BY <2>1 DEF Opening
  <2> QED  BY <1>3, <2>2 DEF Cached
<1>4. ASSUME NEW p \in Procs, StartTorrent(p)
      PROVE  Sessions!SessionsNext
  <2>1. bag[p] \in Bags /\ bag[p] \notin Cached
        BY <1>4 DEF StartTorrent, Core, LockInv, Locked, BuildingInv, Building
  <2>2. bag[p] \notin Opening
        BY <1>1, <1>2, <1>4 DEF StartTorrent
  <2>3. \A b : b \in Opening' <=> b \in Opening \cup {bag[p]}
        BY <1>1, <1>4 DEF StartTorrent, Goto, Core, TypeOK
  <2>4. Opening' = Opening \cup {bag[p]} /\ Cached' = Cached
        BY <2>3, <1>4 DEF Cached, StartTorrent
  <2> QED  BY <2>1, <2>2, <2>4 DEF Sessions!SessionsNext, Sessions!Begin
<1>5. ASSUME NEW p \in Procs, GiveUp(p), pc[p] \in {"connect", "publish"}
      PROVE  Sessions!SessionsNext
  <2>1. bag[p] \in Bags /\ bag[p] \in Opening
        BY <1>1, <1>5 DEF Core, LockInv, Locked
  <2>2. \A b : b \in Opening' <=> b \in Opening \ {bag[p]}
        BY <1>1, <1>2, <1>5 DEF GiveUp, Goto, Core, TypeOK
  <2>3. Opening' = Opening \ {bag[p]} /\ Cached' = Cached
        BY <2>2, <1>5 DEF Cached, GiveUp
  <2> QED  BY <2>1, <2>3 DEF Sessions!SessionsNext, Sessions!Abandon
<1>6. ASSUME NEW p \in Procs, Publish(p)
      PROVE  Sessions!SessionsNext
  <2>1. pc[p] = "publish" /\ bag[p] \in Bags /\ held[p] \in Torrents
        BY <1>6 DEF Publish, Core, LockInv, Locked, HeldInv, Building
  <2>2. PICK V \in SUBSET (Cached \cup {bag[p]}) : SetWith(bag[p], held[p], V)
        BY <1>6, <2>1, SetEffect DEF Publish, Core, TypeOK
  <2>3. bag[p] \in Opening
        BY <1>1, <2>1
  <2>4. \A b : b \in Opening' <=> b \in Opening \ {bag[p]}
        BY <1>1, <1>2, <1>6, <2>1 DEF Publish, Goto, Core, TypeOK
  <2>5. Cached' = (Cached \cup {bag[p]}) \ V
        BY <2>1, <2>2, CacheAssumption DEF SetWith, Cached
  <2>6. V \in SUBSET Bags /\ (V # {} => Cardinality((Cached \cup {bag[p]}) \ V) >= MaxCacheEntries)
        BY <2>1, <2>2 DEF SetWith, Cached
  <2>7. Opening' = Opening \ {bag[p]}
        BY <2>4
  <2>8. \A S : Sessions!Cardinality(S) = Cardinality(S)
        BY DEF Sessions!Cardinality, Cardinality
  <2> QED  BY <2>1, <2>3, <2>5, <2>6, <2>7, <2>8 DEF Sessions!SessionsNext, Sessions!Share
<1>7. ASSUME NEW p \in Procs,
             \/ \E b \in Bags : Call(p, b)
             \/ FirstHit(p) \/ FirstMiss(p) \/ AcquireLock(p) \/ SecondHit(p)
             \/ CreateTorrent(p) \/ StartFails(p) \/ DownloaderOpens(p)
             \/ Unlock(p) \/ Leave(p)
      PROVE  UNCHANGED <<Opening, Cached>>
  <2>1. UNCHANGED cache /\ \A q \in Procs \ {p} : pc'[q] = pc[q] /\ bag'[q] = bag[q]
        BY <1>7 DEF Core, TypeOK, Call, FirstHit, FirstMiss, AcquireLock, SecondHit,
           CreateTorrent, SetTorrent, NewTorrent, StartFails, GiveUp, DownloaderOpens, Unlock, Leave,
           Goto, GetHit, GetMiss, cacheVars
  <2>2. \/ pc[p] \notin {"connect", "publish"} /\ pc'[p] \notin {"connect", "publish"}
        \/ pc[p] = "connect" /\ pc'[p] = "publish" /\ bag'[p] = bag[p]
        BY <1>7 DEF Core, TypeOK, Call, FirstHit, FirstMiss, AcquireLock, SecondHit,
           CreateTorrent, SetTorrent, NewTorrent, StartFails, GiveUp, DownloaderOpens, Unlock, Leave,
           Goto
  <2> QED  BY <1>3, <2>1, <2>2
<1>8. CASE UNCHANGED vars
      BY <1>8 DEF vars, cacheVars, clientVars, Opening, Cached, IsCached
<1>9. CASE \E p \in Procs : DownloaderFails(p) \/ HeaderMissing(p)
      BY <1>5, <1>9 DEF DownloaderFails, HeaderMissing
<1> QED  BY <1>4, <1>6, <1>7, <1>8, <1>9 DEF Next, GetTorrent

(* The client, with its locks and its cache, keeps the promise of          *)
(* BagSessions: one session per bag, closed only to make room (getTorrent, *)
(* BagsCache.Set).                                                         *)
THEOREM ClientImplementsSessions ==
  Spec => ImplementsSessions
<1>1. Init => Sessions!SessionsInit
      BY CacheAssumption DEF Init, CacheInit, Sessions!SessionsInit, Opening, Cached
<1>2. Core /\ Core' /\ [Next]_vars => [Sessions!SessionsNext]_<<Opening, Cached>>
      BY SessionsStep
<1> QED  BY <1>1, <1>2, AlwaysCore, PTL
            DEF Spec, ImplementsSessions, Sessions!SessionsSpec, Sessions!sessionVars

-----------------------------------------------------------------------------
(* A torrent that a caller works with is stopped only by a Set that leaves *)
(* a full cache of bags used no less recently; the error paths of          *)
(* getTorrent stop nobody else's torrent.                                  *)
THEOREM StoppedUnderPressure ==
  Spec => StoppedOnlyUnderPressure
<1>1. ASSUME Core, [Next]_vars, NEW p \in Procs,
             pc[p] = "use", run[held[p]] = "running", run'[held[p]] = "stopped"
      PROVE  \E q \in Procs : Publish(q)
  <2>1. ASSUME NEW q \in Procs, GiveUp(q), pc[q] \in Building
        PROVE  FALSE
        BY <1>1, <2>1 DEF GiveUp, Core, TypeOK, CacheTypeOK, BuildingInv, HeldInv, Building
  <2>2. ASSUME NEW q \in Procs, CreateTorrent(q)
        PROVE  FALSE
        BY <1>1, <2>2 DEF CreateTorrent, SetTorrent, NewTorrent, Unused, Core, TypeOK, CacheTypeOK,
           HeldInv, Building
  <2>3. ASSUME NEW q \in Procs, StartTorrent(q)
        PROVE  FALSE
        BY <1>1, <2>3 DEF StartTorrent, Core, TypeOK, CacheTypeOK, HeldInv, Building
  <2> QED  BY <1>1, <2>1, <2>2, <2>3
           DEF Next, GetTorrent, Call, FirstHit, FirstMiss, AcquireLock, SecondHit,
               StartFails, DownloaderFails, HeaderMissing, DownloaderOpens, Unlock,
               Leave, GetHit, GetMiss, vars, cacheVars, Building
<1>2. ASSUME Core, NEW p \in Procs, NEW q \in Procs, Publish(q),
             pc[p] = "use", run[held[p]] = "running", run'[held[p]] = "stopped"
      PROVE  /\ Cardinality(Cached') >= MaxCacheEntries
             /\ \A k \in Cached' \cap Cached : age[k] <= age[bag[p]]
  <2> DEFINE b == bag[q]
             t == held[q]
  <2>1. /\ b \in Bags /\ t \in Torrents /\ b \notin Cached
        /\ held[p] # t /\ held[p] \in Torrents
        /\ bag[p] \in Bags /\ cache[bag[p]] = held[p] /\ bag[p] \in Cached
        BY <1>2, CacheAssumption
           DEF Core, Publish, LockInv, HeldInv, BuildingInv, HandedOutIsUsable,
               LiveOrTornDown, Locked, Building, TypeOK, Cached
  <2>2. PICK V \in SUBSET (Cached \cup {b}) : SetWith(b, t, V)
        BY <1>2, <2>1, SetEffect DEF Publish, Core, TypeOK
  <2>3. PICK v \in V \ {b} : held[p] = cache[v]
        BY <1>2, <2>1, <2>2 DEF SetWith
  <2>4. v = bag[p]
    <3>1. v \in Cached /\ bag[p] \in Cached /\ cache[v] = cache[bag[p]]
          BY <2>1, <2>2, <2>3
    <3> QED  BY <1>2, <3>1 DEF Core, CachedIsLive
  <2>5. Cached' = (Cached \cup {b}) \ V
        BY <2>1, <2>2, CacheAssumption DEF SetWith, Cached
  <2> QED  BY <2>1, <2>2, <2>3, <2>4, <2>5 DEF SetWith
<1>3. Core /\ [Next]_vars =>
        [\A p \in Procs :
           /\ pc[p] = "use" /\ run[held[p]] = "running" /\ run'[held[p]] = "stopped"
           => /\ Cardinality(Cached') >= MaxCacheEntries
              /\ \A k \in Cached' \cap Cached : age[k] <= age[bag[p]]]_vars
      BY <1>1, <1>2
<1> QED  BY <1>3, AlwaysCore, PTL DEF Spec, StoppedOnlyUnderPressure

-----------------------------------------------------------------------------
(* With a clock that never repeats an instant a Set leaves no entry over   *)
(* the limit: nothing but the entry it stored may carry the stamp it read. *)
LEMMA SetKeepsLimit ==
  ASSUME CacheTypeOK, NEW b \in Bags, NEW t \in Torrents, Set(b, t), 0 \notin ClockSteps
  PROVE  Cardinality(Cached') <= MaxCacheEntries
<1> DEFINE have == Cached \cup {b}
           stored == [cache EXCEPT ![b] = t]
           Aged(d1, d2) == [x \in Bags |-> IF x = b THEN d2
                                           ELSE IF x \in Cached THEN age[x] + d1 + d2 ELSE 0]
<1>1. PICK d1 \in ClockSteps, d2 \in ClockSteps, V \in SUBSET Bags :
        Freed(V, have, Aged(d1, d2)) /\ cache' = Without(stored, V)
  BY DEF Set
<1> DEFINE kept == have \ V
<1>2. \A x \in have : Aged(d1, d2)[x] > 0
  <2>1. d1 = 1 /\ d2 = 1 BY CacheAssumption
  <2> QED BY <2>1 DEF CacheTypeOK, Cached
<1>3. Cardinality(kept) <= MaxCacheEntries
  <2>1. CASE kept = {} BY <2>1, FS_EmptySet, CacheAssumption
  <2>2. CASE kept # {}
    <3>1. PICK k \in kept : TRUE BY <2>2
    <3>2. Aged(d1, d2)[k] # 0 BY <1>2, <3>1
    <3> HIDE DEF Aged
    <3> QED BY <1>1, <3>1, <3>2 DEF Freed
  <2> QED BY <2>1, <2>2
<1>4. Cached' = kept
  <2>1. stored \in [Bags -> Torrents \cup {NoTorrent}] /\ stored[b] = t
        /\ \A x \in Bags \ {b} : stored[x] = cache[x]
    BY DEF CacheTypeOK
  <2> HIDE DEF stored
  <2>2. \A x \in Bags : cache'[x] # NoTorrent <=> x \in kept
    BY <1>1, <2>1, CacheAssumption DEF Without, Cached
  <2>3. kept \subseteq Bags BY DEF Cached
  <2> QED BY <2>2, <2>3 DEF Cached
<1> QED BY <1>3, <1>4

WithinLimit == Cardinality(Cached) <= MaxCacheEntries

(* While the clock does not repeat an instant, the client never keeps more *)
(* bags than its cache is configured for, however its calls overlap (Set,  *)
(* freeUnsafe).                                                            *)
THEOREM LimitIsKept == ASSUME 0 \notin ClockSteps PROVE Spec => []WithinLimit
<1>1. Init => WithinLimit
  <2>1. Init => Cached = {} BY DEF Init, CacheInit, Cached
  <2> QED BY <2>1, FS_EmptySet, CacheAssumption DEF WithinLimit
<1>2. Core /\ WithinLimit /\ [Next]_vars => WithinLimit'
  <2> SUFFICES ASSUME Core, WithinLimit, [Next]_vars PROVE WithinLimit' OBVIOUS
  <2>1. CASE cache' = cache BY <2>1 DEF WithinLimit, Cached
  <2>2. ASSUME NEW p \in Procs, Publish(p) PROVE WithinLimit'
    <3>1. bag[p] \in Bags /\ held[p] \in Torrents /\ Set(bag[p], held[p]) /\ CacheTypeOK
      BY <2>2 DEF Publish, Core, TypeOK, LockInv, HeldInv, Locked, Building
    <3> QED BY <3>1, SetKeepsLimit DEF WithinLimit
  <2> QED
    BY <2>1, <2>2
       DEF Next, GetTorrent, Call, FirstHit, FirstMiss, AcquireLock, SecondHit,
           CreateTorrent, SetTorrent, NewTorrent, StartTorrent, StartFails, GiveUp,
           DownloaderOpens, DownloaderFails, HeaderMissing, Unlock, Leave,
           GetHit, GetMiss, vars, cacheVars
<1> QED BY <1>1, <1>2, AlwaysCore, PTL DEF Spec

-----------------------------------------------------------------------------
(* The torrents somebody refers to are those of the virtual storage and    *)
(* those held, one of each bag and one of each goroutine.                  *)
InUse == {store[b] : b \in Bags} \cup {held[q] : q \in Procs}

(* A torrent that nobody refers to can be taken for a new one. *)
LEMMA UnusedTorrents ==
  ASSUME Core, NEW t \in Torrents, t \notin InUse
  PROVE  t \in Unused
<1>1. \A b \in Bags : store[b] # t BY DEF InUse
<1>2. \A q \in Procs : held[q] # t BY DEF InUse
<1>3. \A b \in Bags : cache[b] # t
  BY <1>1, CacheAssumption DEF Core, CachedIsLive, Cached
<1>4. run[t] # "running" BY <1>2, <1>3 DEF Core, NothingLost, IsCached, InUse
<1> QED BY <1>1, <1>2, <1>3, <1>4 DEF Unused

(* A function has no more values than arguments. *)
LEMMA FewValues ==
  ASSUME NEW S, IsFiniteSet(S), NEW T, NEW f \in [S -> T]
  PROVE  /\ IsFiniteSet({f[x] : x \in S})
         /\ Cardinality({f[x] : x \in S}) <= Cardinality(S)
<1> DEFINE values == {f[x] : x \in S}
<1>1. f \in Surjection(S, values) BY DEF Surjection
<1> HIDE DEF values
<1>2. IsFiniteSet(values) /\ Cardinality(values) <= Cardinality(S) BY <1>1, FS_Surjection
<1> QED BY <1>2 DEF values

(* As many torrents as bags and goroutines. *)
PoolIsLarge ==
  /\ IsFiniteSet(Torrents) /\ IsFiniteSet(Procs)
  /\ Cardinality(Torrents) >= Cardinality(Bags) + Cardinality(Procs)

(* A goroutine that is to make a torrent finds one to make. *)
NeverWaits == \A p \in Procs : pc[p] = "recheck" => Unused # {}

(* NewTorrent always finds an identity for the torrent it makes when there *)
(* are as many as bags and goroutines: the finite pool of the model hides  *)
(* no behaviour of getTorrent, where a new torrent is allocated.           *)
THEOREM CreateNeverWaits == ASSUME PoolIsLarge PROVE Spec => []NeverWaits
<1>1. Core => NeverWaits
  <2> SUFFICES ASSUME Core, NEW p \in Procs, pc[p] = "recheck", Unused = {} PROVE FALSE
    BY DEF NeverWaits
  <2> DEFINE others == Procs \ {p}
             stored == {store[b] : b \in Bags}
             heldNow == [q \in others |-> held[q]]
             taken == {heldNow[q] : q \in others}
  <2>1. held[p] = NoTorrent /\ store \in [Bags -> Torrents \cup {NoTorrent}]
        /\ held \in [Procs -> Torrents \cup {NoTorrent}]
    BY DEF Core, HeldInv, TypeOK
  <2>2. Torrents \subseteq stored \cup taken
    <3> SUFFICES ASSUME NEW t \in Torrents PROVE t \in stored \cup taken OBVIOUS
    <3>1. t \in InUse BY UnusedTorrents
    <3>2. CASE \E b \in Bags : store[b] = t BY <3>2
    <3>3. CASE \E q \in Procs : held[q] = t
      <4>1. PICK q \in Procs : held[q] = t BY <3>3
      <4>2. q \in others BY <4>1, <2>1, CacheAssumption
      <4> QED BY <4>1, <4>2
    <3> QED BY <3>1, <3>2, <3>3 DEF InUse
  <2>3. IsFiniteSet(stored) /\ Cardinality(stored) <= Cardinality(Bags)
    BY <2>1, FewValues, CacheAssumption
  <2>4. IsFiniteSet(others) /\ Cardinality(others) = Cardinality(Procs) - 1
    BY FS_RemoveElement, PoolIsLarge DEF PoolIsLarge
  <2>5. IsFiniteSet(taken) /\ Cardinality(taken) <= Cardinality(others)
    <3>1. heldNow \in [others -> Torrents \cup {NoTorrent}] BY <2>1
    <3> HIDE DEF others, heldNow
    <3> QED BY <3>1, <2>4, FewValues
  <2> HIDE DEF others, stored, taken
  <2>6. IsFiniteSet(stored \cup taken)
        /\ Cardinality(stored \cup taken)
             = Cardinality(stored) + Cardinality(taken) - Cardinality(stored \cap taken)
    BY <2>3, <2>5, FS_Union
  <2>7. Cardinality(Torrents) <= Cardinality(stored \cup taken) BY <2>2, <2>6, FS_Subset
  <2>8. IsFiniteSet(stored \cap taken) BY <2>3, FS_Intersection
  <2>9. /\ Cardinality(stored) \in Nat /\ Cardinality(taken) \in Nat
        /\ Cardinality(stored \cap taken) \in Nat /\ Cardinality(Torrents) \in Nat
        /\ Cardinality(Bags) \in Nat /\ Cardinality(Procs) \in Nat
        /\ Cardinality(stored \cup taken) \in Nat
    BY <2>3, <2>5, <2>6, <2>8, PoolIsLarge, FS_CardinalityType, CacheAssumption DEF PoolIsLarge
  <2> QED BY <2>3, <2>4, <2>5, <2>6, <2>7, <2>9, PoolIsLarge DEF PoolIsLarge
<1> QED BY <1>1, AlwaysCore, PTL

-----------------------------------------------------------------------------
(* The client with a record of the bag that was found or stored last:      *)
(* every behaviour of Spec has one, in which `used` takes no part.         *)
UsesBag(p) == FirstHit(p) \/ SecondHit(p) \/ Publish(p)

RecordedNext ==
  \/ \E p \in Procs : UsesBag(p) /\ used' = bag[p]
  \/ Next /\ ~(\E p \in Procs : UsesBag(p)) /\ used' = used

RecordedSpec == Init /\ used = NoBag /\ [][RecordedNext]_<<vars, used>>

(* Each step of it is one of the client and keeps the order. *)
LEMMA RecordedStep ==
  ASSUME Core, [RecordedNext]_<<vars, used>>
  PROVE  [Lru!LruNext]_(Lru!lruVars) /\ [Next]_vars
<1>1. CASE UNCHANGED <<vars, used>>
  BY <1>1 DEF vars, cacheVars, Lru!lruVars, Newer, Cached
<1>2. ASSUME NEW p \in Procs, UsesBag(p), used' = bag[p]
      PROVE  Lru!LruNext /\ Next
  <2>1. Next BY <1>2 DEF UsesBag, Next, GetTorrent
  <2>2. bag[p] \in Bags /\ CacheTypeOK
    <3>1. CASE GetHit(bag[p]) BY <3>1 DEF GetHit, Cached, Core, TypeOK
    <3>2. CASE Publish(p) BY <3>2 DEF Publish, Core, TypeOK, LockInv, Locked
    <3> QED BY <1>2, <3>1, <3>2 DEF UsesBag, FirstHit, SecondHit
  <2>3. PICK b \in Bags : b = bag[p] BY <2>2
  <2>4. CASE GetHit(bag[p])
    <3>1. GetHit(b) BY <2>3, <2>4
    <3>2. used' = b BY <1>2, <2>3
    <3>3. Lru!Use(b) BY <2>2, <3>1, <3>2, GetHitUses
    <3> QED BY <2>1, <3>3 DEF Lru!LruNext
  <2>5. CASE Publish(p)
    <3>1. PICK t \in Torrents : t = held[p] BY <2>5 DEF Publish, Core, HeldInv, Building
    <3>2. Set(b, t) BY <2>3, <2>5, <3>1 DEF Publish
    <3>3. used' = b BY <1>2, <2>3
    <3>4. Lru!Store(b) BY <2>2, <3>2, <3>3, SetStores
    <3> QED BY <2>1, <3>4 DEF Lru!LruNext
  <2> QED BY <1>2, <2>1, <2>4, <2>5 DEF UsesBag, FirstHit, SecondHit
<1>3. ASSUME Next, ~(\E p \in Procs : UsesBag(p)), used' = used
      PROVE  UNCHANGED Lru!lruVars
  <2>1. cache' = cache /\ age' = age
    BY <1>3
       DEF UsesBag, Next, GetTorrent, Call, FirstMiss, GetMiss, AcquireLock,
           CreateTorrent, SetTorrent, NewTorrent, StartTorrent, StartFails, GiveUp,
           DownloaderOpens, DownloaderFails, HeaderMissing, Unlock, Leave, cacheVars
  <2> QED BY <1>3, <2>1 DEF Lru!lruVars, Newer, Cached
<1> QED BY <1>1, <1>2, <1>3 DEF RecordedNext

(* The client keeps an LRU order however many requests overlap: getTorrent *)
(* uses the cache in no other way than by finding a bag and by storing one *)
(* that it has opened (getTorrent, Get, Set, freeUnsafe).                  *)
THEOREM ClientImplementsLru == RecordedSpec => ImplementsLru
<1>1. Init /\ used = NoBag => Lru!LruInit
  BY CacheAssumption DEF Init, CacheInit, Lru!LruInit, Newer, Cached
<1>2. Init => Core BY InitCore
<1>3. Core /\ [RecordedNext]_<<vars, used>> => Core' /\ [Lru!LruNext]_(Lru!lruVars)
  BY RecordedStep, NextCore
<1> QED BY <1>1, <1>2, <1>3, PTL DEF RecordedSpec, ImplementsLru, Lru!LruSpec

=============================================================================
