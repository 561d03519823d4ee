-------------------------- MODULE RemoteStreamProofs --------------------------
(***************************************************************************)
(* Proofs about RemoteStream, for every set of files, every piece size,    *)
(* every buffer and every number of streams.                               *)
(***************************************************************************)
EXTENDS RemoteStream, SequenceTheorems, FiniteSetTheorems, TLAPS

-----------------------------------------------------------------------------
(* The life of the program. *)

(* Close takes resources out one after the other. *)
LEMMA CloseParts ==
  /\ ToClose(6) = <<>> /\ StillOpen(6) = {}
  /\ \A k \in 1..5 : /\ ToClose(k) # <<>>
                     /\ Head(ToClose(k)) = CloseOrder[k]
                     /\ Tail(ToClose(k)) = ToClose(k + 1)
                     /\ StillOpen(k) \ {CloseOrder[k]} = StillOpen(k + 1)
  /\ \A k \in 1..6 : ToClose(k) \in Seq(Resources)
  /\ ToClose(1) = CloseOrder /\ StillOpen(1) = Resources
<1>1. /\ Len(CloseOrder) = 5 /\ CloseOrder \in Seq(Resources)
      /\ CloseOrder[1] = "srv" /\ CloseOrder[2] = "storageGate" /\ CloseOrder[3] = "dhtClient"
      /\ CloseOrder[4] = "dhtGateway" /\ CloseOrder[5] = "netMgr"
      BY DEF CloseOrder, Resources
<1>2. \A k \in 1..6 : /\ ToClose(k) \in Seq(Resources) /\ Len(ToClose(k)) = 6 - k
                      /\ \A j \in 1..(6 - k) : ToClose(k)[j] = CloseOrder[k + j - 1]
  <2> TAKE k \in 1..6
  <2>1. 6 - k \in Nat /\ \A j \in 1..(6 - k) : k + j - 1 \in 1..5
        OBVIOUS
  <2>2. \A n \in 1..5 : CloseOrder[n] \in Resources
        BY <1>1, ElementOfSeq
  <2> QED  BY <2>1, <2>2 DEF ToClose
<1>3. ASSUME NEW k \in 1..5
      PROVE  /\ ToClose(k) # <<>> /\ Head(ToClose(k)) = CloseOrder[k]
             /\ Tail(ToClose(k)) = ToClose(k + 1)
  <2> DEFINE s == ToClose(k)  t == ToClose(k + 1)
  <2>0. k \in 1..6
        OBVIOUS
  <2>1. /\ s \in Seq(Resources) /\ Len(s) = 6 - k
        /\ \A j \in 1..(6 - k) : s[j] = CloseOrder[k + j - 1]
        BY <1>2, <2>0
  <2>2. k + 1 \in 1..6 /\ 6 - (k + 1) = 5 - k
        OBVIOUS
  <2>3. /\ t \in Seq(Resources) /\ Len(t) = 5 - k
        /\ \A j \in 1..(5 - k) : t[j] = CloseOrder[(k + 1) + j - 1]
        BY <1>2, <2>2
  <2> HIDE DEF s, t
  <2>4. s # <<>> /\ Head(s) = CloseOrder[k]
        BY <2>1
  <2>5. /\ Tail(s) \in Seq(Resources) /\ Len(Tail(s)) = 5 - k
        /\ \A j \in 1..(5 - k) : Tail(s)[j] = s[j + 1]
        BY <2>1, <2>4, HeadTailProperties
  <2>6. \A j \in 1..(5 - k) : Tail(s)[j] = t[j]
        BY <2>1, <2>3, <2>5
  <2>7. Tail(s) = t
        BY <2>3, <2>5, <2>6, SeqEqual
  <2> QED  BY <2>4, <2>7 DEF s, t
<1>4. \A k \in 1..5 : StillOpen(k) \ {CloseOrder[k]} = StillOpen(k + 1)
      BY <1>1 DEF StillOpen
<1>5. ToClose(6) = <<>> /\ StillOpen(6) = {}
      BY <1>2 DEF StillOpen
<1>6. StillOpen(1) = Resources
      BY <1>1 DEF StillOpen, Resources
<1>7. ToClose(1) = CloseOrder
  <2>1. /\ ToClose(1) \in Seq(Resources) /\ Len(ToClose(1)) = 5
        /\ \A j \in 1..5 : ToClose(1)[j] = CloseOrder[j]
    <3>1. 1 \in 1..6 /\ 6 - 1 = 5
          OBVIOUS
    <3>2. /\ ToClose(1) \in Seq(Resources) /\ Len(ToClose(1)) = 6 - 1
          /\ \A j \in 1..(6 - 1) : ToClose(1)[j] = CloseOrder[1 + j - 1]
          BY <1>2, <3>1
    <3> HIDE DEF ToClose
    <3> QED  BY <3>1, <3>2
  <2> HIDE DEF ToClose
  <2> QED  BY <1>1, <2>1, SeqEqual
<1> QED  BY <1>2, <1>3, <1>4, <1>5, <1>6, <1>7

LEMMA OpenedParts ==
  /\ Opened(1) = {}
  /\ \A k \in 1..7 : Opened(k + 1) = Opened(k) \cup Opens[k]
  /\ Opened(8) \cup Opens[8] = Resources
  /\ \A k \in 1..7 : \E n \in 1..6 : ErrorPath[k] = ToClose(n) /\ Opened(k) = StillOpen(n)
  /\ \A k \in 1..8 : Opens[k] \subseteq Resources
<1>1. Opened(1) = {}
      BY DEF Opened
<1>2. \A k \in 1..7 : Opened(k + 1) = Opened(k) \cup Opens[k]
      BY DEF Opened
<1>3. /\ Opens[1] = {} /\ Opens[2] = {"netMgr"} /\ Opens[3] = {} /\ Opens[4] = {"dhtGateway"}
      /\ Opens[5] = {"dhtClient"} /\ Opens[6] = {} /\ Opens[7] = {"storageGate"}
      /\ Opens[8] = {"srv"}
      BY DEF Opens
<1>4. /\ Opened(2) = {} /\ Opened(3) = {"netMgr"} /\ Opened(4) = {"netMgr"}
      /\ Opened(5) = {"netMgr", "dhtGateway"} /\ Opened(6) = {"netMgr", "dhtGateway", "dhtClient"}
      /\ Opened(7) = Opened(6) /\ Opened(8) = Opened(7) \cup {"storageGate"}
  <2>1. Opened(2) = {}
        BY <1>1, <1>2, <1>3
  <2>2. Opened(3) = {"netMgr"}
        BY <2>1, <1>2, <1>3
  <2>3. Opened(4) = {"netMgr"}
        BY <2>2, <1>2, <1>3
  <2>4. Opened(5) = {"netMgr", "dhtGateway"}
        BY <2>3, <1>2, <1>3
  <2>5. Opened(6) = {"netMgr", "dhtGateway", "dhtClient"}
        BY <2>4, <1>2, <1>3
  <2>6. Opened(7) = Opened(6)
        BY <1>2, <1>3
  <2>7. Opened(8) = Opened(7) \cup {"storageGate"}
        BY <1>2, <1>3
  <2> QED  BY <2>1, <2>2, <2>3, <2>4, <2>5, <2>6, <2>7
<1>5. /\ StillOpen(6) = {} /\ StillOpen(5) = {"netMgr"} /\ StillOpen(4) = {"netMgr", "dhtGateway"}
      /\ StillOpen(3) = {"netMgr", "dhtGateway", "dhtClient"}
      BY DEF StillOpen, CloseOrder
<1>6. /\ ToClose(6) = <<>> /\ ToClose(5) = <<"netMgr">>
      /\ ToClose(4) = <<"dhtGateway", "netMgr">>
      /\ ToClose(3) = <<"dhtClient", "dhtGateway", "netMgr">>
      BY DEF ToClose, CloseOrder
<1>7. /\ ErrorPath[1] = <<>> /\ ErrorPath[2] = <<>> /\ ErrorPath[3] = <<"netMgr">>
      /\ ErrorPath[4] = <<"netMgr">> /\ ErrorPath[5] = <<"dhtGateway", "netMgr">>
      /\ ErrorPath[6] = <<"dhtClient", "dhtGateway", "netMgr">>
      /\ ErrorPath[7] = <<"dhtClient", "dhtGateway", "netMgr">>
      BY DEF ErrorPath
<1>8. ASSUME NEW k \in 1..7
      PROVE  \E n \in 1..6 : ErrorPath[k] = ToClose(n) /\ Opened(k) = StillOpen(n)
  <2>1. ErrorPath[1] = ToClose(6) /\ Opened(1) = StillOpen(6)
        BY <1>1, <1>5, <1>6, <1>7
  <2>2. ErrorPath[2] = ToClose(6) /\ Opened(2) = StillOpen(6)
        BY <1>4, <1>5, <1>6, <1>7
  <2>3. ErrorPath[3] = ToClose(5) /\ Opened(3) = StillOpen(5)
        BY <1>4, <1>5, <1>6, <1>7
  <2>4. ErrorPath[4] = ToClose(5) /\ Opened(4) = StillOpen(5)
        BY <1>4, <1>5, <1>6, <1>7
  <2>5. ErrorPath[5] = ToClose(4) /\ Opened(5) = StillOpen(4)
        BY <1>4, <1>5, <1>6, <1>7
  <2>6. ErrorPath[6] = ToClose(3) /\ Opened(6) = StillOpen(3)
        BY <1>4, <1>5, <1>6, <1>7
  <2>7. ErrorPath[7] = ToClose(3) /\ Opened(7) = StillOpen(3)
        BY <1>4, <1>5, <1>6, <1>7
  <2>8. k = 1 \/ k = 2 \/ k = 3 \/ k = 4 \/ k = 5 \/ k = 6 \/ k = 7
        OBVIOUS
  <2> HIDE DEF ToClose, StillOpen
  <2> QED  BY <2>1, <2>2, <2>3, <2>4, <2>5, <2>6, <2>7, <2>8
<1>9. Opened(8) \cup Opens[8] = Resources
      BY <1>3, <1>4 DEF Resources
<1>10. \A k \in 1..8 : Opens[k] \subseteq Resources
      BY <1>3 DEF Resources
<1> QED  BY <1>1, <1>2, <1>8, <1>9, <1>10

(* Starting. *)
LEMMA StartingStep ==
  ASSUME LifeTypeOK, LifeSound, Starting
  PROVE  LifeTypeOK' /\ LifeSound'
<1> USE DEF LifeTypeOK, LifeSound, Stages, Enter
<1>1. ASSUME Configure
      PROVE  LifeTypeOK' /\ LifeSound'
  <2>1. ToClose(6) = <<>>
        BY CloseParts
  <2>2. open = {} /\ closing = <<>> /\ step = 1
        BY <1>1 DEF Configure
  <2>3. stage' \in {"database", "failing"} /\ open' = {} /\ closing' = <<>> /\ step' = 1
        BY <1>1, <2>2 DEF Configure
  <2> QED  BY <1>1, <2>1, <2>3 DEF Configure
<1>2. ASSUME ConnectDatabase
      PROVE  LifeTypeOK' /\ LifeSound'
  <2>1. ToClose(6) = <<>> /\ Opened(1) = {}
        BY CloseParts, OpenedParts
  <2>2. open = {} /\ closing = <<>> /\ step = 1
        BY <1>2 DEF ConnectDatabase
  <2>3. stage' \in {"client", "failing"} /\ open' = {} /\ closing' = <<>> /\ step' = 1
        BY <1>2, <2>2 DEF ConnectDatabase
  <2> QED  BY <1>2, <2>1, <2>3 DEF ConnectDatabase
<1>3. ASSUME StepSucceeds
      PROVE  LifeTypeOK' /\ LifeSound'
  <2>1. open = Opened(step) /\ closing = <<>> /\ step \in 1..8
        BY <1>3 DEF StepSucceeds
  <2>2. open' = Opened(step) \cup Opens[step] /\ closing' = <<>> /\ listening' = listening
        BY <1>3, <2>1 DEF StepSucceeds
  <2>3. CASE step < 8
    <3>1. step \in 1..7 /\ step' = step + 1 /\ stage' = "client"
          BY <1>3, <2>1, <2>3 DEF StepSucceeds
    <3>2. open' = Opened(step') /\ step' \in 1..8
          BY <2>2, <3>1, OpenedParts
    <3>3. open' \in SUBSET Resources
          BY <2>1, <2>2, OpenedParts
    <3> QED  BY <2>2, <3>1, <3>2, <3>3
  <2>4. CASE ~(step < 8)
    <3>1. step = 8 /\ step' = 8 /\ stage' = "templates"
          BY <1>3, <2>1, <2>4 DEF StepSucceeds
    <3>2. open' = Resources
          BY <2>2, <3>1, OpenedParts
    <3> QED  BY <2>2, <3>1, <3>2
  <2> QED  BY <2>3, <2>4
<1>4. ASSUME StepFails
      PROVE  LifeTypeOK' /\ LifeSound'
  <2>1. step \in 1..7 /\ open = Opened(step)
        BY <1>4 DEF StepFails
  <2>2. PICK n \in 1..6 : ErrorPath[step] = ToClose(n) /\ Opened(step) = StillOpen(n)
        BY <2>1, OpenedParts
  <2>3. ToClose(n) \in Seq(Resources)
        BY CloseParts
  <2>4. closing' = ToClose(n) /\ open' = StillOpen(n) /\ stage' = "failing"
        /\ open' = open /\ step' = step /\ listening' = listening
        BY <1>4, <2>1, <2>2 DEF StepFails
  <2> QED  BY <2>3, <2>4
<1>5. ASSUME TemplatesFail
      PROVE  LifeTypeOK' /\ LifeSound'
  <2>1. ToClose(1) = CloseOrder /\ StillOpen(1) = Resources /\ CloseOrder \in Seq(Resources)
        BY CloseParts
  <2> QED  BY <1>5, <2>1 DEF TemplatesFail
<1>6. ASSUME Serve
      PROVE  LifeTypeOK' /\ LifeSound'
      BY <1>6 DEF Serve
<1> QED  BY <1>1, <1>2, <1>3, <1>4, <1>5, <1>6 DEF Starting

(* Closing and ending. *)
LEMMA EndingStep ==
  ASSUME LifeTypeOK, LifeSound,
         Signal \/ CloseNext \/ BeginDrain \/ EndDrain \/ Exit \/ Restart
  PROVE  LifeTypeOK' /\ LifeSound'
<1> USE DEF LifeTypeOK, LifeSound, Stages, Enter
<1>1. ToClose(1) = CloseOrder /\ StillOpen(1) = Resources /\ CloseOrder \in Seq(Resources)
      BY CloseParts
<1>2. stage \in {"failing", "closing", "leaving"} /\ closing = <<>> => open = {}
  <2> SUFFICES ASSUME stage \in {"failing", "closing", "leaving"}, closing = <<>>
               PROVE  open = {}
      OBVIOUS
  <2>1. PICK k \in 1..6 : closing = ToClose(k) /\ open \in {{}, StillOpen(k)}
        OBVIOUS
  <2>2. k \in 1..5 \/ k = 6
        OBVIOUS
  <2> QED  BY <2>1, <2>2, CloseParts
<1>3. ASSUME Signal
      PROVE  LifeTypeOK' /\ LifeSound'
      BY <1>1, <1>3 DEF Signal
<1>4. ASSUME CloseNext
      PROVE  LifeTypeOK' /\ LifeSound'
  <2>1. stage \in {"failing", "closing", "leaving"}
        BY <1>4 DEF CloseNext
  <2>2. PICK k \in 1..6 : closing = ToClose(k) /\ open \in {{}, StillOpen(k)}
        BY <2>1
  <2>3. k \in 1..5 /\ k + 1 \in 1..6
    <3>1. k # 6
          BY <1>4, <2>2, CloseParts DEF CloseNext
    <3> QED  BY <3>1
  <2>4. /\ Head(ToClose(k)) = CloseOrder[k] /\ Tail(ToClose(k)) = ToClose(k + 1)
        /\ StillOpen(k) \ {CloseOrder[k]} = StillOpen(k + 1)
        /\ ToClose(k + 1) \in Seq(Resources)
        BY <2>3, CloseParts
  <2>5. /\ open' = open \ {CloseOrder[k]} /\ closing' = ToClose(k + 1)
        /\ stage' = stage /\ step' = step /\ listening' = listening
        BY <1>4, <2>2, <2>4 DEF CloseNext
  <2>6. open' \in {{}, StillOpen(k + 1)}
        BY <2>2, <2>4, <2>5
  <2> HIDE DEF ToClose, StillOpen
  <2> QED  BY <2>1, <2>3, <2>4, <2>5, <2>6
<1>5. ASSUME BeginDrain
      PROVE  LifeTypeOK' /\ LifeSound'
      BY <1>2, <1>5 DEF BeginDrain
<1>6. ASSUME EndDrain
      PROVE  LifeTypeOK' /\ LifeSound'
      BY <1>1, <1>6 DEF EndDrain
<1>7. ASSUME Exit
      PROVE  LifeTypeOK' /\ LifeSound'
      BY <1>2, <1>7 DEF Exit
<1>8. ASSUME Restart
      PROVE  LifeTypeOK' /\ LifeSound'
  <2>1. stage' = "config" /\ step' = 1 /\ open' = {} /\ closing' = <<>> /\ listening' = FALSE
        BY <1>8 DEF Restart
  <2>2. 1 \in 1..8 /\ <<>> \in Seq(Resources)
        OBVIOUS
  <2> QED  BY <2>1, <2>2
<1> QED  BY <1>3, <1>4, <1>5, <1>6, <1>7, <1>8

LEMMA OrderlyAlways ==
  ASSUME LifeTypeOK, LifeSound
  PROVE  Orderly
<1>1. stage = "exited" => open = {}
      BY DEF LifeSound
<1>2. \A r \in Resources : Needs[r] \subseteq Resources
      BY DEF Needs, Resources
<1>3. \A k \in 1..6 : \A r \in StillOpen(k) : Needs[r] \subseteq StillOpen(k)
  <2>1. /\ StillOpen(6) = {} /\ StillOpen(5) = {"netMgr"}
        /\ StillOpen(4) = {"netMgr", "dhtGateway"}
        /\ StillOpen(3) = {"netMgr", "dhtGateway", "dhtClient"}
        /\ StillOpen(2) = {"netMgr", "dhtGateway", "dhtClient", "storageGate"}
        /\ StillOpen(1) = Resources
    <3>1. /\ CloseOrder[2] = "storageGate" /\ CloseOrder[3] = "dhtClient"
          /\ CloseOrder[4] = "dhtGateway" /\ CloseOrder[5] = "netMgr"
          BY DEF CloseOrder
    <3>2. StillOpen(6) = {} /\ StillOpen(1) = Resources
          BY CloseParts
    <3>3. StillOpen(5) = {"netMgr"} /\ StillOpen(4) = {"netMgr", "dhtGateway"}
          BY <3>1 DEF StillOpen
    <3>4. StillOpen(3) = {"netMgr", "dhtGateway", "dhtClient"}
          BY <3>1 DEF StillOpen
    <3>5. StillOpen(2) = {"netMgr", "dhtGateway", "dhtClient", "storageGate"}
          BY <3>1 DEF StillOpen
    <3> QED  BY <3>2, <3>3, <3>4, <3>5
  <2>2. \A r \in StillOpen(6) : Needs[r] \subseteq StillOpen(6)
        BY <2>1
  <2>3. \A r \in StillOpen(5) : Needs[r] \subseteq StillOpen(5)
        BY <2>1 DEF Needs
  <2>4. \A r \in StillOpen(4) : Needs[r] \subseteq StillOpen(4)
        BY <2>1 DEF Needs
  <2>5. \A r \in StillOpen(3) : Needs[r] \subseteq StillOpen(3)
        BY <2>1 DEF Needs
  <2>6. \A r \in StillOpen(2) : Needs[r] \subseteq StillOpen(2)
        BY <2>1 DEF Needs
  <2>7. \A r \in StillOpen(1) : Needs[r] \subseteq StillOpen(1)
        BY <2>1, <1>2
  <2>8. \A k \in 1..6 : k = 1 \/ k = 2 \/ k = 3 \/ k = 4 \/ k = 5 \/ k = 6
        OBVIOUS
  <2> QED  BY <2>2, <2>3, <2>4, <2>5, <2>6, <2>7, <2>8
<1>4. \A k \in 1..8 : \A r \in Opened(k) : Needs[r] \subseteq Opened(k)
  <2>1. \A k \in 1..7 : \A r \in Opened(k) : Needs[r] \subseteq Opened(k)
        BY <1>3, OpenedParts
  <2>2. Opened(8) = Opened(7) \cup {"storageGate"} /\ "netMgr" \in Opened(7)
    <3>1. Opened(8) = Opened(7) \cup Opens[7] /\ Opened(7) = Opened(6) \cup Opens[6]
          /\ Opened(6) = Opened(5) \cup Opens[5] /\ Opened(5) = Opened(4) \cup Opens[4]
          /\ Opened(4) = Opened(3) \cup Opens[3] /\ Opened(3) = Opened(2) \cup Opens[2]
          BY OpenedParts
    <3>2. Opens[7] = {"storageGate"} /\ Opens[2] = {"netMgr"}
          BY DEF Opens
    <3> QED  BY <3>1, <3>2
  <2>3. \A r \in Opened(8) : Needs[r] \subseteq Opened(8)
        BY <2>1, <2>2 DEF Needs
  <2> QED  BY <2>1, <2>3
<1>5. \A r \in open : Needs[r] \subseteq open
  <2>1. CASE stage \in {"config", "database", "exited", "draining"}
        BY <2>1 DEF LifeSound
  <2>2. CASE stage = "client"
        BY <2>2, <1>4 DEF LifeSound, LifeTypeOK
  <2>3. CASE stage \in {"templates", "serving"}
        BY <2>3, <1>2 DEF LifeSound
  <2>4. CASE stage \in {"failing", "closing", "leaving"}
        BY <2>4, <1>3 DEF LifeSound
  <2> QED  BY <2>1, <2>2, <2>3, <2>4 DEF LifeTypeOK, Stages
<1> QED  BY <1>1, <1>5 DEF Orderly

LEMMA LifeInitially == ASSUME LifeInit PROVE LifeTypeOK /\ LifeSound
<1>1. stage = "config" /\ step = 1 /\ open = {} /\ closing = <<>> /\ listening = FALSE
      BY DEF LifeInit
<1>2. 1 \in 1..8 /\ <<>> \in Seq(Resources)
      OBVIOUS
<1>3. LifeTypeOK
      BY <1>1, <1>2 DEF LifeTypeOK, Stages
<1>4. LifeSound
      BY <1>1 DEF LifeSound
<1> QED  BY <1>3, <1>4

(* Every step of the composition keeps the life of the program sound.      *)
LEMMA LifeStep ==
  ASSUME LifeTypeOK, LifeSound, [Next]_vars
  PROVE  LifeTypeOK' /\ LifeSound'
<1>1. CASE Run
  <2>1. \/ Starting
        \/ Signal \/ CloseNext \/ BeginDrain \/ EndDrain \/ Exit \/ Restart
        BY <1>1 DEF Run, Drained, DrainTimesOut, ProcessEnds
  <2> QED  BY <2>1, StartingStep, EndingStep
<1>2. CASE UNCHANGED lifeVars
      BY <1>2 DEF lifeVars, LifeTypeOK, LifeSound
<1>3. Run \/ UNCHANGED lifeVars
      BY DEF Next, vars
<1> QED  BY <1>1, <1>2, <1>3

(* Nothing of the remote client is open while what it works on is closed,  *)
(* and a program that has ended has left nothing open (NewClient, Close).  *)
THEOREM OrderlyHolds == Spec => []Orderly
<1>1. Init => LifeTypeOK /\ LifeSound
      BY LifeInitially DEF Init
<1>2. LifeTypeOK /\ LifeSound /\ [Next]_vars => (LifeTypeOK /\ LifeSound)'
      BY LifeStep
<1>3. LifeTypeOK /\ LifeSound => Orderly
      BY OrderlyAlways
<1> QED  BY <1>1, <1>2, <1>3, PTL DEF Spec

-----------------------------------------------------------------------------
(* Runs of bytes. *)

LEMMA BetweenParts ==
  ASSUME NEW a \in Nat, NEW b \in Nat, a <= b
  PROVE  /\ Between(a, b) \in Seq(Nat) /\ Len(Between(a, b)) = b - a
         /\ \A k \in 1..(b - a) : Between(a, b)[k] = a + k - 1
<1>1. b - a \in Nat
      OBVIOUS
<1>2. \A k \in 1..(b - a) : a + k - 1 \in Nat
      OBVIOUS
<1> QED  BY <1>1, <1>2 DEF Between

LEMMA BetweenEmpty ==
  ASSUME NEW a \in Nat, NEW b \in Nat, a <= b
  PROVE  Between(a, b) = <<>> <=> a = b
<1>1. Between(a, b) \in Seq(Nat) /\ Len(Between(a, b)) = b - a
      BY BetweenParts
<1> HIDE DEF Between
<1> QED  BY <1>1

LEMMA BetweenJoin ==
  ASSUME NEW a \in Nat, NEW b \in Nat, NEW c \in Nat, a <= b, b <= c
  PROVE  Between(a, b) \o Between(b, c) = Between(a, c)
<1> DEFINE s == Between(a, b)  t == Between(b, c)  u == Between(a, c)
<1>1. /\ s \in Seq(Nat) /\ Len(s) = b - a
      /\ \A k \in 1..(b - a) : s[k] = a + k - 1
      BY BetweenParts
<1>2. /\ t \in Seq(Nat) /\ Len(t) = c - b
      /\ \A k \in 1..(c - b) : t[k] = b + k - 1
      BY BetweenParts
<1>3. /\ u \in Seq(Nat) /\ Len(u) = c - a
      /\ \A k \in 1..(c - a) : u[k] = a + k - 1
  <2>1. a <= c
        OBVIOUS
  <2> QED  BY <2>1, BetweenParts
<1> HIDE DEF s, t, u
<1>4. /\ s \o t \in Seq(Nat) /\ Len(s \o t) = c - a
      /\ \A k \in 1..(c - a) : (s \o t)[k] = IF k <= b - a THEN s[k] ELSE t[k - (b - a)]
  <2>1. /\ s \o t \in Seq(Nat) /\ Len(s \o t) = Len(s) + Len(t)
        /\ \A k \in 1..(Len(s) + Len(t)) : (s \o t)[k] = IF k <= Len(s) THEN s[k] ELSE t[k - Len(s)]
        BY <1>1, <1>2, ConcatProperties
  <2>2. (b - a) + (c - b) = c - a
        OBVIOUS
  <2> QED  BY <1>1, <1>2, <2>1, <2>2
<1>5. \A k \in 1..(c - a) : (s \o t)[k] = u[k]
  <2> TAKE k \in 1..(c - a)
  <2>1. CASE k <= b - a
    <3>1. k \in 1..(b - a)
          BY <2>1
    <3> QED  BY <1>1, <1>3, <1>4, <2>1, <3>1
  <2>2. CASE ~(k <= b - a)
    <3>1. k - (b - a) \in 1..(c - b) /\ b + (k - (b - a)) - 1 = a + k - 1
          BY <2>2
    <3> QED  BY <1>2, <1>3, <1>4, <2>2, <3>1
  <2> QED  BY <2>1, <2>2
<1>6. s \o t = u
      BY <1>3, <1>4, <1>5, SeqEqual
<1> QED  BY <1>6 DEF s, t, u

LEMMA BetweenCut ==
  ASSUME NEW a \in Nat, NEW b \in Nat, a <= b,
         NEW m \in Nat, NEW n \in Nat, m <= n, n <= b - a
  PROVE  SubSeq(Between(a, b), m + 1, n) = Between(a + m, a + n)
<1> DEFINE s == Between(a, b)  t == SubSeq(s, m + 1, n)  u == Between(a + m, a + n)
<1>1. \A k \in 1..(b - a) : s[k] = a + k - 1
      BY BetweenParts
<1>2. /\ u \in Seq(Nat) /\ Len(u) = n - m
      /\ \A k \in 1..(n - m) : u[k] = a + m + k - 1
  <2>1. a + m \in Nat /\ a + n \in Nat /\ a + m <= a + n /\ (a + n) - (a + m) = n - m
        OBVIOUS
  <2>2. \A x, y \in Nat : x <= y =>
          /\ Between(x, y) \in Seq(Nat) /\ Len(Between(x, y)) = y - x
          /\ \A k \in 1..(y - x) : Between(x, y)[k] = x + k - 1
        BY BetweenParts
  <2>3. /\ u \in Seq(Nat) /\ Len(u) = (a + n) - (a + m)
        /\ \A k \in 1..((a + n) - (a + m)) : u[k] = (a + m) + k - 1
        BY <2>1, <2>2
  <2> HIDE DEF u
  <2> QED  BY <2>1, <2>3
<1> HIDE DEF s, u
<1>3. /\ t \in Seq(Nat) /\ Len(t) = n - m
      /\ \A k \in 1..(n - m) : t[k] = s[m + k]
  <2>1. m + 1 \in Int /\ n \in Int /\ \A k \in (m + 1)..n : s[k] \in Nat
        BY <1>1
  <2>2. /\ t \in Seq(Nat)
        /\ Len(t) = IF m + 1 <= n THEN n - (m + 1) + 1 ELSE 0
        /\ \A k \in 1..(n - (m + 1) + 1) : t[k] = s[(m + 1) + k - 1]
        BY <2>1, SubSeqProperties
  <2>3. n - (m + 1) + 1 = n - m /\ \A k \in 1..(n - m) : (m + 1) + k - 1 = m + k
        OBVIOUS
  <2> HIDE DEF t
  <2> QED  BY <2>2, <2>3
<1> HIDE DEF t
<1>4. \A k \in 1..(n - m) : t[k] = u[k]
      BY <1>1, <1>2, <1>3
<1>5. t = u
      BY <1>2, <1>3, <1>4, SeqEqual
<1> QED  BY <1>5 DEF s, t, u

(* BetweenCut for all numbers at once. *)
LEMMA BetweenCuts ==
  \A j, l, m, k \in Nat : j <= l /\ m <= k /\ k <= l - j =>
    SubSeq(Between(j, l), m + 1, k) = Between(j + m, j + k)
<1> SUFFICES ASSUME NEW j \in Nat, NEW l \in Nat, NEW m \in Nat, NEW k \in Nat,
                    j <= l, m <= k, k <= l - j
             PROVE  SubSeq(Between(j, l), m + 1, k) = Between(j + m, j + k)
    OBVIOUS
<1> QED BY BetweenCut

-----------------------------------------------------------------------------
(* Pieces and offsets (GetFileOffsets). *)

LEMMA DivMod ==
  ASSUME NEW d \in Nat \ {0}
  PROVE  \A a \in Nat : /\ a \div d \in Nat /\ (a % d) \in 0..(d - 1)
                        /\ a = ((a \div d) * d) + (a % d)
  OBVIOUS

LEMMA Multiples ==
  ASSUME NEW d \in Nat \ {0}
  PROVE  \A p \in Nat : p * d \in Nat /\ (p + 1) * d = (p * d) + d
  OBVIOUS

LEMMA MultiplesGrow ==
  ASSUME NEW d \in Nat \ {0}
  PROVE  \A p, q \in Nat : p < q => (p + 1) * d <= q * d
  OBVIOUS

LEMMA InfoParts ==
  ASSUME NEW i \in Infos
  PROVE  /\ i.range \in Files /\ i.range.from \in Nat /\ i.range.to \in Nat
         /\ i.range.from <= i.range.to
         /\ i.FromPiece \in Nat /\ i.ToPiece \in Nat /\ i.FromPiece <= i.ToPiece
         /\ i.FromPieceOffset \in 0..(PieceSize - 1) /\ i.ToPieceOffset \in 0..PieceSize
         /\ i.range.from = (i.FromPiece * PieceSize) + i.FromPieceOffset
         /\ i.range.to = (i.ToPiece * PieceSize) + i.ToPieceOffset
<1>1. PICK f \in Files : i \in Offsets(f)
      BY DEF Infos
<1>2. f \in [from : Nat, to : Nat] /\ f.from <= f.to /\ PieceSize \in Nat \ {0}
      BY StreamAssumption
<1>3. f.from \in Nat /\ f.to \in Nat
      BY <1>2
<1> DEFINE d == PieceSize  x == f.from \div d  y == f.to \div d
<1>4. /\ i.range = f /\ i.FromPiece = x /\ i.FromPieceOffset = (f.from % d)
      /\ i.ToPieceOffset = f.to - (i.ToPiece * d)
      /\ \/ i.ToPiece = y
         \/ i.ToPiece = y - 1 /\ (f.to % d) = 0 /\ f.from < f.to
      BY <1>1 DEF Offsets
<1>5. /\ x \in Nat /\ (f.from % d) \in 0..(d - 1) /\ f.from = (x * d) + (f.from % d)
      /\ y \in Nat /\ (f.to % d) \in 0..(d - 1) /\ f.to = (y * d) + (f.to % d)
      BY <1>2, <1>3, DivMod
<1>6. /\ \A p \in Nat : p * d \in Nat /\ (p + 1) * d = (p * d) + d
      /\ \A p, q \in Nat : p < q => (p + 1) * d <= q * d
      BY <1>2, Multiples, MultiplesGrow
<1>7. /\ y * d \in Nat /\ (y + 1) * d = (y * d) + d
      /\ x * d \in Nat /\ (x + 1) * d = (x * d) + d
      /\ (y < x => (y + 1) * d <= x * d) /\ (x < y => (x + 1) * d <= y * d)
      BY <1>5, <1>6
<1> DEFINE xd == x * d  yd == y * d  fr == f.from % d  tr == f.to % d
<1>8. x <= y
  <2> SUFFICES ASSUME y < x PROVE FALSE
      BY <1>5
  <2> HIDE DEF x, y
  <2> DEFINE y1 == (y + 1) * d
  <2>1. y1 = yd + d /\ y1 <= xd
        BY <1>7
  <2>2. xd \in Nat /\ yd \in Nat /\ f.from = xd + fr /\ f.to = yd + tr
        BY <1>5, <1>7
  <2> HIDE DEF xd, yd, y1
  <2>3. fr \in 0..(d - 1) /\ tr \in 0..(d - 1)
        BY <1>5
  <2> HIDE DEF fr, tr
  <2> QED  BY <1>2, <1>3, <2>1, <2>2, <2>3
<1>9. CASE i.ToPiece = y
  <2>1. i.ToPieceOffset = f.to - yd /\ f.to = yd + tr /\ yd \in Nat /\ tr \in 0..(d - 1)
        BY <1>4, <1>5, <1>7, <1>9
  <2>2. i.range.from = (i.FromPiece * d) + i.FromPieceOffset
        BY <1>4, <1>5
  <2>3. i.range.to = yd + i.ToPieceOffset /\ i.ToPieceOffset \in 0..d
    <3> HIDE DEF yd, tr
    <3> QED  BY <1>2, <1>4, <2>1
  <2> QED  BY <1>2, <1>3, <1>4, <1>5, <1>8, <1>9, <2>2, <2>3
<1>10. CASE i.ToPiece = y - 1 /\ (f.to % d) = 0 /\ f.from < f.to
  <2> DEFINE z == y - 1  zd == z * d
  <2>1. x < y
    <3>1. f.to = yd /\ f.from = xd + fr /\ xd \in Nat /\ yd \in Nat /\ fr \in 0..(d - 1)
          BY <1>5, <1>7, <1>10
    <3>2. x # y
      <4>1. x = y => xd = yd
            OBVIOUS
      <4> HIDE DEF xd, yd, fr
      <4> QED  BY <1>10, <3>1, <4>1
    <3> HIDE DEF x, y
    <3> QED  BY <1>5, <1>8, <3>2
  <2>2. z \in Nat /\ x <= z /\ z + 1 = y
        BY <1>5, <2>1
  <2>3. zd \in Nat /\ yd = zd + d
    <3>1. z * d \in Nat /\ (z + 1) * d = (z * d) + d
          BY <1>6, <2>2
    <3> QED  BY <2>2, <3>1
  <2>4. i.ToPieceOffset = f.to - zd /\ f.to = yd
    <3>1. f.to = yd
          BY <1>5, <1>7, <1>10
    <3> QED  BY <1>4, <1>10, <3>1
  <2>5. i.range.from = (i.FromPiece * d) + i.FromPieceOffset
        BY <1>4, <1>5
  <2>6. i.range.to = zd + i.ToPieceOffset /\ i.ToPieceOffset \in 0..d
    <3> HIDE DEF yd, zd
    <3> QED  BY <1>2, <1>3, <1>4, <2>3, <2>4
  <2> QED  BY <1>2, <1>3, <1>4, <1>5, <1>10, <2>2, <2>5, <2>6
<1> QED  BY <1>4, <1>9, <1>10

(* The shares of the pieces follow each other from the file's beginning to *)
(* its end, and each part that is written is its piece's share.            *)
LEMMA Shares ==
  ASSUME NEW i \in Infos, NEW p \in i.FromPiece..i.ToPiece
  PROVE  /\ From(i, p) \in Nat /\ To(i, p) \in Nat /\ From(i, p) <= To(i, p)
         /\ i.range.from <= From(i, p) /\ To(i, p) <= i.range.to
         /\ p < i.ToPiece => p + 1 \in i.FromPiece..i.ToPiece /\ From(i, p + 1) = To(i, p)
         /\ ~(p < i.ToPiece) => To(i, p) = i.range.to
         /\ Part(i, p) = Between(From(i, p), To(i, p))
<1> DEFINE d == PieceSize  f == i.range.from  t == i.range.to  x == i.FromPiece  y == i.ToPiece
           b == p * d  c == (p + 1) * d  xd == x * d  yd == y * d
           fo == i.FromPieceOffset  to == i.ToPieceOffset
<1>1. /\ f \in Nat /\ t \in Nat /\ f <= t /\ x \in Nat /\ y \in Nat /\ p \in Nat /\ d \in Nat \ {0}
      /\ x <= p /\ p <= y /\ fo \in 0..(d - 1) /\ to \in 0..d
      /\ f = xd + fo /\ t = yd + to
      BY InfoParts, StreamAssumption
<1>2. /\ \A q \in Nat : q * d \in Nat /\ (q + 1) * d = (q * d) + d
      /\ \A q, r \in Nat : q < r => (q + 1) * d <= r * d
      BY <1>1, Multiples, MultiplesGrow
<1>3. /\ b \in Nat /\ c \in Nat /\ c = b + d /\ xd \in Nat /\ yd \in Nat
      /\ (x < p => xd + d <= b) /\ (p < y => c <= yd)
      /\ (x = p => xd = b) /\ (p = y => yd = b)
  <2>1. b \in Nat /\ c = b + d /\ xd \in Nat /\ (x + 1) * d = xd + d /\ yd \in Nat
        BY <1>1, <1>2
  <2>2. (x < p => (x + 1) * d <= b) /\ (p < y => c <= yd)
        BY <1>1, <1>2
  <2>3. c \in Nat
    <3> HIDE DEF b, c
    <3> QED  BY <1>1, <2>1
  <2>4. (x = p => xd = b) /\ (p = y => yd = b)
        OBVIOUS
  <2>5. x < p => xd + d <= b
        BY <2>1, <2>2
  <2> QED  BY <2>1, <2>2, <2>3, <2>4, <2>5
<1>4. /\ From(i, p) = IF p = x THEN f ELSE b
      /\ To(i, p) = IF p = y THEN t ELSE c
      BY DEF From, To
<1> HIDE DEF b, c, xd, yd, f, t, x, y, fo, to
<1>5. /\ From(i, p) \in Nat /\ To(i, p) \in Nat /\ b <= From(i, p) /\ To(i, p) <= c
      /\ From(i, p) <= To(i, p) /\ f <= From(i, p) /\ To(i, p) <= t
      BY <1>1, <1>3, <1>4
<1>6. (IF p = y THEN to ELSE d) = To(i, p) - b
      BY <1>1, <1>3, <1>4
<1>7. (IF p = x THEN fo + 1 ELSE 1) = (From(i, p) - b) + 1
      BY <1>1, <1>3, <1>4
<1>8. Part(i, p) = SubSeq(Between(b, c), (From(i, p) - b) + 1, To(i, p) - b)
      BY <1>6, <1>7 DEF Part, Data, b, c, x, y, fo, to
<1>9. Part(i, p) = Between(From(i, p), To(i, p))
  <2>1. \A j, k, m, n \in Nat : j <= k /\ m <= n /\ n <= k - j =>
          SubSeq(Between(j, k), m + 1, n) = Between(j + m, j + n)
        BY BetweenCuts
  <2>2. /\ From(i, p) - b \in Nat /\ To(i, p) - b \in Nat /\ b <= c
        /\ From(i, p) - b <= To(i, p) - b /\ To(i, p) - b <= c - b
        /\ b + (From(i, p) - b) = From(i, p) /\ b + (To(i, p) - b) = To(i, p)
        BY <1>3, <1>5
  <2> HIDE DEF Between
  <2> DEFINE m == From(i, p) - b  n == To(i, p) - b
  <2>3. SubSeq(Between(b, c), m + 1, n) = Between(b + m, b + n)
    <3>1. b \in Nat /\ c \in Nat /\ m \in Nat /\ n \in Nat /\ b <= c /\ m <= n /\ n <= c - b
          BY <1>3, <2>2
    <3> HIDE DEF m, n
    <3> QED  BY <2>1, <3>1
  <2> QED  BY <1>8, <2>2, <2>3
<1>10. p < y => p + 1 \in x..y /\ From(i, p + 1) = To(i, p)
  <2> SUFFICES ASSUME p < y PROVE p + 1 \in x..y /\ From(i, p + 1) = To(i, p)
      OBVIOUS
  <2>1. p + 1 \in x..y /\ p + 1 # x /\ p # y
        BY <1>1
  <2>2. From(i, p + 1) = (p + 1) * d
        BY <2>1 DEF From, x
  <2> QED  BY <1>4, <2>1, <2>2 DEF c
<1>11. ~(p < y) => To(i, p) = t
       BY <1>1, <1>4
<1> QED  BY <1>5, <1>9, <1>10, <1>11 DEF f, t, x, y

-----------------------------------------------------------------------------
(* One step of one stream. *)

Sound == \A t \in Streams : StreamSound(t)

(* What StreamSound reads of a stream stays as it is. *)
Same(t) ==
  /\ info'[t] = info[t] /\ html'[t] = html[t] /\ feeder'[t] = feeder[t]
  /\ piece'[t] = piece[t] /\ rest'[t] = rest[t] /\ pipe'[t] = pipe[t]
  /\ reader'[t] = reader[t] /\ chunk'[t] = chunk[t] /\ sent'[t] = sent[t]
  /\ cause'[t] = cause[t] /\ late'[t] = late[t] /\ overdue'[t] = overdue[t]

LEMMA Undisturbed ==
  ASSUME NEW t \in Streams, StreamSound(t), Same(t)
  PROVE  StreamSound(t)'
  BY DEF Same, StreamSound, InStep, PageWaits, Got, Reading, Consuming

LEMMA OneStep ==
  ASSUME NEW s \in Streams, Sound, StreamSound(s)',
         \A t \in Streams \ {s} : Same(t)
  PROVE  Sound'
  BY Undisturbed DEF Sound

(* The goroutine finds the context done, or goes on. *)
LEMMA CheckContextStep ==
  ASSUME StreamTypeOK, Sound, NEW s \in Streams, CheckContext(s)
  PROVE  StreamTypeOK' /\ Sound'
<1>1. /\ feeder[s] = "check"
      /\ info' = info /\ html' = html /\ piece' = piece /\ rest' = rest /\ reader' = reader
      /\ chunk' = chunk /\ sent' = sent /\ cause' = cause /\ late' = late /\ gone' = gone
      /\ overdue' = overdue /\ activeStreams' = activeStreams
      BY DEF CheckContext, readerVars, clientVars
<1>2. \/ feeder' = [feeder EXCEPT ![s] = "ended"] /\ pipe' = [pipe EXCEPT ![s] = "error"]
      \/ feeder' = [feeder EXCEPT ![s] = "fetch"] /\ pipe' = pipe
      BY DEF CheckContext, Ends
<1>3. StreamTypeOK'
      BY <1>1, <1>2 DEF StreamTypeOK
<1>4. \A t \in Streams \ {s} : Same(t)
      BY <1>1, <1>2 DEF Same, StreamTypeOK
<1>5. \/ feeder'[s] = "ended" /\ pipe'[s] = "error"
      \/ feeder'[s] = "fetch" /\ pipe'[s] = pipe[s]
      BY <1>2 DEF StreamTypeOK
<1>6. StreamSound(s)
      BY DEF Sound
<1>7. StreamSound(s)'
      BY <1>1, <1>5, <1>6 DEF StreamSound, InStep, PageWaits, Got, Reading, Consuming
<1> QED  BY <1>3, <1>4, <1>7, OneStep

(* The goroutine ends with an error: fetch.Get or Write has failed.        *)
LEMMA FeederFails ==
  ASSUME StreamTypeOK, Sound, NEW s \in Streams, FetchFails(s) \/ WriteFails(s)
  PROVE  StreamTypeOK' /\ Sound'
<1>1. /\ feeder' = [feeder EXCEPT ![s] = "ended"] /\ pipe' = [pipe EXCEPT ![s] = "error"]
      /\ info' = info /\ html' = html /\ piece' = piece /\ rest' = rest /\ reader' = reader
      /\ chunk' = chunk /\ sent' = sent /\ cause' = cause /\ late' = late /\ gone' = gone
      /\ overdue' = overdue /\ activeStreams' = activeStreams
      BY DEF FetchFails, WriteFails, Ends, readerVars, clientVars
<1>2. feeder[s] \in {"fetch", "write"}
      BY DEF FetchFails, WriteFails
<1>3. StreamTypeOK'
      BY <1>1 DEF StreamTypeOK
<1>4. \A t \in Streams \ {s} : Same(t)
      BY <1>1 DEF Same, StreamTypeOK
<1>5. feeder'[s] = "ended" /\ pipe'[s] = "error"
      BY <1>1 DEF StreamTypeOK
<1>6. StreamSound(s)
      BY DEF Sound
<1>7. StreamSound(s)'
      BY <1>1, <1>2, <1>5, <1>6 DEF StreamSound, InStep, PageWaits, Got, Reading, Consuming
<1> QED  BY <1>3, <1>4, <1>7, OneStep

(* All of the present piece has been taken: the next one, or the end.      *)
LEMMA NextPieceStep ==
  ASSUME StreamTypeOK, Sound, NEW s \in Streams, feeder[s] \in {"fetch", "write"},
         Reading(s) => Got(s) = Between(info[s].range.from, To(info[s], piece[s])),
         html[s] /\ reader[s] = "read" => Part(info[s], piece[s]) = <<>>,
         NextPiece(s), UNCHANGED <<info, rest, readerVars, clientVars>>
  PROVE  StreamTypeOK' /\ Sound'
<1> DEFINE i == info[s]  p == piece[s]
<1>1. /\ info' = info /\ html' = html /\ rest' = rest /\ reader' = reader
      /\ chunk' = chunk /\ sent' = sent /\ cause' = cause /\ late' = late /\ gone' = gone
      /\ overdue' = overdue /\ activeStreams' = activeStreams
      BY DEF readerVars, clientVars
<1>2. StreamSound(s)
      BY DEF Sound
<1>3. i \in Infos /\ p \in i.FromPiece..i.ToPiece /\ pipe[s] = "open"
      BY <1>2 DEF StreamSound
<1>4. i.FromPiece \in Nat /\ i.ToPiece \in Nat /\ p \in Nat
      BY <1>3, InfoParts
<1>5. /\ p < i.ToPiece => p + 1 \in i.FromPiece..i.ToPiece /\ From(i, p + 1) = To(i, p)
      /\ ~(p < i.ToPiece) => To(i, p) = i.range.to
      BY <1>3, Shares
<1>6. html[s] /\ reader[s] = "read" =>
        sent[s] = <<>> /\ \A q \in i.FromPiece..p : Part(i, q) = <<>>
  <2> SUFFICES ASSUME html[s], reader[s] = "read"
               PROVE  sent[s] = <<>> /\ \A q \in i.FromPiece..p : Part(i, q) = <<>>
      OBVIOUS
  <2>1. sent[s] = <<>> /\ \A q \in i.FromPiece..(p - 1) : Part(i, q) = <<>>
        BY <1>2 DEF StreamSound, PageWaits
  <2>2. \A q \in i.FromPiece..p : q \in i.FromPiece..(p - 1) \/ q = p
        BY <1>4
  <2> QED  BY <2>1, <2>2
<1>7. CASE p < i.ToPiece
  <2>1. /\ feeder' = [feeder EXCEPT ![s] = "check"] /\ piece' = [piece EXCEPT ![s] = p + 1]
        /\ pipe' = pipe
        BY <1>7 DEF NextPiece
  <2>2. StreamTypeOK'
        BY <1>1, <1>4, <2>1 DEF StreamTypeOK
  <2>3. \A t \in Streams \ {s} : Same(t)
        BY <1>1, <2>1 DEF Same, StreamTypeOK
  <2>4. feeder'[s] = "check" /\ piece'[s] = p + 1 /\ (p + 1) - 1 = p
        BY <1>4, <2>1 DEF StreamTypeOK
  <2>5. \A q \in i.FromPiece..(piece'[s] - 1) : q \in i.FromPiece..p
        BY <2>4
  <2>6. p + 1 \in i.FromPiece..i.ToPiece /\ From(i, p + 1) = To(i, p)
        BY <1>5, <1>7
  <2>7. InStep(s)'
        BY <1>1, <1>2, <1>3, <2>1, <2>4, <2>6 DEF InStep, Got, Reading, From
  <2>8. PageWaits(s)'
        BY <1>1, <1>6, <2>1, <2>4, <2>5 DEF PageWaits, Part, Data
  <2>9. StreamSound(s)'
        BY <1>1, <1>2, <1>3, <2>1, <2>4, <2>6, <2>7, <2>8 DEF StreamSound, Consuming, Got, Reading
  <2> QED  BY <2>2, <2>3, <2>9, OneStep
<1>8. CASE ~(p < i.ToPiece)
  <2>1. /\ feeder' = [feeder EXCEPT ![s] = "ended"] /\ pipe' = [pipe EXCEPT ![s] = "eof"]
        /\ piece' = piece
        BY <1>8 DEF NextPiece, Ends
  <2>2. StreamTypeOK'
        BY <1>1, <2>1 DEF StreamTypeOK
  <2>3. \A t \in Streams \ {s} : Same(t)
        BY <1>1, <2>1 DEF Same, StreamTypeOK
  <2>4. feeder'[s] = "ended" /\ pipe'[s] = "eof"
        BY <2>1 DEF StreamTypeOK
  <2>5. Reading(s) => Got(s) = Bytes(i.range)
        BY <1>5, <1>8 DEF Bytes
  <2>6. InStep(s)'
        BY <1>1, <2>4, <2>5 DEF InStep, Got, Reading, Bytes
  <2>7. PageWaits(s)'
        BY <1>1, <1>6, <2>4 DEF PageWaits
  <2>8. StreamSound(s)'
        BY <1>1, <1>2, <1>3, <2>4, <2>6, <2>7 DEF StreamSound, Consuming, Got, Reading
  <2> QED  BY <2>2, <2>3, <2>8, OneStep
<1> QED  BY <1>7, <1>8

(* A piece arrives: an empty part is passed over, any other is written.    *)
LEMMA PieceArrivesStep ==
  ASSUME StreamTypeOK, Sound, NEW s \in Streams, PieceArrives(s)
  PROVE  StreamTypeOK' /\ Sound'
<1> DEFINE i == info[s]  p == piece[s]
<1>1. feeder[s] = "fetch"
      BY DEF PieceArrives
<1>2. StreamSound(s)
      BY DEF Sound
<1>3. i \in Infos /\ p \in i.FromPiece..i.ToPiece /\ pipe[s] = "open"
      BY <1>1, <1>2 DEF StreamSound
<1>4. /\ From(i, p) \in Nat /\ To(i, p) \in Nat /\ From(i, p) <= To(i, p)
      /\ Part(i, p) = Between(From(i, p), To(i, p))
      BY <1>3, Shares
<1>5. Reading(s) => Got(s) = Between(i.range.from, From(i, p))
      BY <1>1, <1>2 DEF StreamSound, InStep
<1>6. CASE Part(i, p) = <<>>
  <2>1. NextPiece(s) /\ UNCHANGED <<info, rest, readerVars, clientVars>>
        BY <1>6 DEF PieceArrives
  <2>2. From(i, p) = To(i, p)
    <3>1. \A a, b \in Nat : a <= b => (Between(a, b) = <<>> <=> a = b)
          BY BetweenEmpty
    <3> QED  BY <1>4, <1>6, <3>1
  <2>3. Reading(s) => Got(s) = Between(i.range.from, To(i, p))
        BY <1>5, <2>2
  <2> QED  BY <1>1, <1>6, <2>1, <2>3, NextPieceStep
<1>7. CASE Part(i, p) # <<>>
  <2>1. /\ feeder' = [feeder EXCEPT ![s] = "write"] /\ rest' = [rest EXCEPT ![s] = Part(i, p)]
        /\ piece' = piece /\ pipe' = pipe
        /\ info' = info /\ html' = html /\ reader' = reader
        /\ chunk' = chunk /\ sent' = sent /\ cause' = cause /\ late' = late /\ gone' = gone
        /\ overdue' = overdue /\ activeStreams' = activeStreams
        BY <1>7 DEF PieceArrives, readerVars, clientVars
  <2>2. Part(i, p) \in Seq(Nat)
        BY <1>4, BetweenParts
  <2>3. StreamTypeOK'
        BY <2>1, <2>2 DEF StreamTypeOK
  <2>4. \A t \in Streams \ {s} : Same(t)
        BY <2>1 DEF Same, StreamTypeOK
  <2>5. feeder'[s] = "write" /\ rest'[s] = Part(i, p)
        BY <2>1 DEF StreamTypeOK
  <2>6. InStep(s)'
    <3>1. From(i, p) \in From(i, p)..To(i, p)
          BY <1>4
    <3>2. Part(i, p) = Between(From(i, p), To(i, p))
          BY <1>4
    <3>3. rest'[s] = Between(From(i, p), To(i, p))
          BY <2>5, <3>2
    <3>4. Reading(s)' => Got(s)' = Between(i.range.from, From(i, p))
          BY <1>5, <2>1 DEF Reading, Got
    <3> QED  BY <1>3, <2>1, <2>5, <3>1, <3>3, <3>4 DEF InStep, From, To
  <2>7. PageWaits(s)'
        BY <1>1, <1>2, <2>1, <2>5 DEF StreamSound, PageWaits, Part, Data
  <2>8. StreamSound(s)'
        BY <1>1, <1>2, <1>3, <2>1, <2>5, <2>6, <2>7 DEF StreamSound, Consuming, Got, Reading
  <2> QED  BY <2>3, <2>4, <2>8, OneStep
<1> QED  BY <1>6, <1>7

(* Write returns when its bytes have been taken. *)
LEMMA WriteReturnsStep ==
  ASSUME StreamTypeOK, Sound, NEW s \in Streams, WriteReturns(s)
  PROVE  StreamTypeOK' /\ Sound'
<1> DEFINE i == info[s]  p == piece[s]
<1>1. /\ feeder[s] = "write" /\ rest[s] = <<>> /\ NextPiece(s)
      /\ UNCHANGED <<info, rest, readerVars, clientVars>>
      BY DEF WriteReturns
<1>2. StreamSound(s)
      BY DEF Sound
<1>3. i \in Infos /\ p \in i.FromPiece..i.ToPiece
      BY <1>1, <1>2 DEF StreamSound
<1>4. From(i, p) \in Nat /\ To(i, p) \in Nat /\ From(i, p) <= To(i, p)
      BY <1>3, Shares
<1>5. PICK x \in From(i, p)..To(i, p) :
        /\ rest[s] = Between(x, To(i, p))
        /\ Reading(s) => Got(s) = Between(i.range.from, x)
      BY <1>1, <1>2 DEF StreamSound, InStep
<1>6. x = To(i, p)
  <2>1. \A a, b \in Nat : a <= b => (Between(a, b) = <<>> <=> a = b)
        BY BetweenEmpty
  <2> QED  BY <1>1, <1>4, <1>5, <2>1
<1>7. html[s] /\ reader[s] = "read" => Part(i, p) = <<>>
      BY <1>1, <1>2 DEF StreamSound, PageWaits
<1> QED  BY <1>1, <1>5, <1>6, <1>7, NextPieceStep

(* Time passes, or the client goes. *)
LEMMA OutsideStep ==
  ASSUME StreamTypeOK, Sound, NEW s \in Streams, DeadlinePasses(s) \/ ClientLeaves(s)
  PROVE  StreamTypeOK' /\ Sound'
<1>1. /\ info' = info /\ feeder' = feeder /\ piece' = piece /\ rest' = rest /\ pipe' = pipe
      /\ html' = html /\ reader' = reader /\ chunk' = chunk /\ sent' = sent /\ cause' = cause
      /\ activeStreams' = activeStreams /\ overdue' = overdue
      BY DEF DeadlinePasses, ClientLeaves, feederVars, readerVars
<1>2. \/ late' = [late EXCEPT ![s] = TRUE] /\ gone' = gone
      \/ late' = late /\ gone' = [gone EXCEPT ![s] = TRUE]
      BY DEF DeadlinePasses, ClientLeaves
<1>3. StreamTypeOK'
      BY <1>1, <1>2 DEF StreamTypeOK
<1>4. \A t \in Streams \ {s} : Same(t)
      BY <1>1, <1>2 DEF Same, StreamTypeOK
<1>5. late'[s] = late[s] \/ late'[s] = TRUE
      BY <1>2 DEF StreamTypeOK
<1>6. StreamSound(s)
      BY DEF Sound
<1>7. StreamSound(s)'
      BY <1>1, <1>5, <1>6 DEF StreamSound, InStep, PageWaits, Got, Reading, Consuming
<1> QED  BY <1>3, <1>4, <1>7, OneStep

(* The consumer goes on to read, or leaves: the deadline has passed, or    *)
(* the pipe has ended.                                                     *)
LEMMA LoopStep ==
  ASSUME StreamTypeOK, Sound, NEW s \in Streams, LoopTop(s) \/ ReadEnds(s)
  PROVE  StreamTypeOK' /\ Sound'
<1>1. /\ info' = info /\ feeder' = feeder /\ piece' = piece /\ rest' = rest /\ pipe' = pipe
      /\ html' = html /\ sent' = sent /\ chunk' = chunk
      /\ activeStreams' = activeStreams /\ overdue' = overdue /\ late' = late /\ gone' = gone
      BY DEF LoopTop, ReadEnds, Leave, feederVars, clientVars
<1>2. StreamSound(s)
      BY DEF Sound
<1>3. CASE /\ reader[s] = "loop" /\ ~late[s] /\ reader' = [reader EXCEPT ![s] = "read"]
           /\ cause' = cause
  <2>1. reader'[s] = "read" /\ cause'[s] = cause[s]
        BY <1>3 DEF StreamTypeOK
  <2>2. StreamTypeOK'
        BY <1>1, <1>3 DEF StreamTypeOK
  <2>3. \A t \in Streams \ {s} : Same(t)
        BY <1>1, <1>3 DEF Same, StreamTypeOK
  <2>4. StreamSound(s)'
        BY <1>1, <1>2, <1>3, <2>1
        DEF StreamSound, InStep, PageWaits, Got, Reading, Consuming
  <2> QED  BY <2>2, <2>3, <2>4, OneStep
<1>4. CASE /\ reader[s] \in {"loop", "read"} /\ ~html[s] /\ reader' = [reader EXCEPT ![s] = "flush"]
           /\ \E why \in {"deadline", "eof", "error"} : cause' = [cause EXCEPT ![s] = why]
  <2>1. reader'[s] = "flush"
        BY <1>4 DEF StreamTypeOK
  <2>2. StreamTypeOK'
        BY <1>1, <1>4 DEF StreamTypeOK
  <2>3. \A t \in Streams \ {s} : Same(t)
        BY <1>1, <1>4 DEF Same, StreamTypeOK
  <2>4. StreamSound(s)'
        BY <1>1, <1>2, <1>4, <2>1
        DEF StreamSound, InStep, PageWaits, Got, Reading, Consuming
  <2> QED  BY <2>2, <2>3, <2>4, OneStep
<1>5. CASE LoopTop(s)
  <2>1. reader[s] = "loop" /\ ~html[s]
        BY <1>2, <1>5 DEF LoopTop, StreamSound
  <2>2. \/ late[s] /\ reader' = [reader EXCEPT ![s] = "flush"]
           /\ cause' = [cause EXCEPT ![s] = "deadline"]
        \/ ~late[s] /\ reader' = [reader EXCEPT ![s] = "read"] /\ cause' = cause
        BY <1>5 DEF LoopTop, Leave
  <2> QED  BY <1>3, <1>4, <2>1, <2>2
<1>6. CASE ReadEnds(s)
  <2>1. /\ reader[s] = "read" /\ ~html[s] /\ pipe[s] \in {"eof", "error"}
        /\ reader' = [reader EXCEPT ![s] = "flush"] /\ cause' = [cause EXCEPT ![s] = pipe[s]]
        BY <1>6 DEF ReadEnds, Leave, StreamTypeOK
  <2> QED  BY <1>4, <2>1
<1> QED  BY <1>5, <1>6

LEMMA BetweenBegins ==
  ASSUME NEW a \in Nat, NEW b \in Nat, a <= b, NEW s \in Seq(Nat), NEW t \in Seq(Nat),
         s \o t = Between(a, b)
  PROVE  a + Len(s) <= b /\ s = Between(a, a + Len(s))
<1>1. /\ Between(a, b) \in Seq(Nat) /\ Len(Between(a, b)) = b - a
      /\ \A k \in 1..(b - a) : Between(a, b)[k] = a + k - 1
      BY BetweenParts
<1>2. /\ Len(s \o t) = Len(s) + Len(t) /\ Len(s) \in Nat /\ Len(t) \in Nat
      /\ \A k \in 1..(Len(s) + Len(t)) : (s \o t)[k] = IF k <= Len(s) THEN s[k] ELSE t[k - Len(s)]
      BY ConcatProperties, LenProperties
<1> DEFINE n == Len(s)  u == Between(a, a + n)
<1>3. a + n <= b
  <2> HIDE DEF Between
  <2> QED  BY <1>1, <1>2
<1>4. u \in Seq(Nat) /\ Len(u) = n /\ \A k \in 1..n : u[k] = a + k - 1
  <2>1. \A x, y \in Nat : x <= y =>
          /\ Between(x, y) \in Seq(Nat) /\ Len(Between(x, y)) = y - x
          /\ \A k \in 1..(y - x) : Between(x, y)[k] = x + k - 1
        BY BetweenParts
  <2>2. a + n \in Nat /\ a <= a + n /\ (a + n) - a = n
        BY <1>2
  <2>3. /\ u \in Seq(Nat) /\ Len(u) = (a + n) - a
        /\ \A k \in 1..((a + n) - a) : u[k] = a + k - 1
        BY <2>1, <2>2
  <2> HIDE DEF u
  <2> QED  BY <2>2, <2>3
<1>5. \A k \in 1..n : s[k] = a + k - 1
  <2> TAKE k \in 1..n
  <2>1. k \in 1..(Len(s) + Len(t)) /\ k \in 1..(b - a)
        BY <1>2, <1>3
  <2> HIDE DEF Between
  <2> QED  BY <1>1, <1>2, <2>1
<1> HIDE DEF u
<1>6. \A k \in 1..Len(s) : s[k] = u[k]
      BY <1>4, <1>5
<1>7. s = u
      BY <1>4, <1>6, SeqEqual
<1> QED  BY <1>3, <1>7 DEF u

(* A file's range, before and after it is known which file it is.          *)
LEMMA RangeParts ==
  ASSUME StreamTypeOK, NEW s \in Streams
  PROVE  /\ info[s].range.from \in Nat /\ info[s].range.to \in Nat
         /\ info[s].range.from <= info[s].range.to
<1>1. CASE info[s] \in Infos
      BY <1>1, InfoParts
<1>2. CASE info[s] = NoInfo
      BY <1>2 DEF NoInfo
<1> QED  BY <1>1, <1>2 DEF StreamTypeOK

(* What has been passed on is a beginning of what has been read.           *)
LEMMA SentBegins ==
  ASSUME StreamTypeOK, NEW s \in Streams, StreamSound(s)
  PROVE  \E y \in info[s].range.from..info[s].range.to :
           sent[s] = Between(info[s].range.from, y)
<1> DEFINE f == info[s].range.from  t == info[s].range.to  p == sent[s]  q == chunk[s]
<1>1. PICK x \in f..t : p \o q = Between(f, x)
      BY DEF StreamSound, Got
<1>2. /\ f \in Nat /\ t \in Nat /\ x \in Nat /\ f <= x /\ x <= t
      /\ p \in Seq(Nat) /\ q \in Seq(Nat)
  <2>1. f \in Nat /\ t \in Nat /\ p \in Seq(Nat) /\ q \in Seq(Nat)
        BY RangeParts DEF StreamTypeOK
  <2> QED  BY <1>1, <2>1
<1>3. \A a, b \in Nat : \A u, v \in Seq(Nat) : a <= b /\ u \o v = Between(a, b) =>
        a + Len(u) <= b /\ u = Between(a, a + Len(u))
      BY BetweenBegins
<1> HIDE DEF f, t, p, q
<1>4. f + Len(p) <= x /\ p = Between(f, f + Len(p)) /\ Len(p) \in Nat
      BY <1>1, <1>2, <1>3, LenProperties
<1>5. f + Len(p) \in f..t
      BY <1>2, <1>4
<1> QED  BY <1>4, <1>5 DEF f, t, p

(* What is read is passed on, or lost with the client. *)
LEMMA SendStep ==
  ASSUME StreamTypeOK, Sound, NEW s \in Streams, SendChunk(s) \/ SendFails(s)
  PROVE  StreamTypeOK' /\ Sound'
<1> DEFINE f == info[s].range.from
<1>1. /\ info' = info /\ feeder' = feeder /\ piece' = piece /\ rest' = rest /\ pipe' = pipe
      /\ html' = html /\ chunk' = [chunk EXCEPT ![s] = <<>>] /\ reader[s] = "send"
      /\ activeStreams' = activeStreams /\ overdue' = overdue /\ late' = late /\ gone' = gone
      BY DEF SendChunk, SendFails, feederVars, clientVars
<1>2. StreamSound(s)
      BY DEF Sound
<1>3. sent[s] \in Seq(Nat) /\ chunk[s] \in Seq(Nat) /\ chunk'[s] = <<>> /\ <<>> \in Seq(Nat)
      /\ ~html[s]
      BY <1>1, <1>2 DEF StreamTypeOK, StreamSound
<1>4. sent[s] \o <<>> = sent[s] /\ (sent[s] \o chunk[s]) \o <<>> = sent[s] \o chunk[s]
      /\ sent[s] \o chunk[s] \in Seq(Nat)
  <2>1. \A q \in Seq(Nat) : q \o <<>> = q
        BY ConcatEmptySeq
  <2>2. sent[s] \o chunk[s] \in Seq(Nat)
        BY <1>3, ConcatProperties
  <2> QED  BY <1>3, <2>1, <2>2
<1>5. CASE SendChunk(s)
  <2>1. /\ sent' = [sent EXCEPT ![s] = sent[s] \o chunk[s]] /\ cause' = cause
        /\ reader' = [reader EXCEPT ![s] = "loop"]
        BY <1>5 DEF SendChunk
  <2>2. StreamTypeOK'
        BY <1>1, <1>3, <1>4, <2>1 DEF StreamTypeOK
  <2>3. \A t \in Streams \ {s} : Same(t)
        BY <1>1, <2>1 DEF Same, StreamTypeOK
  <2>4. reader'[s] = "loop" /\ sent'[s] = sent[s] \o chunk[s]
        BY <2>1 DEF StreamTypeOK
  <2>5. Got(s)' = Got(s)
        BY <1>3, <1>4, <2>4 DEF Got
  <2>6. InStep(s)' /\ PageWaits(s)'
        BY <1>1, <1>2, <1>3, <2>4, <2>5 DEF StreamSound, InStep, PageWaits, Reading
  <2>7. StreamSound(s)'
        BY <1>1, <1>2, <1>3, <2>1, <2>4, <2>5, <2>6 DEF StreamSound, Consuming, Reading
  <2> QED  BY <2>2, <2>3, <2>7, OneStep
<1>6. CASE SendFails(s)
  <2>1. /\ sent' = sent /\ cause' = [cause EXCEPT ![s] = "gone"]
        /\ reader' = [reader EXCEPT ![s] = "flush"]
        BY <1>6 DEF SendFails, Leave
  <2>2. StreamTypeOK'
        BY <1>1, <1>3, <2>1 DEF StreamTypeOK
  <2>3. \A t \in Streams \ {s} : Same(t)
        BY <1>1, <2>1 DEF Same, StreamTypeOK
  <2>4. reader'[s] = "flush" /\ sent'[s] = sent[s] /\ Got(s)' = sent[s]
        BY <1>3, <1>4, <2>1 DEF StreamTypeOK, Got
  <2>5. \E y \in f..info[s].range.to : sent[s] = Between(f, y)
        BY <1>2, SentBegins
  <2>6. InStep(s)' /\ PageWaits(s)'
        BY <1>1, <1>2, <1>3, <2>4 DEF StreamSound, InStep, PageWaits, Reading
  <2>7. StreamSound(s)'
        BY <1>1, <1>2, <1>3, <2>1, <2>4, <2>5, <2>6 DEF StreamSound, Consuming, Reading
  <2> QED  BY <2>2, <2>3, <2>7, OneStep
<1> QED  BY <1>5, <1>6

(* The process ends; what a client has stays with it. *)
LEMMA ProcessEndsStep ==
  ASSUME StreamTypeOK, Sound, ProcessEnds
  PROVE  StreamTypeOK' /\ Sound'
<1>1. /\ info' = info /\ piece' = piece /\ rest' = rest /\ pipe' = pipe /\ html' = html
      /\ sent' = sent /\ cause' = cause /\ overdue' = overdue /\ late' = late /\ gone' = gone
      /\ feeder' = [s \in Streams |-> "none"] /\ reader' = [s \in Streams |-> "none"]
      /\ chunk' = [s \in Streams |-> <<>>] /\ activeStreams' = 0
      BY DEF ProcessEnds, clientVars
<1>2. <<>> \in Seq(Nat) /\ 0 \in Int
      OBVIOUS
<1>3. StreamTypeOK'
      BY <1>1, <1>2 DEF StreamTypeOK
<1>4. ASSUME NEW s \in Streams PROVE StreamSound(s)'
  <2>1. StreamSound(s)
        BY DEF Sound
  <2>2. \E y \in info[s].range.from..info[s].range.to :
          sent[s] = Between(info[s].range.from, y)
        BY <2>1, SentBegins
  <2>3. Got(s)' = sent[s]
    <3>1. sent[s] \in Seq(Nat) /\ chunk'[s] = <<>>
          BY <1>1 DEF StreamTypeOK
    <3>2. \A q \in Seq(Nat) : q \o <<>> = q
          BY ConcatEmptySeq
    <3> QED  BY <1>1, <3>1, <3>2 DEF Got
  <2>4. feeder'[s] = "none" /\ reader'[s] = "none" /\ chunk'[s] = <<>>
        BY <1>1
  <2>5. InStep(s)' /\ PageWaits(s)'
        BY <2>4 DEF InStep, PageWaits, Reading
  <2> QED  BY <1>1, <2>2, <2>3, <2>4, <2>5 DEF StreamSound, Consuming, Reading
<1> QED  BY <1>3, <1>4 DEF Sound

(* A consumer closes the reader. *)
LEMMA ClosingStep ==
  ASSUME StreamTypeOK, Sound, NEW s \in Streams, Flush(s) \/ ReadPageFails(s)
  PROVE  StreamTypeOK' /\ Sound'
<1>1. /\ info' = info /\ feeder' = feeder /\ piece' = piece /\ rest' = rest /\ pipe' = pipe
      /\ html' = html /\ sent' = sent /\ chunk' = chunk
      /\ overdue' = overdue /\ late' = late /\ gone' = gone
      /\ reader' = [reader EXCEPT ![s] = "ended"] /\ activeStreams' = activeStreams - 1
      BY DEF Flush, ReadPageFails, CloseReader, feederVars, clientVars
<1>2. \/ cause' = cause
      \/ pipe[s] \in {"eof", "error"} /\ cause' = [cause EXCEPT ![s] = pipe[s]]
      BY DEF Flush, ReadPageFails, StreamTypeOK
<1>3. reader[s] \in {"flush", "read"}
      BY DEF Flush, ReadPageFails
<1>4. StreamTypeOK'
  <2>1. cause' \in [Streams -> {"none", "eof", "error", "deadline", "gone", "page"}]
        BY <1>2 DEF StreamTypeOK
  <2>2. activeStreams' \in Int
        BY <1>1 DEF StreamTypeOK
  <2>3. reader' \in [Streams -> {"none", "loop", "read", "send", "flush", "ended"}]
        BY <1>1 DEF StreamTypeOK
  <2> QED  BY <1>1, <2>1, <2>2, <2>3 DEF StreamTypeOK
<1>5. \A t \in Streams \ {s} : Same(t)
      BY <1>1, <1>2 DEF Same, StreamTypeOK
<1>6. reader'[s] = "ended"
      BY <1>1 DEF StreamTypeOK
<1>7. StreamSound(s)
      BY DEF Sound
<1>8. StreamSound(s)'
      BY <1>1, <1>3, <1>6, <1>7 DEF StreamSound, InStep, PageWaits, Got, Reading, Consuming
<1> QED  BY <1>4, <1>5, <1>8, OneStep

(* A stream is opened. *)
LEMMA OpenStreamStep ==
  ASSUME StreamTypeOK, Sound, NEW s \in Streams, NEW i \in Infos, NEW h \in BOOLEAN,
         OpenStream(s, i, h)
  PROVE  StreamTypeOK' /\ Sound'
<1> DEFINE f == i.range.from
<1>1. /\ f \in Nat /\ i.range.to \in Nat /\ f <= i.range.to
      /\ i.FromPiece \in Nat /\ i.ToPiece \in Nat /\ i.FromPiece <= i.ToPiece
      BY InfoParts
<1>2. <<>> \in Seq(Nat) /\ <<>> \o <<>> = <<>> /\ <<>> = Between(f, f)
  <2>1. <<>> \in Seq(Nat)
        OBVIOUS
  <2>2. \A q \in Seq(Nat) : q \o <<>> = q
        BY ConcatEmptySeq
  <2>3. \A a, b \in Nat : a <= b => (Between(a, b) = <<>> <=> a = b)
        BY BetweenEmpty
  <2> QED  BY <1>1, <2>1, <2>2, <2>3
<1>3. /\ info' = [info EXCEPT ![s] = i] /\ html' = [html EXCEPT ![s] = h]
      /\ feeder' = [feeder EXCEPT ![s] = "check"] /\ piece' = [piece EXCEPT ![s] = i.FromPiece]
      /\ rest' = [rest EXCEPT ![s] = <<>>] /\ pipe' = [pipe EXCEPT ![s] = "open"]
      /\ reader' = [reader EXCEPT ![s] = IF h THEN "read" ELSE "loop"]
      /\ chunk' = [chunk EXCEPT ![s] = <<>>] /\ sent' = [sent EXCEPT ![s] = <<>>]
      /\ cause' = [cause EXCEPT ![s] = "none"] /\ late' = [late EXCEPT ![s] = FALSE]
      /\ gone' = [gone EXCEPT ![s] = FALSE] /\ overdue' = [overdue EXCEPT ![s] = 0]
      /\ activeStreams' = activeStreams + 1
      BY DEF OpenStream
<1>4. StreamTypeOK'
      BY <1>1, <1>2, <1>3 DEF StreamTypeOK
<1>5. \A t \in Streams \ {s} : Same(t)
      BY <1>3 DEF Same, StreamTypeOK
<1>6. /\ info'[s] = i /\ html'[s] = h /\ feeder'[s] = "check" /\ piece'[s] = i.FromPiece
      /\ pipe'[s] = "open" /\ reader'[s] = (IF h THEN "read" ELSE "loop")
      /\ chunk'[s] = <<>> /\ sent'[s] = <<>> /\ cause'[s] = "none" /\ overdue'[s] = 0
      BY <1>3 DEF StreamTypeOK
<1>7. Got(s)' = Between(f, f) /\ f \in f..i.range.to
      BY <1>1, <1>2, <1>6 DEF Got
<1>8. InStep(s)'
      BY <1>6, <1>7 DEF InStep, From
<1>9. PageWaits(s)'
  <2>1. \A q \in i.FromPiece..(i.FromPiece - 1) : FALSE
        BY <1>1
  <2> QED  BY <1>6, <2>1 DEF PageWaits
<1>10. i.FromPiece \in i.FromPiece..i.ToPiece
       BY <1>1
<1> QED
  <2>1. StreamSound(s)'
        BY <1>6, <1>7, <1>8, <1>9, <1>10 DEF StreamSound
  <2> QED  BY <1>4, <1>5, <2>1, OneStep

(* A Read takes a beginning of what is left of a Write.                    *)
LEMMA TakeParts ==
  ASSUME NEW a \in Nat, NEW b \in Nat, a <= b, NEW n \in Nat, n <= b - a
  PROVE  /\ SubSeq(Between(a, b), 1, n) = Between(a, a + n)
         /\ SubSeq(Between(a, b), n + 1, b - a) = Between(a + n, b)
<1>1. \A j, l, m, k \in Nat : j <= l /\ m <= k /\ k <= l - j =>
        SubSeq(Between(j, l), m + 1, k) = Between(j + m, j + k)
      BY BetweenCuts
<1> DEFINE e == b - a
<1>e. e \in Nat /\ n <= e /\ e <= b - a
      OBVIOUS
<1> HIDE DEF e
<1>2. SubSeq(Between(a, b), 0 + 1, n) = Between(a + 0, a + n)
  <2>1. 0 \in Nat /\ 0 <= n
        OBVIOUS
  <2> QED  BY <1>1, <2>1
<1>3. SubSeq(Between(a, b), n + 1, b - a) = Between(a + n, a + (b - a))
  <2>1. SubSeq(Between(a, b), n + 1, e) = Between(a + n, a + e)
        BY <1>1, <1>e
  <2> QED  BY <2>1 DEF e
<1>4. 0 + 1 = 1 /\ a + 0 = a /\ a + (b - a) = b
      OBVIOUS
<1> QED  BY <1>2, <1>3, <1>4

(* Where a consumer stands that reads while a Write waits.                 *)
LEMMA AtRead ==
  ASSUME StreamTypeOK, NEW s \in Streams, StreamSound(s),
         reader[s] = "read", feeder[s] = "write"
  PROVE  LET i == info[s]  T == To(i, piece[s]) IN
         /\ i \in Infos /\ piece[s] \in i.FromPiece..i.ToPiece
         /\ i.range.from \in Nat /\ i.range.to \in Nat /\ T \in Nat /\ T <= i.range.to
         /\ chunk[s] = <<>> /\ sent[s] \in Seq(Nat)
         /\ \E x \in Nat :
              /\ i.range.from <= x /\ From(i, piece[s]) <= x /\ x <= T
              /\ rest[s] = Between(x, T) /\ Len(rest[s]) = T - x
              /\ sent[s] = Between(i.range.from, x)
<1> DEFINE i == info[s]  p == piece[s]  T == To(i, p)
<1>1. i \in Infos /\ p \in i.FromPiece..i.ToPiece /\ chunk[s] = <<>> /\ sent[s] \in Seq(Nat)
      BY DEF StreamSound, StreamTypeOK
<1>2. /\ i.range.from \in Nat /\ i.range.to \in Nat /\ From(i, p) \in Nat /\ T \in Nat
      /\ T <= i.range.to /\ i.range.from <= From(i, p)
      BY <1>1, InfoParts, Shares
<1>3. PICK x \in From(i, p)..T : rest[s] = Between(x, T) /\ Got(s) = Between(i.range.from, x)
      BY DEF StreamSound, InStep, Reading
<1>4. x \in Nat /\ From(i, p) <= x /\ x <= T /\ i.range.from <= x
      BY <1>2, <1>3
<1>5. Len(rest[s]) = T - x
      BY <1>2, <1>3, <1>4, BetweenParts
<1>6. sent[s] = Between(i.range.from, x)
  <2>1. \A q \in Seq(Nat) : q \o <<>> = q
        BY ConcatEmptySeq
  <2> QED  BY <1>1, <1>3, <2>1 DEF Got
<1> QED  BY <1>1, <1>2, <1>3, <1>4, <1>5, <1>6

LEMMA ReadDataStep ==
  ASSUME StreamTypeOK, Sound, NEW s \in Streams, ReadData(s)
  PROVE  StreamTypeOK' /\ Sound'
<1> DEFINE i == info[s]  p == piece[s]  T == To(i, p)  f == i.range.from
           n == Smaller(ReadSize, Len(rest[s]))
<1>1. /\ info' = info /\ feeder' = feeder /\ piece' = piece /\ pipe' = pipe /\ html' = html
      /\ sent' = sent /\ cause' = cause /\ activeStreams' = activeStreams
      /\ late' = late /\ gone' = gone
      /\ rest' = [rest EXCEPT ![s] = SubSeq(rest[s], n + 1, Len(rest[s]))]
      /\ chunk' = [chunk EXCEPT ![s] = SubSeq(rest[s], 1, n)]
      /\ reader' = [reader EXCEPT ![s] = "send"]
      /\ overdue' = [overdue EXCEPT ![s] = IF late[s] THEN overdue[s] + 1 ELSE overdue[s]]
      /\ reader[s] = "read" /\ feeder[s] = "write" /\ ~html[s]
      BY DEF ReadData, Take
<1>2. StreamSound(s)
      BY DEF Sound
<1>3. PICK x \in Nat :
        /\ i \in Infos /\ f \in Nat /\ i.range.to \in Nat /\ T \in Nat /\ T <= i.range.to
        /\ f <= x /\ From(i, p) <= x /\ x <= T /\ From(i, p) \in Nat
        /\ rest[s] = Between(x, T) /\ Len(rest[s]) = T - x
        /\ sent[s] = Between(f, x)
      BY <1>1, <1>2, AtRead, Shares
<1>4. n \in Nat /\ n <= T - x
      BY <1>3, StreamAssumption DEF Smaller
<1>5. /\ SubSeq(rest[s], 1, n) = Between(x, x + n)
      /\ SubSeq(rest[s], n + 1, Len(rest[s])) = Between(x + n, T)
  <2>1. \A a, b, k \in Nat : a <= b /\ k <= b - a =>
          /\ SubSeq(Between(a, b), 1, k) = Between(a, a + k)
          /\ SubSeq(Between(a, b), k + 1, b - a) = Between(a + k, b)
        BY TakeParts
  <2> HIDE DEF n, T
  <2>2. /\ SubSeq(Between(x, T), 1, n) = Between(x, x + n)
        /\ SubSeq(Between(x, T), n + 1, T - x) = Between(x + n, T)
        BY <1>3, <1>4, <2>1
  <2> QED  BY <1>3, <2>2
<1> DEFINE y == x + n
<1>6. /\ y \in Nat /\ y <= T /\ x <= y /\ f <= y
      /\ y \in From(i, p)..T /\ y \in f..i.range.to
      BY <1>3, <1>4
<1> HIDE DEF n, y
<1>7. rest'[s] = Between(y, T) /\ chunk'[s] = Between(x, y) /\ reader'[s] = "send"
      BY <1>1, <1>5 DEF StreamTypeOK, y
<1>8. Got(s)' = Between(f, y)
  <2>1. Between(f, x) \o Between(x, y) = Between(f, y)
        BY <1>3, <1>6, BetweenJoin
  <2> QED  BY <1>1, <1>3, <1>7, <2>1 DEF Got
<1>9. StreamTypeOK'
  <2>1. Between(y, T) \in Seq(Nat) /\ Between(x, y) \in Seq(Nat)
    <3>1. \A a, b \in Nat : a <= b => Between(a, b) \in Seq(Nat)
          BY BetweenParts
    <3> QED  BY <1>3, <1>6, <3>1
  <2>2. rest' \in [Streams -> Seq(Nat)] /\ chunk' \in [Streams -> Seq(Nat)]
        BY <1>1, <1>5, <2>1 DEF StreamTypeOK, y
  <2>3. overdue' \in [Streams -> Nat]
        BY <1>1 DEF StreamTypeOK
  <2>4. reader' \in [Streams -> {"none", "loop", "read", "send", "flush", "ended"}]
        BY <1>1 DEF StreamTypeOK
  <2> QED  BY <1>1, <2>2, <2>3, <2>4 DEF StreamTypeOK
<1>10. \A t \in Streams \ {s} : Same(t)
       BY <1>1 DEF Same, StreamTypeOK
<1>11. InStep(s)'
  <2>1. Bytes(i.range) = Between(f, i.range.to)
        BY DEF Bytes
  <2>2. pipe[s] = "open"
        BY <1>1, <1>2 DEF StreamSound
  <2> QED  BY <1>1, <1>6, <1>7, <1>8, <2>2 DEF InStep, To, From
<1>12. ~late[s] => overdue'[s] = 0
       BY <1>1, <1>2 DEF StreamSound, StreamTypeOK, Consuming
<1>13. StreamSound(s)'
  <2>1. PageWaits(s)'
        BY <1>1 DEF PageWaits
  <2> QED  BY <1>1, <1>2, <1>6, <1>7, <1>8, <1>11, <1>12, <2>1
           DEF StreamSound, Consuming, Reading
<1> QED  BY <1>9, <1>10, <1>13, OneStep

(* The one Read of a page takes all that is left of the first Write.       *)
LEMMA PageRead ==
  ASSUME StreamTypeOK, NEW s \in Streams, StreamSound(s), ReadPage(s)
  PROVE  LET i == info[s]  T == To(i, piece[s]) IN
         /\ sent' = [sent EXCEPT ![s] = Part(i, piece[s])]
         /\ rest' = [rest EXCEPT ![s] = Between(T, T)]
         /\ rest[s] = Part(i, piece[s]) /\ Part(i, piece[s]) \in Seq(Nat)
         /\ Part(i, piece[s]) = Between(i.range.from, T)
         /\ i \in Infos /\ piece[s] \in i.FromPiece..i.ToPiece
         /\ \A q \in i.FromPiece..(piece[s] - 1) : Part(i, q) = <<>>
<1> DEFINE i == info[s]  p == piece[s]  T == To(i, p)  f == i.range.from
           n == Smaller(Len(Bytes(i.range)), Len(rest[s]))
<1>1. /\ rest' = [rest EXCEPT ![s] = SubSeq(rest[s], n + 1, Len(rest[s]))]
      /\ sent' = [sent EXCEPT ![s] = SubSeq(rest[s], 1, n)]
      /\ reader[s] = "read" /\ feeder[s] = "write" /\ html[s]
      BY DEF ReadPage, Take
<1>2. PICK x \in Nat :
        /\ i \in Infos /\ p \in i.FromPiece..i.ToPiece
        /\ f \in Nat /\ i.range.to \in Nat /\ T \in Nat /\ T <= i.range.to
        /\ f <= x /\ x <= T
        /\ rest[s] = Between(x, T) /\ Len(rest[s]) = T - x
        /\ sent[s] = Between(f, x)
      BY <1>1, AtRead
<1>3. /\ sent[s] = <<>> /\ rest[s] = Part(i, p)
      /\ \A q \in i.FromPiece..(p - 1) : Part(i, q) = <<>>
      BY <1>1 DEF StreamSound, PageWaits
<1>4. x = f
  <2>1. \A a, b \in Nat : a <= b => (Between(a, b) = <<>> <=> a = b)
        BY BetweenEmpty
  <2>2. Between(f, x) = <<>> /\ f \in Nat /\ x \in Nat /\ f <= x
        BY <1>2, <1>3
  <2> HIDE DEF f
  <2> QED  BY <2>1, <2>2
<1>5. n = T - f /\ Len(rest[s]) = T - f
  <2>1. f <= i.range.to
        BY <1>2
  <2>2. \A a, b \in Nat : a <= b => Len(Between(a, b)) = b - a
        BY BetweenParts
  <2>3. Len(Bytes(i.range)) = i.range.to - f
        BY <1>2, <2>1, <2>2 DEF Bytes
  <2> QED  BY <1>2, <1>4, <2>3 DEF Smaller
<1>6. /\ SubSeq(Between(f, T), 1, T - f) = Between(f, f + (T - f))
      /\ SubSeq(Between(f, T), (T - f) + 1, T - f) = Between(f + (T - f), T)
  <2>1. \A a, b, k \in Nat : a <= b /\ k <= b - a =>
          /\ SubSeq(Between(a, b), 1, k) = Between(a, a + k)
          /\ SubSeq(Between(a, b), k + 1, b - a) = Between(a + k, b)
        BY TakeParts
  <2> DEFINE k == T - f
  <2>2. f \in Nat /\ T \in Nat /\ k \in Nat /\ f <= T /\ k <= T - f
        BY <1>2, <1>4
  <2> HIDE DEF f, T, k
  <2>3. /\ SubSeq(Between(f, T), 1, k) = Between(f, f + k)
        /\ SubSeq(Between(f, T), k + 1, T - f) = Between(f + k, T)
        BY <2>1, <2>2
  <2> QED  BY <2>3 DEF k
<1>7. f + (T - f) = T
      BY <1>2
<1>8. rest[s] = Between(f, T) /\ rest[s] \in Seq(Nat)
      BY <1>2, <1>4 DEF StreamTypeOK
<1>9. SubSeq(rest[s], 1, n) = rest[s] /\ SubSeq(rest[s], n + 1, Len(rest[s])) = Between(T, T)
      BY <1>5, <1>6, <1>7, <1>8
<1> QED  BY <1>1, <1>2, <1>3, <1>8, <1>9

LEMMA ReadPageStep ==
  ASSUME StreamTypeOK, Sound, NEW s \in Streams, ReadPage(s)
  PROVE  StreamTypeOK' /\ Sound'
<1> DEFINE i == info[s]  p == piece[s]  T == To(i, p)  f == i.range.from
<1>1. /\ info' = info /\ feeder' = feeder /\ piece' = piece /\ pipe' = pipe /\ html' = html
      /\ chunk' = chunk /\ late' = late /\ gone' = gone /\ overdue' = overdue
      /\ cause' = [cause EXCEPT ![s] = "page"] /\ reader' = [reader EXCEPT ![s] = "ended"]
      /\ activeStreams' = activeStreams - 1
      /\ reader[s] = "read" /\ feeder[s] = "write" /\ html[s]
      BY DEF ReadPage, Take, CloseReader, clientVars
<1>2. StreamSound(s)
      BY DEF Sound
<1>3. /\ sent' = [sent EXCEPT ![s] = Part(i, p)] /\ rest' = [rest EXCEPT ![s] = Between(T, T)]
      /\ Part(i, p) \in Seq(Nat) /\ Part(i, p) = Between(f, T)
      /\ i \in Infos /\ p \in i.FromPiece..i.ToPiece
      BY <1>2, PageRead
<1>4. /\ T \in Nat /\ From(i, p) \in Nat /\ From(i, p) <= T /\ f \in Nat /\ f <= From(i, p)
      /\ T <= i.range.to /\ i.range.to \in Nat
      BY <1>3, InfoParts, Shares
<1>5. Between(T, T) \in Seq(Nat)
      BY <1>4, BetweenParts
<1>6. StreamTypeOK'
  <2>1. activeStreams' \in Int /\ cause' \in [Streams -> {"none", "eof", "error", "deadline", "gone", "page"}]
        BY <1>1 DEF StreamTypeOK
  <2>2. rest' \in [Streams -> Seq(Nat)] /\ sent' \in [Streams -> Seq(Nat)]
        BY <1>3, <1>5 DEF StreamTypeOK
  <2>3. reader' \in [Streams -> {"none", "loop", "read", "send", "flush", "ended"}]
        BY <1>1 DEF StreamTypeOK
  <2> QED  BY <1>1, <2>1, <2>2, <2>3 DEF StreamTypeOK
<1>7. \A t \in Streams \ {s} : Same(t)
      BY <1>1, <1>3 DEF Same, StreamTypeOK
<1>8. reader'[s] = "ended" /\ sent'[s] = Between(f, T) /\ rest'[s] = Between(T, T)
      BY <1>1, <1>3 DEF StreamTypeOK
<1>9. chunk[s] = <<>>
      BY <1>1, <1>2 DEF StreamSound
<1>10. Got(s)' = Between(f, T)
  <2>1. \A q \in Seq(Nat) : q \o <<>> = q
        BY ConcatEmptySeq
  <2> QED  BY <1>1, <1>3, <1>8, <1>9, <2>1 DEF Got
<1>11. T \in From(i, p)..T /\ T \in f..i.range.to
       BY <1>4
<1>12. InStep(s)' /\ PageWaits(s)'
       BY <1>1, <1>8, <1>11 DEF InStep, PageWaits, Reading, To, From
<1>13. StreamSound(s)'
       BY <1>1, <1>2, <1>8, <1>9, <1>10, <1>11, <1>12 DEF StreamSound, Consuming, Reading
<1> QED  BY <1>6, <1>7, <1>13, OneStep

-----------------------------------------------------------------------------
(* Every step. *)

LEMMA FeedStep ==
  ASSUME StreamTypeOK, Sound, NEW s \in Streams, Feed(s)
  PROVE  StreamTypeOK' /\ Sound'
  BY CheckContextStep, PieceArrivesStep, FeederFails, WriteReturnsStep DEF Feed

LEMMA ConsumeStep ==
  ASSUME StreamTypeOK, Sound, NEW s \in Streams, Consume(s)
  PROVE  StreamTypeOK' /\ Sound'
  BY LoopStep, ReadDataStep, SendStep, ClosingStep, ReadPageStep DEF Consume

LEMMA Stutter ==
  ASSUME StreamTypeOK, Sound, UNCHANGED streamVars
  PROVE  StreamTypeOK' /\ Sound'
<1>1. /\ info' = info /\ feeder' = feeder /\ piece' = piece /\ rest' = rest /\ pipe' = pipe
      /\ html' = html /\ reader' = reader /\ chunk' = chunk /\ sent' = sent /\ cause' = cause
      /\ activeStreams' = activeStreams
      /\ late' = late /\ gone' = gone /\ overdue' = overdue
      BY DEF streamVars, feederVars, readerVars, clientVars
<1>2. StreamTypeOK'
      BY <1>1 DEF StreamTypeOK
<1>3. \A t \in Streams : Same(t)
      BY <1>1 DEF Same
<1> QED  BY <1>2, <1>3, Undisturbed DEF Sound

LEMMA StreamStep ==
  ASSUME StreamTypeOK, Sound, [Next]_vars
  PROVE  StreamTypeOK' /\ Sound'
<1>1. ASSUME NEW s \in Streams, Stream(s)
      PROVE  StreamTypeOK' /\ Sound'
  <2>1. CASE UnknownPath(s)
        BY <2>1, Stutter DEF UnknownPath
  <2>2. CASE Feed(s)
        BY <2>2, FeedStep
  <2>3. CASE Consume(s)
        BY <2>3, ConsumeStep
  <2>4. CASE DeadlinePasses(s) \/ ClientLeaves(s)
        BY <2>4, OutsideStep
  <2>5. CASE \E i \in Infos, h \in BOOLEAN : OpenStream(s, i, h)
        BY <2>5, OpenStreamStep
  <2> QED  BY <1>1, <2>1, <2>2, <2>3, <2>4, <2>5 DEF Stream
<1>2. CASE UNCHANGED streamVars
      BY <1>2, Stutter
<1>3. CASE ProcessEnds
      BY <1>3, ProcessEndsStep
<1>4. UNCHANGED streamVars \/ ProcessEnds \/ \E s \in Streams : Stream(s)
      BY DEF Next, Run, vars
<1> QED  BY <1>1, <1>2, <1>3, <1>4

LEMMA StreamInitially ==
  ASSUME StreamInit
  PROVE  StreamTypeOK /\ Sound
<1>1. <<>> \in Seq(Nat) /\ <<>> \o <<>> = <<>> /\ <<>> = Between(0, 0)
  <2>1. <<>> \in Seq(Nat)
        OBVIOUS
  <2>2. \A q \in Seq(Nat) : q \o <<>> = q
        BY ConcatEmptySeq
  <2>3. \A a, b \in Nat : a <= b => (Between(a, b) = <<>> <=> a = b)
        BY BetweenEmpty
  <2> QED  BY <2>1, <2>2, <2>3
<1>2. StreamTypeOK
      BY <1>1 DEF StreamInit, StreamTypeOK
<1>3. ASSUME NEW s \in Streams PROVE StreamSound(s)
  <2>1. /\ info[s] = NoInfo /\ feeder[s] = "none" /\ reader[s] = "none" /\ chunk[s] = <<>>
        /\ sent[s] = <<>> /\ pipe[s] = "open" /\ html[s] = FALSE /\ overdue[s] = 0
        BY DEF StreamInit
  <2>2. Got(s) = Between(0, 0) /\ info[s].range.from = 0 /\ info[s].range.to = 0 /\ 0 \in 0..0
        BY <1>1, <2>1 DEF Got, NoInfo
  <2> QED  BY <2>1, <2>2 DEF StreamSound, InStep, PageWaits, Reading, Consuming
<1> QED  BY <1>2, <1>3 DEF Sound

(* The feeder, the pipe and the consumer are in step in every reachable    *)
(* state (StreamFile, streamWithDeadline, serveHTMLFile).                  *)
THEOREM StreamCorrect == Spec => []StreamInv
<1>1. Init => LifeTypeOK /\ LifeSound /\ StreamTypeOK /\ Sound
      BY LifeInitially, StreamInitially DEF Init
<1>2. LifeTypeOK /\ LifeSound /\ StreamTypeOK /\ Sound /\ [Next]_vars
        => (LifeTypeOK /\ LifeSound /\ StreamTypeOK /\ Sound)'
      BY LifeStep, StreamStep
<1>3. LifeTypeOK /\ LifeSound /\ StreamTypeOK /\ Sound => StreamInv
      BY DEF StreamInv, TypeOK, Sound
<1> QED  BY <1>1, <1>2, <1>3, PTL DEF Spec

LEMMA InOrder ==
  ASSUME StreamTypeOK, Sound
  PROVE  BytesInOrder
<1> SUFFICES ASSUME NEW s \in Streams
             PROVE  LET got == sent[s] \o chunk[s]
                        all == Bytes(info[s].range)
                    IN Len(got) <= Len(all) /\ got = SubSeq(all, 1, Len(got))
    BY DEF BytesInOrder
<1> DEFINE f == info[s].range.from  t == info[s].range.to
<1>1. f \in Nat /\ t \in Nat /\ f <= t
      BY RangeParts
<1>2. PICK x \in f..t : sent[s] \o chunk[s] = Between(f, x)
      BY DEF Sound, StreamSound, Got
<1> DEFINE n == x - f
<1>3. n \in Nat /\ n <= t - f /\ f + n = x /\ x \in Nat /\ f <= x /\ x <= t
      BY <1>1, <1>2
<1> HIDE DEF f, t, n
<1>4. \A a, b \in Nat : a <= b => Len(Between(a, b)) = b - a
      BY BetweenParts
<1>5. \A a, b, k \in Nat : a <= b /\ k <= b - a => SubSeq(Between(a, b), 1, k) = Between(a, a + k)
      BY TakeParts
<1>6. Len(Between(f, x)) = n /\ Len(Between(f, t)) = t - f
      BY <1>1, <1>3, <1>4 DEF n
<1>7. SubSeq(Between(f, t), 1, n) = Between(f, x)
      BY <1>1, <1>3, <1>5
<1>8. Bytes(info[s].range) = Between(f, t)
      BY DEF Bytes, f, t
<1> QED  BY <1>2, <1>3, <1>6, <1>7, <1>8

(* What a client has is a beginning of its file (StreamFile,               *)
(* streamWithDeadline).                                                    *)
THEOREM InOrderAlways == Spec => []BytesInOrder
<1>1. StreamInv => BytesInOrder
      BY InOrder DEF StreamInv, TypeOK, Sound
<1> QED  BY <1>1, StreamCorrect, PTL

-----------------------------------------------------------------------------
(* How consumers end.                                                      *)

(* No step of a stream touches another one. *)
LEMMA OthersStay ==
  ASSUME StreamTypeOK, NEW s \in Streams, Stream(s)
  PROVE  \A t \in Streams \ {s} : Same(t)
<1> USE DEF Same, StreamTypeOK, feederVars, readerVars, clientVars, streamVars, Ends, Leave,
            CloseReader
<1>1. CASE UnknownPath(s)
      BY <1>1 DEF UnknownPath
<1>2. CASE CheckContext(s)
      BY <1>2 DEF CheckContext
<1>3. CASE PieceArrives(s)
  <2>1. CASE Part(info[s], piece[s]) = <<>> /\ NextPiece(s)
        BY <1>3, <2>1 DEF PieceArrives, NextPiece
  <2>2. CASE ~(Part(info[s], piece[s]) = <<>>)
        BY <1>3, <2>2 DEF PieceArrives
  <2> QED  BY <1>3, <2>1, <2>2 DEF PieceArrives
<1>4. CASE FetchFails(s)
      BY <1>4 DEF FetchFails
<1>5. CASE WriteReturns(s)
      BY <1>5 DEF WriteReturns, NextPiece
<1>6. CASE WriteFails(s)
      BY <1>6 DEF WriteFails
<1>7. CASE LoopTop(s)
      BY <1>7 DEF LoopTop
<1>8. CASE ReadData(s)
      BY <1>8 DEF ReadData, Take
<1>9. CASE ReadEnds(s)
      BY <1>9 DEF ReadEnds
<1>10. CASE SendChunk(s)
      BY <1>10 DEF SendChunk
<1>11. CASE SendFails(s)
      BY <1>11 DEF SendFails
<1>12. CASE Flush(s)
      BY <1>12 DEF Flush
<1>13. CASE ReadPage(s)
      BY <1>13 DEF ReadPage, Take
<1>14. CASE ReadPageFails(s)
      BY <1>14 DEF ReadPageFails
<1>15. CASE DeadlinePasses(s)
      BY <1>15 DEF DeadlinePasses
<1>16. CASE ClientLeaves(s)
      BY <1>16 DEF ClientLeaves
<1>17. CASE \E i \in Infos, h \in BOOLEAN : OpenStream(s, i, h)
      BY <1>17 DEF OpenStream
<1> QED  BY <1>1, <1>2, <1>3, <1>4, <1>5, <1>6, <1>7, <1>8, <1>9, <1>10, <1>11, <1>12, <1>13,
            <1>14, <1>15, <1>16, <1>17 DEF Stream, Feed, Consume

(* The steps that leave the outcome of their stream alone.                 *)
Quiet(s) ==
  /\ cause'[s] = cause[s] /\ sent'[s] = sent[s] /\ info'[s] = info[s]

LEMMA OutcomeSteps ==
  ASSUME StreamTypeOK, NEW s \in Streams, Stream(s)
  PROVE  \/ Quiet(s)
         \/ ReadEnds(s) \/ SendChunk(s) \/ ReadPage(s) \/ ReadPageFails(s)
         \/ info'[s] = info[s] /\ cause'[s] \notin {"eof", "page"}
         \/ cause'[s] = "none"
<1> USE DEF Quiet, StreamTypeOK, feederVars, readerVars, clientVars, streamVars, Ends, Leave,
            CloseReader
<1>1. CASE UnknownPath(s)
      BY <1>1 DEF UnknownPath
<1>2. CASE Feed(s)
      BY <1>2 DEF Feed, CheckContext, PieceArrives, FetchFails, WriteReturns, WriteFails
<1>3. CASE LoopTop(s)
      BY <1>3 DEF LoopTop
<1>4. CASE ReadData(s)
      BY <1>4 DEF ReadData, Take
<1>5. CASE SendFails(s)
      BY <1>5 DEF SendFails
<1>6. CASE Flush(s)
      BY <1>6 DEF Flush
<1>7. CASE DeadlinePasses(s) \/ ClientLeaves(s)
      BY <1>7 DEF DeadlinePasses, ClientLeaves
<1>8. CASE \E i \in Infos, h \in BOOLEAN : OpenStream(s, i, h)
      BY <1>8 DEF OpenStream
<1> QED  BY <1>1, <1>2, <1>3, <1>4, <1>5, <1>6, <1>7, <1>8 DEF Stream, Consume

Whole(s) == cause[s] = "eof" => sent[s] = Bytes(info[s].range)
Paged(s) ==
  cause[s] = "page" =>
    \E p \in info[s].FromPiece..info[s].ToPiece :
      /\ sent[s] = Part(info[s], p)
      /\ \A q \in info[s].FromPiece..(p - 1) : Part(info[s], q) = <<>>
Ended(s) == Whole(s) /\ Paged(s)

(* A consumer that finds the pipe's end has passed on the whole file; one  *)
(* that fills a page, the first part that is not empty.                    *)
LEMMA EndedStep ==
  ASSUME StreamTypeOK, NEW s \in Streams, StreamSound(s), Ended(s), Stream(s)
  PROVE  Ended(s)'
<1>1. CASE Quiet(s)
      BY <1>1 DEF Quiet, Ended, Whole, Paged, Bytes, Part, Data
<1>2. CASE info'[s] = info[s] /\ cause'[s] \notin {"eof", "page"}
      BY <1>2 DEF Ended, Whole, Paged
<1>3. CASE cause'[s] = "none"
      BY <1>3 DEF Ended, Whole, Paged
<1>4. CASE ReadEnds(s) \/ ReadPageFails(s)
  <2>1. /\ reader[s] = "read" /\ cause' = [cause EXCEPT ![s] = pipe[s]]
        /\ sent' = sent /\ info' = info
        BY <1>4 DEF ReadEnds, ReadPageFails, Leave, feederVars
  <2>2. cause'[s] = pipe[s] /\ pipe[s] # "page" /\ sent[s] \in Seq(Nat)
        BY <2>1 DEF StreamTypeOK
  <2>3. chunk[s] = <<>>
        BY <2>1 DEF StreamSound
  <2>4. Got(s) = sent[s]
    <3>1. \A q \in Seq(Nat) : q \o <<>> = q
          BY ConcatEmptySeq
    <3> QED  BY <2>2, <2>3, <3>1 DEF Got
  <2>5. pipe[s] = "eof" => sent[s] = Bytes(info[s].range)
        BY <2>1, <2>4 DEF StreamSound, InStep, Reading
  <2> QED  BY <2>1, <2>2, <2>5 DEF Ended, Whole, Paged, Bytes
<1>5. CASE SendChunk(s)
  <2>1. reader[s] = "send" /\ cause' = cause
        BY <1>5 DEF SendChunk
  <2>2. cause[s] = "none"
        BY <2>1 DEF StreamSound, Reading
  <2> QED  BY <2>1, <2>2 DEF Ended, Whole, Paged
<1>6. CASE ReadPage(s)
  <2>1. /\ cause' = [cause EXCEPT ![s] = "page"] /\ info' = info
        BY <1>6 DEF ReadPage
  <2>2. /\ sent' = [sent EXCEPT ![s] = Part(info[s], piece[s])]
        /\ piece[s] \in info[s].FromPiece..info[s].ToPiece
        /\ \A q \in info[s].FromPiece..(piece[s] - 1) : Part(info[s], q) = <<>>
        BY <1>6, PageRead
  <2>3. cause'[s] = "page" /\ sent'[s] = Part(info[s], piece[s])
        BY <2>1, <2>2 DEF StreamTypeOK
  <2> QED  BY <2>1, <2>2, <2>3 DEF Ended, Whole, Paged, Part, Data
<1> QED  BY <1>1, <1>2, <1>3, <1>4, <1>5, <1>6, OutcomeSteps

LEMMA EndedAlways == Spec => [](\A s \in Streams : Ended(s))
<1> DEFINE I == \A s \in Streams : Ended(s)
<1>1. Init => I
      BY DEF Init, StreamInit, Ended, Whole, Paged
<1>2. StreamInv /\ I /\ [Next]_vars => I'
  <2> SUFFICES ASSUME StreamInv, I, [Next]_vars, NEW t \in Streams
               PROVE  Ended(t)'
      OBVIOUS
  <2>1. StreamTypeOK /\ StreamSound(t) /\ Ended(t)
        BY DEF StreamInv, TypeOK
  <2>2. CASE cause' = cause /\ sent' = sent /\ info' = info
        BY <2>1, <2>2 DEF Ended, Whole, Paged, Bytes, Part, Data
  <2>3. ASSUME NEW s \in Streams, Stream(s) PROVE Ended(t)'
    <3>1. CASE s = t
          BY <2>1, <2>3, <3>1, EndedStep
    <3>2. CASE s # t
      <4>1. Same(t)
            BY <2>1, <2>3, <3>2, OthersStay
      <4> QED  BY <2>1, <4>1 DEF Same, Ended, Whole, Paged, Bytes, Part, Data
    <3> QED  BY <3>1, <3>2
  <2>4. \/ cause' = cause /\ sent' = sent /\ info' = info
        \/ \E s \in Streams : Stream(s)
        BY DEF Next, Run, ProcessEnds, vars, streamVars, feederVars, readerVars
  <2> QED  BY <2>2, <2>3, <2>4
<1> QED  BY <1>1, <1>2, StreamCorrect, PTL DEF Spec

(* A pipe that ends without an error has carried the whole file            *)
(* (StreamFile).                                                           *)
THEOREM EofAlwaysWhole == Spec => []EofIsWhole
<1>1. (\A s \in Streams : Ended(s)) => EofIsWhole
      BY DEF EofIsWhole, Ended, Whole
<1> QED  BY <1>1, EndedAlways, PTL

(* A page holds the first part that is not empty, and no more              *)
(* (serveHTMLFile).                                                        *)
THEOREM PageAlwaysOnePart == Spec => []PageIsOnePart
<1>1. (\A s \in Streams : Ended(s)) => PageIsOnePart
      BY DEF PageIsOnePart, Ended, Paged
<1> QED  BY <1>1, EndedAlways, PTL

(* At most one read brings bytes after the deadline (streamWithDeadline).  *)
THEOREM OneLateReadAlways == Spec => []OneLateRead
<1>1. Init => OneLateRead
      BY DEF Init, StreamInit, OneLateRead
<1>2. StreamInv /\ OneLateRead /\ [Next]_vars => OneLateRead'
  <2> SUFFICES ASSUME StreamInv, OneLateRead, [Next]_vars, NEW t \in Streams
               PROVE  overdue'[t] <= 1
      BY DEF OneLateRead
  <2>1. StreamTypeOK /\ StreamSound(t) /\ overdue[t] <= 1
        BY DEF StreamInv, TypeOK, OneLateRead
  <2>2. CASE overdue' = overdue
        BY <2>1, <2>2
  <2>3. ASSUME NEW s \in Streams, ReadData(s) PROVE overdue'[t] <= 1
    <3>1. /\ reader[s] = "read"
          /\ overdue' = [overdue EXCEPT ![s] = IF late[s] THEN overdue[s] + 1 ELSE overdue[s]]
          BY <2>3 DEF ReadData, Take
    <3>2. CASE s = t
      <4>1. overdue[t] = 0
            BY <2>1, <3>1, <3>2 DEF StreamSound, Consuming
      <4> QED  BY <2>1, <3>1, <3>2, <4>1 DEF StreamTypeOK
    <3>3. CASE s # t
          BY <2>1, <3>1, <3>3 DEF StreamTypeOK
    <3> QED  BY <3>2, <3>3
  <2>4. ASSUME NEW s \in Streams, overdue' = [overdue EXCEPT ![s] = 0]
        PROVE  overdue'[t] <= 1
        BY <2>1, <2>4 DEF StreamTypeOK
  <2>5. ASSUME NEW s \in Streams, Stream(s)
        PROVE  overdue' = overdue \/ ReadData(s) \/ overdue' = [overdue EXCEPT ![s] = 0]
    <3>1. CASE Feed(s)
          BY <3>1 DEF Feed, CheckContext, PieceArrives, FetchFails, WriteReturns, WriteFails,
                      clientVars
    <3>2. CASE Consume(s)
          BY <3>2 DEF Consume, LoopTop, ReadEnds, SendChunk, SendFails, Flush, ReadPage,
                      ReadPageFails, clientVars
    <3>3. CASE UnknownPath(s) \/ DeadlinePasses(s) \/ ClientLeaves(s)
          BY <3>3 DEF UnknownPath, DeadlinePasses, ClientLeaves, streamVars, clientVars
    <3>4. CASE \E i \in Infos, h \in BOOLEAN : OpenStream(s, i, h)
          BY <3>4 DEF OpenStream
    <3> QED  BY <2>5, <3>1, <3>2, <3>3, <3>4 DEF Stream
  <2>6. overdue' = overdue \/ \E s \in Streams : Stream(s)
        BY DEF Next, Run, ProcessEnds, vars, streamVars, clientVars
  <2> QED  BY <2>2, <2>3, <2>4, <2>5, <2>6
<1> QED  BY <1>1, <1>2, StreamCorrect, PTL DEF Spec

-----------------------------------------------------------------------------
(* The gauge. *)

Consumers == {s \in Streams : Consuming(s)}

LEMMA GaugeSteps ==
  ASSUME StreamTypeOK, NEW s \in Streams, Stream(s)
  PROVE  \/ Consuming(s)' = Consuming(s) /\ activeStreams' = activeStreams
         \/ ~Consuming(s) /\ Consuming(s)' /\ activeStreams' = activeStreams + 1
         \/ Consuming(s) /\ ~Consuming(s)' /\ activeStreams' = activeStreams - 1
<1>1. CASE UnknownPath(s) \/ DeadlinePasses(s) \/ ClientLeaves(s)
      BY <1>1 DEF UnknownPath, DeadlinePasses, ClientLeaves, streamVars, readerVars, Consuming
<1>2. CASE Feed(s)
      BY <1>2 DEF Feed, CheckContext, PieceArrives, FetchFails, WriteReturns, WriteFails,
                  readerVars, Consuming
<1>3. CASE LoopTop(s) \/ ReadEnds(s) \/ SendChunk(s) \/ SendFails(s) \/ ReadData(s)
  <2>1. reader[s] \in {"loop", "read", "send"} /\ activeStreams' = activeStreams
        BY <1>3 DEF LoopTop, ReadEnds, SendChunk, SendFails, ReadData, Take
  <2>2. \E r \in {"loop", "read", "send", "flush"} : reader' = [reader EXCEPT ![s] = r]
        BY <1>3 DEF LoopTop, ReadEnds, SendChunk, SendFails, ReadData, Leave
  <2>3. reader'[s] \in {"loop", "read", "send", "flush"}
        BY <2>2 DEF StreamTypeOK
  <2> QED  BY <2>1, <2>3 DEF Consuming
<1>4. CASE Flush(s) \/ ReadPage(s) \/ ReadPageFails(s)
  <2>1. /\ reader[s] \in {"flush", "read"} /\ activeStreams' = activeStreams - 1
        /\ reader' = [reader EXCEPT ![s] = "ended"]
        BY <1>4 DEF Flush, ReadPage, ReadPageFails, CloseReader, Take
  <2> QED  BY <2>1 DEF Consuming, StreamTypeOK
<1>5. CASE \E i \in Infos, h \in BOOLEAN : OpenStream(s, i, h)
  <2>1. PICK i \in Infos, h \in BOOLEAN : OpenStream(s, i, h)
        BY <1>5
  <2>2. /\ reader[s] \in {"none", "ended"} /\ activeStreams' = activeStreams + 1
        /\ reader' = [reader EXCEPT ![s] = IF h THEN "read" ELSE "loop"]
        BY <2>1 DEF OpenStream, Idle
  <2> QED  BY <2>2 DEF Consuming, StreamTypeOK
<1> QED  BY <1>1, <1>2, <1>3, <1>4, <1>5 DEF Stream, Consume

LEMMA GaugeStep ==
  ASSUME StreamTypeOK, activeStreams = Cardinality(Consumers), [Next]_vars
  PROVE  activeStreams' = Cardinality(Consumers)'
<1>1. IsFiniteSet(Consumers)
  <2>1. Consumers \subseteq Streams
        BY DEF Consumers
  <2> QED  BY <2>1, FS_Subset, StreamAssumption
<1>2. CASE reader' = reader /\ activeStreams' = activeStreams
  <2>1. Consumers' = Consumers
        BY <1>2 DEF Consumers, Consuming
  <2> QED  BY <1>2, <2>1
<1>3. CASE ProcessEnds
  <2>1. activeStreams' = 0 /\ reader' = [s \in Streams |-> "none"]
        BY <1>3 DEF ProcessEnds
  <2>2. Consumers' = {}
        BY <2>1 DEF Consumers, Consuming
  <2> QED  BY <2>1, <2>2, FS_EmptySet
<1>4. ASSUME NEW s \in Streams, Stream(s)
      PROVE  activeStreams' = Cardinality(Consumers)'
  <2>1. \A t \in Streams \ {s} : Consuming(t)' = Consuming(t)
        BY <1>4, OthersStay DEF Same, Consuming
  <2>2. CASE Consuming(s)' = Consuming(s) /\ activeStreams' = activeStreams
    <3>1. Consumers' = Consumers
          BY <2>1, <2>2 DEF Consumers
    <3> QED  BY <2>2, <3>1
  <2>3. CASE ~Consuming(s) /\ Consuming(s)' /\ activeStreams' = activeStreams + 1
    <3>1. Consumers' = Consumers \cup {s} /\ s \notin Consumers
          BY <2>1, <2>3 DEF Consumers
    <3>2. Cardinality(Consumers \cup {s}) = Cardinality(Consumers) + 1
          BY <1>1, <3>1, FS_AddElement
    <3> QED  BY <2>3, <3>1, <3>2
  <2>4. CASE Consuming(s) /\ ~Consuming(s)' /\ activeStreams' = activeStreams - 1
    <3>1. Consumers' = Consumers \ {s} /\ s \in Consumers
          BY <2>1, <2>4 DEF Consumers
    <3>2. Cardinality(Consumers \ {s}) = Cardinality(Consumers) - 1
          BY <1>1, <3>1, FS_RemoveElement
    <3> QED  BY <2>4, <3>1, <3>2
  <2> QED  BY <1>4, <2>2, <2>3, <2>4, GaugeSteps
<1>5. \/ reader' = reader /\ activeStreams' = activeStreams
      \/ ProcessEnds
      \/ \E s \in Streams : Stream(s)
      BY DEF Next, Run, vars, streamVars, readerVars
<1> QED  BY <1>2, <1>3, <1>4, <1>5

(* The gauge is the number of open streams (StreamFile, meteredStream).    *)
THEOREM GaugeAlwaysCounts == Spec => []GaugeCounts
<1>1. Init => activeStreams = Cardinality(Consumers)
  <2> SUFFICES ASSUME Init PROVE activeStreams = Cardinality(Consumers)
      OBVIOUS
  <2>1. activeStreams = 0 /\ Consumers = {}
        BY DEF Init, StreamInit, Consumers, Consuming
  <2> QED  BY <2>1, FS_EmptySet
<1>2. StreamInv /\ activeStreams = Cardinality(Consumers) /\ [Next]_vars
        => (activeStreams = Cardinality(Consumers))'
      BY GaugeStep DEF StreamInv, TypeOK
<1>3. activeStreams = Cardinality(Consumers) => GaugeCounts
      BY DEF GaugeCounts, Consumers
<1> QED  BY <1>1, <1>2, <1>3, StreamCorrect, PTL DEF Spec

-----------------------------------------------------------------------------
(* Streams come to their ends. *)

(* Nothing is read that is not of the file. *)
LEMMA GotFits ==
  ASSUME StreamTypeOK, NEW s \in Streams, StreamSound(s)
  PROVE  /\ Len(Got(s)) \in Nat /\ Len(Bytes(info[s].range)) \in Nat
         /\ Len(Got(s)) <= Len(Bytes(info[s].range))
<1> DEFINE f == info[s].range.from  t == info[s].range.to
<1>1. f \in Nat /\ t \in Nat /\ f <= t
      BY RangeParts
<1>2. PICK x \in f..t : Got(s) = Between(f, x)
      BY DEF StreamSound
<1>3. x \in Nat /\ f <= x /\ x <= t
      BY <1>1, <1>2
<1>4. \A a, b \in Nat : a <= b => Len(Between(a, b)) = b - a
      BY BetweenParts
<1>5. Bytes(info[s].range) = Between(f, t)
      BY DEF Bytes
<1> HIDE DEF f, t
<1>6. Len(Got(s)) = x - f /\ Len(Bytes(info[s].range)) = t - f
      BY <1>1, <1>2, <1>3, <1>4, <1>5
<1> QED  BY <1>1, <1>3, <1>6

(* What is left to do is a number. *)
LEMMA WorkType ==
  ASSUME StreamTypeOK, NEW s \in Streams, StreamSound(s)
  PROVE  FeederWork(s) \in Nat /\ ReaderWork(s) \in Nat
<1>1. FeederWork(s) \in Nat
  <2>1. CASE feeder[s] \in {"check", "fetch", "write"}
    <3>1. info[s].ToPiece \in Nat /\ piece[s] \in Nat /\ piece[s] <= info[s].ToPiece
      <4>1. info[s] \in Infos /\ piece[s] \in info[s].FromPiece..info[s].ToPiece
            BY <2>1 DEF StreamSound
      <4> QED  BY <4>1, InfoParts
    <3> QED  BY <2>1, <3>1 DEF FeederWork
  <2>2. CASE feeder[s] \notin {"check", "fetch", "write"}
        BY <2>2 DEF FeederWork
  <2> QED  BY <2>1, <2>2
<1>2. ReaderWork(s) \in Nat
      BY GotFits DEF ReaderWork
<1> QED  BY <1>1, <1>2

(* The goroutine never takes a piece up again. *)
LEMMA FeedWorks ==
  ASSUME StreamTypeOK, NEW s \in Streams, StreamSound(s), Feed(s)
  PROVE  FeederWork(s)' < FeederWork(s) /\ ReaderWork(s)' = ReaderWork(s)
<1>1. feeder[s] \in {"check", "fetch", "write"} /\ info' = info
      /\ reader' = reader /\ chunk' = chunk /\ sent' = sent
      BY DEF Feed, CheckContext, PieceArrives, FetchFails, WriteReturns, WriteFails, readerVars
<1>2. ReaderWork(s)' = ReaderWork(s)
      BY <1>1 DEF ReaderWork, Got, Bytes
<1>3. info[s].ToPiece \in Nat /\ piece[s] \in Nat /\ piece[s] <= info[s].ToPiece
  <2>1. info[s] \in Infos /\ piece[s] \in info[s].FromPiece..info[s].ToPiece
        BY <1>1 DEF StreamSound
  <2> QED  BY <2>1, InfoParts
<1>4. CASE feeder'[s] = "ended"
      BY <1>1, <1>2, <1>3, <1>4 DEF FeederWork
<1>5. CASE feeder'[s] = "check" /\ piece'[s] = piece[s] + 1 /\ feeder[s] \in {"fetch", "write"}
      BY <1>1, <1>2, <1>3, <1>5 DEF FeederWork
<1>6. CASE feeder'[s] = "fetch" /\ piece'[s] = piece[s] /\ feeder[s] = "check"
      BY <1>1, <1>2, <1>3, <1>6 DEF FeederWork
<1>7. CASE feeder'[s] = "write" /\ piece'[s] = piece[s] /\ feeder[s] = "fetch"
      BY <1>1, <1>2, <1>3, <1>7 DEF FeederWork
<1>8. CASE CheckContext(s)
      BY <1>4, <1>6, <1>8 DEF CheckContext, Ends, StreamTypeOK
<1>9. CASE feeder[s] \in {"fetch", "write"} /\ NextPiece(s)
      BY <1>4, <1>5, <1>9 DEF NextPiece, Ends, StreamTypeOK
<1>10. CASE PieceArrives(s) /\ ~NextPiece(s)
  <2>1. feeder[s] = "fetch" /\ feeder' = [feeder EXCEPT ![s] = "write"] /\ piece' = piece
        BY <1>10 DEF PieceArrives
  <2> QED  BY <1>7, <2>1 DEF StreamTypeOK
<1>11. CASE FetchFails(s) \/ WriteFails(s)
       BY <1>4, <1>11 DEF FetchFails, WriteFails, Ends, StreamTypeOK
<1>12. PieceArrives(s) \/ WriteReturns(s) => feeder[s] \in {"fetch", "write"}
       BY DEF PieceArrives, WriteReturns
<1>13. WriteReturns(s) => NextPiece(s)
       BY DEF WriteReturns
<1>14. FeederWork(s)' < FeederWork(s)
       BY <1>8, <1>9, <1>10, <1>11, <1>12, <1>13 DEF Feed
<1> QED  BY <1>2, <1>14

(* Every Read brings at least a byte, and none that was read before.       *)
LEMMA ReadBrings ==
  ASSUME StreamTypeOK, NEW s \in Streams, StreamSound(s), ReadData(s)
  PROVE  Len(Got(s)') \in Nat /\ Len(Got(s)) \in Nat /\ Len(Got(s)') > Len(Got(s))
<1> DEFINE n == Smaller(ReadSize, Len(rest[s]))
           got == SubSeq(rest[s], 1, n)
<1>1. /\ rest[s] \in Seq(Nat) /\ rest[s] # <<>> /\ sent[s] \in Seq(Nat)
      /\ chunk[s] = <<>> /\ sent' = sent /\ chunk'[s] = got
      BY DEF ReadData, Take, StreamTypeOK, StreamSound
<1>2. n \in Nat /\ 1 <= n /\ n <= Len(rest[s])
  <2>1. Len(rest[s]) \in Nat /\ Len(rest[s]) # 0
        BY <1>1
  <2> QED  BY <2>1, StreamAssumption DEF Smaller
<1>3. got \in Seq(Nat) /\ Len(got) = n
  <2> HIDE DEF n
  <2>1. 1 \in 1..(Len(rest[s]) + 1) /\ n \in 0..Len(rest[s]) /\ Len(rest[s]) \in Nat
        BY <1>1, <1>2
  <2>2. got \in Seq(Nat) /\ Len(got) = IF 1 <= n THEN n - 1 + 1 ELSE 0
        BY <1>1, <1>2, <2>1, SubSeqProperties
  <2> QED  BY <1>2, <2>2
<1> HIDE DEF got, n
<1>4. Len(sent[s] \o got) = Len(sent[s]) + n
      BY <1>1, <1>3, ConcatProperties
<1>5. sent[s] \o <<>> = sent[s]
      BY <1>1, ConcatEmptySeq
<1>6. Len(sent[s]) \in Nat
      BY <1>1, LenProperties
<1> QED  BY <1>1, <1>2, <1>4, <1>5, <1>6 DEF Got

(* The consumer never goes back to bytes it has had. *)
LEMMA ConsumeWorks ==
  ASSUME StreamTypeOK, NEW s \in Streams, StreamSound(s), Consume(s)
  PROVE  FeederWork(s)' = FeederWork(s) /\ ReaderWork(s)' < ReaderWork(s)
<1> DEFINE all == Len(Bytes(info[s].range))  had == Len(Got(s))  bytes == 3 * (all - had)
<1>1. reader[s] \in {"send", "loop", "read", "flush"} /\ info' = info
      /\ feeder' = feeder /\ piece' = piece
      BY DEF Consume, LoopTop, ReadData, Take, ReadEnds, SendChunk, SendFails, Flush,
             ReadPage, ReadPageFails, feederVars
<1>2. FeederWork(s)' = FeederWork(s)
      BY <1>1 DEF FeederWork
<1>3. all \in Nat /\ had \in Nat /\ had <= all
      BY GotFits
<1>4. Len(Bytes(info[s].range))' = all
      BY <1>1 DEF Bytes
<1> HIDE DEF all, had
<1>5. CASE Got(s)' = Got(s) /\ <<reader[s], reader'[s]>> \in {<<"loop", "read">>, <<"send", "loop">>}
  <2>1. Len(Got(s))' = had
        BY <1>5 DEF had
  <2> QED  BY <1>2, <1>3, <1>4, <1>5, <2>1 DEF ReaderWork, all, had
<1>6. CASE reader'[s] = "flush" /\ reader[s] # "flush"
      BY <1>1, <1>2, <1>3, <1>6 DEF ReaderWork, all, had
<1>7. CASE reader'[s] = "ended"
      BY <1>1, <1>2, <1>3, <1>7 DEF ReaderWork, all, had
<1>8. CASE ReadData(s)
  <2>1. reader[s] = "read" /\ reader'[s] = "send"
        BY <1>8 DEF ReadData, Take, StreamTypeOK
  <2>2. Len(Got(s))' \in Nat /\ Len(Got(s))' > had
        BY <1>8, ReadBrings DEF had
  <2> QED  BY <1>2, <1>3, <1>4, <2>1, <2>2 DEF ReaderWork, all, had
<1>9. CASE LoopTop(s)
  <2>1. Got(s)' = Got(s) /\ reader[s] = "loop" /\ reader'[s] \in {"read", "flush"}
        BY <1>9 DEF LoopTop, Leave, Got, StreamTypeOK
  <2> QED  BY <1>5, <1>6, <2>1
<1>10. CASE SendChunk(s)
  <2>1. sent[s] \in Seq(Nat) /\ chunk[s] \in Seq(Nat)
        BY DEF StreamTypeOK
  <2>2. \A q \in Seq(Nat) : q \o <<>> = q
        BY ConcatEmptySeq
  <2>3. sent[s] \o chunk[s] \in Seq(Nat)
        BY <2>1, ConcatProperties
  <2>4. sent'[s] = sent[s] \o chunk[s] /\ chunk'[s] = <<>>
        /\ reader[s] = "send" /\ reader'[s] = "loop"
        BY <1>10 DEF SendChunk, StreamTypeOK
  <2>5. Got(s)' = Got(s)
        BY <2>2, <2>3, <2>4 DEF Got
  <2> QED  BY <1>5, <2>4, <2>5
<1>11. CASE ReadEnds(s) \/ SendFails(s)
       BY <1>6, <1>11 DEF ReadEnds, SendFails, Leave, StreamTypeOK
<1>12. CASE Flush(s) \/ ReadPage(s) \/ ReadPageFails(s)
       BY <1>7, <1>12 DEF Flush, ReadPage, ReadPageFails, CloseReader, StreamTypeOK
<1>13. ReaderWork(s)' < ReaderWork(s)
       BY <1>8, <1>9, <1>10, <1>11, <1>12 DEF Consume
<1> QED  BY <1>2, <1>13

(* What every stream has left to do is a number. *)
Numbered == \A s \in Streams : FeederWork(s) \in Nat /\ ReaderWork(s) \in Nat

(* A stream is brought nearer to its end by each of its steps, whatever    *)
(* the file, the pieces and the reads are: after no more of them than Work *)
(* counts when it is opened it has ended, or it waits for the network or   *)
(* its client (StreamFile, streamWithDeadline, serveHTMLFile).             *)
THEOREM StreamsWindDown == Spec => WindsDown
<1>1. StreamInv => Numbered
  <2> SUFFICES ASSUME StreamInv, NEW s \in Streams
               PROVE  FeederWork(s) \in Nat /\ ReaderWork(s) \in Nat
      BY DEF Numbered
  <2>1. StreamTypeOK /\ StreamSound(s)
        BY DEF StreamInv, TypeOK
  <2> QED  BY <2>1, WorkType
<1>2. StreamInv /\ Numbered' /\ [Next]_vars =>
        [\A s \in Streams : ~Idle(s) =>
           /\ Work(s)' \in Nat
           /\ \/ Work(s)' < Work(s)
              \/ UNCHANGED <<feeder[s], piece[s], rest[s], reader[s], chunk[s], sent[s]>>]_vars
  <2> SUFFICES ASSUME StreamInv, Numbered', [Next]_vars, NEW t \in Streams, ~Idle(t),
                      ~(UNCHANGED <<feeder[t], piece[t], rest[t], reader[t], chunk[t], sent[t]>>)
               PROVE  Work(t)' < Work(t)
      BY DEF Numbered, Work
  <2>1. StreamTypeOK /\ StreamSound(t)
        BY DEF StreamInv, TypeOK
  <2>2. FeederWork(t) \in Nat /\ ReaderWork(t) \in Nat
        BY <2>1, WorkType
  <2>3. FeederWork(t)' \in Nat /\ ReaderWork(t)' \in Nat
        BY DEF Numbered
  <2>4. CASE UNCHANGED streamVars
        BY <2>4 DEF streamVars, feederVars, readerVars
  <2>5. CASE ProcessEnds
    <3>1. feeder'[t] = "none" /\ reader'[t] = "none"
          BY <2>5 DEF ProcessEnds
    <3>2. FeederWork(t)' = 0 /\ ReaderWork(t)' = 0
          BY <3>1 DEF FeederWork, ReaderWork
    <3>3. FeederWork(t) > 0 \/ ReaderWork(t) > 0
      <4>1. \/ info[t].ToPiece \in Nat /\ piece[t] \in Nat /\ piece[t] <= info[t].ToPiece
            \/ feeder[t] \notin {"check", "fetch", "write"}
        <5>1. feeder[t] \in {"check", "fetch", "write"} =>
                info[t] \in Infos /\ piece[t] \in info[t].FromPiece..info[t].ToPiece
              BY <2>1 DEF StreamSound
        <5> QED  BY <5>1, InfoParts
      <4>2. CASE feeder[t] \notin {"none", "ended"}
            BY <2>1, <4>1, <4>2 DEF FeederWork, StreamTypeOK
      <4>3. CASE reader[t] \notin {"none", "ended"}
            BY <2>1, <4>3, GotFits DEF ReaderWork, StreamTypeOK
      <4> QED  BY <4>2, <4>3 DEF Idle
    <3> QED  BY <2>2, <3>2, <3>3 DEF Work
  <2>6. ASSUME NEW s \in Streams, Stream(s) PROVE Work(t)' < Work(t)
    <3>1. s = t
          BY <2>1, <2>6, OthersStay DEF Same
    <3>2. CASE Feed(t)
          BY <2>1, <2>2, <2>3, <3>2, FeedWorks DEF Work
    <3>3. CASE Consume(t)
          BY <2>1, <2>2, <2>3, <3>3, ConsumeWorks DEF Work
    <3> QED  BY <2>6, <3>1, <3>2, <3>3
             DEF Stream, UnknownPath, DeadlinePasses, ClientLeaves, OpenStream,
                 streamVars, feederVars, readerVars
  <2> QED  BY <2>4, <2>5, <2>6 DEF Next, Run, vars
<1> QED  BY <1>1, <1>2, StreamCorrect, PTL DEF Spec, WindsDown

=============================================================================
