------------------------------ MODULE Lifecycle ------------------------------
(***************************************************************************)
(* The program from start to exit: run (cmd/main.go), NewClient and Close  *)
(* of the remote client (pkg/clients/remote-ton-storage/client.go).        *)
(*                                                                         *)
(* What NewClient opens is a set of resources.  A step of NewClient that   *)
(* fails closes what the steps before it have opened; Close closes all of  *)
(* them, one after the other, while requests are still being served.  run  *)
(* closes them on a signal, and again in its deferred call.                *)
(***************************************************************************)
EXTENDS Naturals, Sequences

VARIABLES
  stage,      \* where run is
  step,       \* the step of NewClient that is next
  open,       \* the resources of the remote client that are open
  closing,    \* what the present call of Close, or a failed NewClient, still closes
  listening   \* app.Listen accepts connections

lifeVars == <<stage, step, open, closing, listening>>

Stages == {"config", "database", "client", "failing", "templates", "serving",
           "closing", "draining", "leaving", "exited"}
Resources == {"netMgr", "dhtGateway", "dhtClient", "storageGate", "srv"}

LifeTypeOK ==
  /\ stage \in Stages
  /\ step \in 1..8
  /\ open \in SUBSET Resources
  /\ closing \in Seq(Resources)
  /\ listening \in BOOLEAN

LifeInit ==
  /\ stage = "config" /\ step = 1
  /\ open = {} /\ closing = <<>> /\ listening = FALSE

(* The steps of NewClient: fetch the configuration, listen, make a key,    *)
(* start the DHT gateway, make the DHT client, make a key, start the       *)
(* storage gateway, make the server.  What each opens when it succeeds,    *)
(* and what its error path closes, in this order.                          *)
Opens == <<{}, {"netMgr"}, {}, {"dhtGateway"}, {"dhtClient"}, {},
           {"storageGate"}, {"srv"}>>
ErrorPath ==
  LET dht == <<"dhtClient", "dhtGateway", "netMgr">>
  IN <<<<>>, <<>>, <<"netMgr">>, <<"netMgr">>, Tail(dht), dht, dht>>

(* Close. *)
CloseOrder == <<"srv", "storageGate", "dhtClient", "dhtGateway", "netMgr">>

(* What a resource works on. *)
Needs == [netMgr |-> {}, dhtGateway |-> {"netMgr"}, dhtClient |-> {"dhtGateway"},
          storageGate |-> {"netMgr"}, srv |-> {"dhtClient", "storageGate"}]

Enter(next) == stage' = next

-----------------------------------------------------------------------------
(* loadConfig and connectPostgres; without either, run returns.            *)
Configure ==
  /\ stage = "config"
  /\ Enter("database") \/ Enter("failing")
  /\ UNCHANGED <<step, open, closing, listening>>

ConnectDatabase ==
  /\ stage = "database"
  /\ Enter("client") \/ Enter("failing")
  /\ UNCHANGED <<step, open, closing, listening>>

StepSucceeds ==
  /\ stage = "client"
  /\ open' = open \cup Opens[step]
  /\ IF step < 8 THEN step' = step + 1 /\ UNCHANGED stage
     ELSE Enter("templates") /\ UNCHANGED step
  /\ UNCHANGED <<closing, listening>>

(* Faulty variant: the error path of the step before it.                   *)
StepFailsShort ==
  /\ stage = "client" /\ step \in 2..7
  /\ Enter("failing")
  /\ closing' = ErrorPath[step - 1]
  /\ UNCHANGED <<step, open, listening>>
StepFails ==
  /\ stage = "client" /\ step < 8
  /\ Enter("failing")
  /\ closing' = ErrorPath[step]
  /\ UNCHANGED <<step, open, listening>>

(* run has registered the deferred Close. *)
TemplatesFail ==
  /\ stage = "templates"
  /\ Enter("leaving") /\ closing' = CloseOrder
  /\ UNCHANGED <<step, open, listening>>

(* The server is made and its goroutine begins to listen, or logs an error *)
(* and leaves the program waiting for a signal.                            *)
Serve ==
  /\ stage = "templates"
  /\ Enter("serving") /\ listening' \in BOOLEAN
  /\ UNCHANGED <<step, open, closing>>

(* SIGINT or SIGTERM: Close, with the server still listening. *)
Signal ==
  /\ stage = "serving"
  /\ Enter("closing") /\ closing' = CloseOrder
  /\ UNCHANGED <<step, open, listening>>

CloseNext ==
  /\ closing # <<>>
  /\ open' = open \ {Head(closing)} /\ closing' = Tail(closing)
  /\ UNCHANGED <<stage, step, listening>>

(* ShutdownWithTimeout begins: no more connections, all contexts done. *)
BeginDrain ==
  /\ stage = "closing" /\ closing = <<>>
  /\ Enter("draining") /\ listening' = FALSE
  /\ UNCHANGED <<step, open, closing>>

(* It returns, with or without an error; the deferred Close runs. *)
EndDrain ==
  /\ stage = "draining"
  /\ Enter("leaving") /\ closing' = CloseOrder
  /\ UNCHANGED <<step, open, listening>>

Exit ==
  /\ stage \in {"failing", "leaving"} /\ closing = <<>>
  /\ Enter("exited")
  /\ UNCHANGED <<step, open, closing, listening>>

(* The container is started again. *)
Restart ==
  /\ stage = "exited"
  /\ Enter("config") /\ step' = 1
  /\ open' = {} /\ closing' = <<>> /\ listening' = FALSE

Starting == Configure \/ ConnectDatabase \/ StepSucceeds \/ StepFails
              \/ TemplatesFail \/ Serve

-----------------------------------------------------------------------------
(* What is open at each stage, for the inductive invariant: what the steps *)
(* of NewClient so far have opened; in a failed start and in the first     *)
(* Close, what is still to be closed; in the second Close, nothing.        *)
Opened(k) == UNION {Opens[j] : j \in 1..(k - 1)}
ToClose(k) == [j \in 1..(6 - k) |-> CloseOrder[k + j - 1]]
StillOpen(k) == {CloseOrder[j] : j \in k..5}

LifeSound ==
  /\ stage \in {"config", "database", "exited"} => open = {}
  /\ stage = "client" => open = Opened(step)
  /\ stage \in {"templates", "serving"} => open = Resources
  /\ stage \in {"failing", "closing", "leaving"} =>
       \E k \in 1..6 : closing = ToClose(k) /\ open \in {{}, StillOpen(k)}
  /\ stage = "draining" => open = {}
  /\ stage \notin {"failing", "closing", "leaving"} => closing = <<>>
  /\ stage = "database" => step = 1
  /\ stage = "config" => step = 1

(* Nothing is open while what it works on is closed, in the error paths of *)
(* NewClient, in Close and in its second call; and whichever step failed   *)
(* or whenever the signal came, run leaves nothing of the client open.     *)
Orderly ==
  /\ \A r \in open : Needs[r] \subseteq open
  /\ stage = "exited" => open = {}
=============================================================================
