----------------------------- MODULE BagSessions -----------------------------
(***************************************************************************)
(* What the remote storage client promises about its network sessions: a   *)
(* bag has at most one, it is being opened, then open for all, and an open *)
(* one is closed only to make room for a new one, never below the limit.   *)
(***************************************************************************)
EXTENDS Naturals, FiniteSets

CONSTANTS Bags, Limit

VARIABLES
  opening,   \* bags with a started torrent that is not shared yet
  open       \* bags whose torrent is shared by all callers

sessionVars == <<opening, open>>

SessionsInit == opening = {} /\ open = {}

Begin(b) ==
  /\ b \notin opening \cup open
  /\ opening' = opening \cup {b}
  /\ UNCHANGED open

Abandon(b) ==
  /\ b \in opening
  /\ opening' = opening \ {b}
  /\ UNCHANGED open

Share(b, V) ==
  /\ b \in opening
  /\ V # {} => Cardinality((open \cup {b}) \ V) >= Limit
  /\ opening' = opening \ {b}
  /\ open' = (open \cup {b}) \ V

SessionsNext ==
  \E b \in Bags : Begin(b) \/ Abandon(b) \/ \E V \in SUBSET Bags : Share(b, V)

SessionsSpec == SessionsInit /\ [][SessionsNext]_sessionVars
=============================================================================
