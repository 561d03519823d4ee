----------------------------- MODULE BanStatement -----------------------------
(***************************************************************************)
(* The one SQL statement of UpdateBanStatus                                *)
(* (pkg/repositories/files/repository.go): an INSERT for what the body     *)
(* bans and a DELETE for what it unbans, both from one snapshot.  A body   *)
(* is a sequence of records with a bag and a status.                       *)
(***************************************************************************)
EXTENDS Sequences

Named(s, status) == {s[i].bag : i \in {j \in DOMAIN s : s[j].status = status}}

(* INSERT ... ON CONFLICT DO UPDATE refuses to touch a row twice. *)
BansTwice(s) ==
  \E i, j \in DOMAIN s : i # j /\ s[i].status /\ s[j].status /\ s[i].bag = s[j].bag

(* What the statement may do to the rows its snapshot sees: the rows that  *)
(* are gone after it, and those that are put in anew.  A row that the body *)
(* unbans and does not ban is gone.  One that it also bans is changed      *)
(* twice in one statement, in no order that PostgreSQL promises: it stays  *)
(* with what the INSERT changes in it, it is gone, or the DELETE comes     *)
(* first and the INSERT meets no row any more and puts in a new one.       *)
Outcomes(visible, s) ==
  LET off   == Named(s, FALSE) \cap visible
      twice == Named(s, TRUE) \cap off
  IN {outcome \in [gone : SUBSET off, anew : SUBSET twice] :
        off \ twice \subseteq outcome.gone /\ outcome.gone \cap outcome.anew = {}}
=============================================================================
