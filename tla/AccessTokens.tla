----------------------------- MODULE AccessTokens -----------------------------
(***************************************************************************)
(* The configured access tokens and the check before a protected handler:  *)
(* New (pkg/httpServer/handler.go), requirePermission (middlewares.go).    *)
(*                                                                         *)
(* An entry of the list is [hash, listed, words]: the text before the      *)
(* first colon, whether there is one, and the words after it.  A header is *)
(* the sequence of its words, empty when it is missing.                    *)
(***************************************************************************)
EXTENDS Naturals, Sequences

CONSTANTS
  Headers,    \* values of the Authorization header
  Hashes,     \* what the list may hold for a hash, with NoHash for an empty one
  NoHash,
  MD5,        \* MD5[t]: the hash of a text, as New expects it in the list
  TokenLists  \* SYSTEM_ACCESS_TOKENS: the lists of entries considered

Permissions == {"bans", "reports", "metrics"}
Words == Permissions \cup {"all", "other"}

Scheme == "bearer"
Presented(h) == IF Len(h) > 1 /\ Head(h) = Scheme THEN Tail(h) ELSE h

ASSUME TokenAssumption ==
  /\ NoHash \in Hashes
  /\ TokenLists \subseteq Seq([hash : Hashes, listed : BOOLEAN, words : SUBSET Words])
  /\ \A h \in Headers : h # <<>> => MD5[Presented(h)] \in Hashes \ {NoHash}

(* What a word of an entry grants. *)
Granted ==
  [bans |-> {"bans", "reports"}, reports |-> {"reports"}, metrics |-> {"metrics"},
   all |-> Permissions, other |-> {}]

PermissionsOf(entry) ==
  IF entry.listed THEN UNION {Granted[w] : w \in entry.words} ELSE Permissions

Unknown == {"unknown"}
NoTokens == [h \in Hashes |-> Unknown]

(* One round of the loop of New.  Faulty variant: an entry adds to one     *)
(* before it for the same token.                                           *)
EnteredOnTop(tokens, entry) ==
  IF entry.hash = NoHash THEN tokens
  ELSE [tokens EXCEPT ![entry.hash] =
          PermissionsOf(entry) \cup (IF @ = Unknown THEN {} ELSE @)]
Entered(tokens, entry) ==
  IF entry.hash = NoHash THEN tokens
  ELSE [tokens EXCEPT ![entry.hash] = PermissionsOf(entry)]

AccessTokensMap(list) ==
  LET after[n \in 0..Len(list)] ==
        IF n = 0 THEN NoTokens ELSE Entered(after[n - 1], list[n])
  IN after[Len(list)]

(* requirePermission: the status it answers with, or 200 for Next. *)
Verdict(tokens, h, permission) ==
  IF h = <<>> THEN 401
  ELSE LET mine == tokens[MD5[Presented(h)]] IN
       IF mine # Unknown /\ permission \in mine THEN 200 ELSE 403

-----------------------------------------------------------------------------
(* Whether a list says that a header may be used for something: the last   *)
(* entry for its token counts, and it names the permission, one that       *)
(* includes it, or none at all.                                            *)
SaysSo(list, h, permission) ==
  \E i \in DOMAIN list :
    /\ h # <<>> /\ list[i].hash = MD5[Presented(h)]
    /\ \A j \in i + 1..Len(list) : list[j].hash # list[i].hash
    /\ \/ ~list[i].listed
       \/ permission \in list[i].words
       \/ "all" \in list[i].words
       \/ permission = "reports" /\ "bans" \in list[i].words
=============================================================================
