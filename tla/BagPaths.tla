------------------------------ MODULE BagPaths ------------------------------
(***************************************************************************)
(* Paths into a bag and what a bag has at them: sanitizePath               *)
(* (pkg/httpServer/helpers.go), ls and isSingleFile                        *)
(* (pkg/services/files/service.go).                                        *)
(*                                                                         *)
(* A path as it comes in is the sequence of what its slashes separate; one *)
(* that begins with a slash begins with an empty segment.  A clean path is *)
(* [rooted, names].  A bag is a set of files [path, size].                 *)
(***************************************************************************)
EXTENDS Integers, FiniteSets, SequencesExt

CONSTANTS
  Names,                      \* names of files and folders
  LeftTrimmed, RightTrimmed,  \* a name without the blanks it begins, ends with
  Unfit                       \* names longer than MaxPathLength or with a NUL

Segments == Names \cup {"", ".", ".."}

ASSUME NamesAssumption ==
  /\ {"", ".", "..", "refused"} \cap Names = {}
  /\ LeftTrimmed \in [Segments -> Segments] /\ RightTrimmed \in [Segments -> Segments]
  /\ \A s \in {"", ".", ".."} : LeftTrimmed[s] = s /\ RightTrimmed[s] = s
  /\ Unfit \subseteq Names

Root == [rooted |-> FALSE, names |-> <<>>]

(* strings.TrimSpace *)
TrimSpace(p) ==
  [i \in DOMAIN p |->
     LET s == IF i = 1 THEN LeftTrimmed[p[i]] ELSE p[i]
     IN IF i = Len(p) THEN RightTrimmed[s] ELSE s]

(* filepath.Clean: ".." takes back the name before it; at the front it     *)
(* stays, or goes when the path is rooted.                                 *)
Rooted(p) == Len(p) > 1 /\ p[1] = ""
Joined(rooted, names, s) ==
  IF s \in {"", "."} THEN names
  ELSE IF s # ".." THEN Append(names, s)
  ELSE IF names # <<>> /\ Last(names) # ".." THEN Front(names)
  ELSE IF rooted THEN names
  ELSE Append(names, s)
Clean(p) ==
  LET after[n \in 0..Len(p)] ==
        IF n = 0 THEN <<>> ELSE Joined(Rooted(p), after[n - 1], p[n])
  IN [rooted |-> Rooted(p), names |-> after[Len(p)]]

(* sanitizePath: a clean path, or Refused.  Faulty variant: only a path    *)
(* that begins with ".." is refused for climbing.                          *)
Refused == [rooted |-> FALSE, names |-> <<"refused">>]
SanitizeFront(p) ==
  LET t == TrimSpace(p) IN
  IF t \in {<<"">>, <<".">>, <<"", "">>} THEN Root
  ELSE IF t[1] = ".." \/ Range(Clean(t).names) \cap Unfit # {} THEN Refused ELSE Clean(t)
Sanitize(p) ==
  LET t == TrimSpace(p) IN
  IF t \in {<<"">>, <<".">>, <<"", "">>} THEN Root
  ELSE IF Range(Clean(t).names) \cap (Unfit \cup {".."}) # {} THEN Refused ELSE Clean(t)

-----------------------------------------------------------------------------
(* ls: the entries of the folder q, or q itself when it is a file.         *)
Below(f, q) == Len(f.path) > Len(q) /\ IsPrefix(q, f.path)
File(f) == [name |-> Last(f.path), size |-> f.size, folder |-> FALSE]
Folder(name) == [name |-> name, size |-> "none", folder |-> TRUE]
Ls(bag, q) ==
  {Folder(f.path[Len(q) + 1]) : f \in {g \in bag : Below(g, q) /\ Len(g.path) > Len(q) + 1}}
  \cup {File(f) : f \in {g \in bag : Below(g, q) /\ Len(g.path) = Len(q) + 1}}
  \cup {File(f) : f \in {g \in bag : g.path = q}}

IsSingleFile(entries) == Cardinality(entries) = 1 /\ \A e \in entries : ~e.folder

-----------------------------------------------------------------------------
(* What is asked for, told without cleaning the path or listing the bag.   *)
(* How far the first i segments have gone down; a path climbs when it gets *)
(* above where it began.                                                   *)
Depth(p, i) ==
  Cardinality({j \in 1..i : p[j] \in Names}) - Cardinality({j \in 1..i : p[j] = ".."})
Climbs(p) == ~Rooted(p) /\ \E i \in DOMAIN p : Depth(p, i) < 0

(* The names nothing after them takes back. *)
Kept(p) ==
  {i \in DOMAIN p : p[i] \in Names /\ \A j \in i..Len(p) : Depth(p, j) >= Depth(p, i)}

IsFile(bag, q) == \E f \in bag : f.path = q
IsFolder(bag, q) == \E f \in bag : Below(f, q)

Children(bag, q) ==
  {[name |-> n, folder |-> IsFolder(bag, Append(q, n))] :
     n \in {f.path[Len(q) + 1] : f \in {g \in bag : Below(g, q)}}}
=============================================================================
