------------------------------ MODULE MCGateway ------------------------------
(* Gateway for TLC: paths of up to three segments over names that blanks,  *)
(* escapes, extensions and each other's endings tell apart.                *)
EXTENDS Gateway, TLC

(* xa ends in a, and "a " is a with a blank after it; c+d is read as       *)
(* "c d"; nul holds a NUL.  The bags are in the folder db/bag.             *)
Asked == {"a", "xa", "a ", " ", "c+d", "c d", "p.html", "v.mp4", "nul"}
MCDir == <<"db", "bag">>
MCNames == Asked \cup {"db", "bag"}
MCTooLong == {MCDir \o <<"xa", "xa">>}
Trim(n) == CASE n = "a " -> "a" [] n = " " -> "" [] OTHER -> n
MCTrimmed == [n \in MCNames \cup {"", ".", ".."} |-> Trim(n)]
MCLeft == [n \in MCNames \cup {"", ".", ".."} |-> IF n = " " THEN "" ELSE n]
MCUnescaped == [n \in MCNames |-> IF n = "c+d" THEN "c d" ELSE n]
MCEndsIn == [n \in MCNames |-> IF n = "xa" THEN {"a", "xa"} ELSE {n}]
MCFormatsOf ==
  [n \in MCNames |->
     CASE n = "p.html" -> {"html"} [] n = "v.mp4" -> {"mp4"} [] OTHER -> {}]
MCFormatLists == <<{"png"}, {"mp4"}, {"mp3"}, {"txt", "html"}>>

F(p, s) == [path |-> p, size |-> s]
MCBags ==
  {{F(<<"a", "a">>, "small"), F(<<"xa", "a">>, "small"), F(<<"p.html">>, "page"), F(<<"c+d">>, "huge")},
   {F(<<"a", "xa", "v.mp4">>, "small"), F(<<"a", "a ">>, "small"), F(<<"a", "a">>, "page"),
    F(<<" ", "a">>, "small"), F(<<"c d", "p.html">>, "small"),
    F(<<"xa", "a ">>, "small"), F(<<"xa", "xa">>, "small"), F(<<"c d", " ">>, "small")}}

(* All paths of up to two segments, and longer ones: the last, "c d/ /.",  *)
(* ends in a blank only once it is clean.  All that says where a request   *)
(* comes from for one path, none for others.                               *)
S == Asked \cup {"", ".", ".."}
Few == {"a", "xa", "a ", "p.html", "", ".", ".."}
MCPaths ==
  {<<a>> : a \in S} \cup {<<a, b>> : a, b \in S}
  \cup {<<a, b, c>> : a, b, c \in Few} \cup {<<"c d", " ", ".">>}
MCQueries ==
  {[NoQuery EXCEPT !.path = p] : p \in MCPaths}
  \cup {[path |-> <<"a">>, direct |-> d, dest |-> t, html |-> h] :
         d, h \in BOOLEAN, t \in {"none", "document", "other"}}
=============================================================================
