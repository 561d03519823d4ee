------------------------------ MODULE MCBanBook ------------------------------
(* BanBook for TLC: two bags, one of them also written in capitals; bodies *)
(* that ban either, unban both, and ban and unban one at once.             *)
EXTENDS BanBook, TLC

MCLower == [b1 |-> "b1", B1 |-> "b1", b2 |-> "b2"]

S(i, name, status) == [bag |-> i, name |-> name, status |-> status]
MCBodies ==
  {<<>>, <<S("short", "ann", TRUE)>>,
   <<S("B1", "ann", TRUE)>>, <<S("b2", "ann", TRUE)>>,
   <<S("b1", "bob", FALSE), S("b2", "bob", FALSE)>>,
   <<S("b1", "bob", TRUE), S("b1", "bob", FALSE)>>}

(* A missing header, a token with its scheme, one without; lists that name *)
(* a token twice, give no words, and hold a token instead of its hash.     *)
MCHeaders == {<<>>, <<"bearer", "t1">>, <<"t2">>}
MCMD5 == (<<"t1">> :> "h1") @@ (<<"t2">> :> "h2")
E(hash, listed, words) == [hash |-> hash, listed |-> listed, words |-> words]
MCTokenLists ==
  {<<E("h1", TRUE, {"metrics"}), E("h2", TRUE, {"metrics", "other"}), E("h1", TRUE, {"bans"})>>,
   <<E("h1", FALSE, {}), E("none", FALSE, {}), E("h1", TRUE, {"reports"}), E("t2", TRUE, {"all"})>>}

Symmetry == Permutations(Calls)
=============================================================================
