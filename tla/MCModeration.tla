----------------------------- MODULE MCModeration -----------------------------
(* Moderation for TLC: one bag carries every race; the bodies of updates   *)
(* ban it, unban it, and do both at once in either order.                  *)
EXTENDS Moderation

S(b, status) == [bag |-> b, status |-> status]

SingleBatches ==
  {<<S(b, x)>> : b \in Bags, x \in BOOLEAN}
ContradictoryBatches ==
  {<<S(b, TRUE), S(b, FALSE)>> : b \in Bags} \cup {<<S(b, FALSE), S(b, TRUE)>> : b \in Bags}
TwiceBatches ==
  {<<S(b, TRUE), S(b, TRUE)>> : b \in Bags}
MCBatches == SingleBatches \cup ContradictoryBatches \cup TwiceBatches
=============================================================================
