---------------------------- MODULE MCSettlement ----------------------------
(* Model values and small instances for the settlement.                    *)
EXTENDS Settlement, TLC

CONSTANTS w1, w2, r1, o1, o2, loyalty, content

(* Two pools: grant 1 belongs to a content award, grant 2 to a draw.       *)
MCPool    == {loyalty, content}
MCPoolOf  == [g \in Grants |-> IF g = 1 THEN content ELSE loyalty]
MCPoolCap == [b \in Budgets |-> 2]

(* One pool with a cap of two that the grants of 1, 2, ... cannot share.   *)
MCOnePool    == {content}
MCOnePoolOf  == [g \in Grants |-> content]
MCOnePoolCap == [b \in Budgets |-> 2]

MCAmount == [g \in Grants |-> g]

AllFaults == {"lease", "load", "misroute", "transaction", "crash"}

Symmetric == Permutations({w1, w2}) \cup Permutations({o1, o2})
=============================================================================
