------------------------ MODULE MCExperienceDelivery ------------------------
(* A small instance of the delivery of experience.                         *)
EXTENDS ExperienceDelivery, TLC

CONSTANTS u1, u2, w1, w2, r1, pool

MCPool    == {pool}
MCPoolOf  == [g \in Grants |-> pool]
MCPoolCap == [b \in Budgets |-> 4]
MCAmount  == [g \in Grants |-> g]
MCUserOf  == [g \in Grants |-> IF g = 3 THEN u2 ELSE u1]
=============================================================================
