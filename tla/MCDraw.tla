------------------------------- MODULE MCDraw -------------------------------
(* Model values and small instances for the draws of one member.           *)
EXTENDS Draw, TLC

CONSTANTS q1, q2, q3, a1, h1, k1, k2, o1, o2

MCLegacyKey == [h \in Historical |-> k1]
MCPrizes == {[kind |-> "loyalty", amount |-> 1], [kind |-> "community_exp", amount |-> 2]}
MCCap  == [k \in Kinds |-> IF k = "loyalty" THEN 1 ELSE 3]
MCRich == [k \in Kinds |-> 9]

Symmetric == Permutations({q1, q2, q3}) \cup Permutations({o1, o2})
=============================================================================
