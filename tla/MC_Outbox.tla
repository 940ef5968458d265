------------------------------ MODULE MC_Outbox ------------------------------
(* Two publisher replicas of one service sharing its outbox table.         *)
EXTENDS Outbox

CONSTANTS p1, p2, a1, a2

MCPublishers == {p1, p2}
MCAggregates == {a1, a2}
=============================================================================
