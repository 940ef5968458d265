---------------------------- MODULE MC_Scheduler ----------------------------
(* The scheduler's consumer and two worker replicas with two reminder      *)
(* requests.                                                               *)
EXTENDS Scheduler

CONSTANTS w1, w2, k1, k2

MCWorkers == {w1, w2}
MCKeys == {k1, k2}
=============================================================================
