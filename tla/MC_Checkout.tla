----------------------------- MODULE MC_Checkout -----------------------------
(* Two checkout requests of one business, sharing an Idempotency-Key or    *)
(* not.                                                                    *)
EXTENDS Checkout

CONSTANTS k1, r1, r2

MCKeys == {k1}
MCReqs == {r1, r2}
=============================================================================
