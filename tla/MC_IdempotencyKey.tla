-------------------------- MODULE MC_IdempotencyKey --------------------------
(* Concurrent and retried requests sharing one Idempotency-Key.            *)
EXTENDS IdempotencyKey

CONSTANTS r1, r2, r3

MCTwoRequests == {r1, r2}
MCThreeRequests == {r1, r2, r3}
=============================================================================
