---------------------------- MODULE MCIdempotency ----------------------------
(* A small instance of the idempotency keys for TLC.                       *)
EXTENDS Idempotency, TLC

=============================================================================
