------------------------------ MODULE MCProcess ------------------------------
(* A small instance of the life of the process for TLC: a name without a   *)
(* number between two versions, and a second file of one of them.          *)
EXTENDS Process, TLC

MCFiles == << 1, None, 2, 1 >>

=============================================================================
