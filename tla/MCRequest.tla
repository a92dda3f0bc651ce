------------------------------ MODULE MCRequest -----------------------------
(* Bundles of two transactions of up to two bytes.                         *)
EXTENDS TransactionRequest

MCByte == {1, 2}
=============================================================================
