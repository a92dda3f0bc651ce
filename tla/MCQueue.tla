------------------------------ MODULE MCQueue -------------------------------
(* Three threads on one counted queue of at most four elements.            *)
EXTENDS LocklessQueue

CONSTANTS t1, t2, t3
=============================================================================
