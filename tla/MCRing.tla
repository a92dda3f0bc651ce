------------------------------- MODULE MCRing -------------------------------
(* Two producers and one consumer on a ring of two slots that is lapped   *)
(* more than once, with transactions that reach memory in two parts.       *)
EXTENDS TransactionRing

CONSTANTS p1, p2, c1, x1, x2
=============================================================================
