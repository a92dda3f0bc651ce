----------------------------- MODULE MCQueueRing ----------------------------
(* Two producers and two consumers on one ring; two elements, so that a    *)
(* batch can be overtaken by a late push while the other queue is active.  *)
EXTENDS QueueRing

CONSTANTS p1, p2, c1, c2, v1, v2
=============================================================================
