------------------------------- MODULE MCRelay ------------------------------
(* Channels of one and two places, four reports, and ratios below zero,    *)
(* between, above one and not a number.                                    *)
EXTENDS CapacityRelay

MCUsage == {-1, 4, 12, NaN}
=============================================================================
