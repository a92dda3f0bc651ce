------------------------------- MODULE MCFeed -------------------------------
(* Every variant of both error types is sent, with payloads at their       *)
(* limits, and foreign bytes on both sides of the ends of the tables       *)
(* arrive, between any updates of two accounts.                            *)
EXTENDS Feed

CONSTANTS a1, a2

MCU8 == {0, 255}
MCU32 == {0, 6000}
MCSlot == {0, 7}
MCDisc == {0, 7, 8, 25, 38, 39, 53, 54, 255}
=============================================================================
