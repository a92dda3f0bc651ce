---------------------------- MODULE MCTransaction ---------------------------
(* Transactions of up to three instructions, two account ids, a 16-bit     *)
(* counter that wraps at three, so that the second chunk can pass it, and  *)
(* an 8-bit counter that wraps at two, with the second inner instruction.  *)
EXTENDS CatscopeTransaction

MCAccountId == {5, 9}
MCProgram == {7}
MCByte == {1}
=============================================================================
