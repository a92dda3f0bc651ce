CONSTANTS
  AccountId <- MCAccountId
  Program <- MCProgram
  Byte <- MCByte
  U16 = 3
  U8 = 2
  MaxIx = 2
  MaxAccount = 2
  MaxData = 1
SPECIFICATION Spec
INVARIANT
  ReadsBack
