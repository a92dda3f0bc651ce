CONSTANTS
  AccountId <- MCAccountId
  Program <- MCProgram
  Byte <- MCByte
  U16 = 3
  U8 = 2
  MaxIx = 3
  MaxAccount = 2
  MaxData = 1
SPECIFICATION Spec
INVARIANTS
  TypeOK
  SectionsInStep
  AccountSorted
  ChunkTables
  WireRoundTrip
