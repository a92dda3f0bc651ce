CONSTANTS
  a1 = a1
  a2 = a2
  AccountId = {a1, a2}
  U8 <- MCU8
  U32 <- MCU32
  Slot <- MCSlot
  Disc <- MCDisc
SPECIFICATION FeedSpec
INVARIANTS
  FeedTypeOK
  RoundTrip
  OneAnnouncementPerDeletion
