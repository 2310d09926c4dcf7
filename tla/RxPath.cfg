CONSTANTS
  Slots = 2
  SeqMod = 4
  InboxSlots = 2
  MaxTagged = 2
  MaxFrames = 2
  MaxCaps = 1
SPECIFICATION FairSpec
INVARIANTS
  SlotExclusive
  RxInv
  DeliveredInOrder
PROPERTIES
  ImagesDrained
  RxNeverDies
CHECK_DEADLOCK FALSE
