CONSTANTS
  Slots = 2
  SeqMod = 4
  InboxSlots = 1
  MaxTagged = 1
  MaxFrames = 1
  MaxCaps = 1
SPECIFICATION FairSpec
PROPERTY IrqReturns
CHECK_DEADLOCK FALSE
