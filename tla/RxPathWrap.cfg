CONSTANTS
  Slots = 6
  SeqMod = 16
  InboxSlots = 1
  MaxTagged = 0
  MaxFrames = 0
  MaxCaps = 0
SPECIFICATION Spec
INVARIANT SlotExclusive
