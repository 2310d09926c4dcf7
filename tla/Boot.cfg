CONSTANTS
  FifoDepth = 4
  MaxFails = 16
  Core1Alive = TRUE
  Task = {feed, net, wan}
  Feeder = feed
  None = None
  Wrap = 16
  Delays = {1, 3, 20}
  FeedEvery = 3
  WdtTimeout = 12
  MaxLate = 1
  TxRoom = 2
  BulkLen = 4
SPECIFICATION BootSpec
INVARIANTS
  BootInv
  OnTime
  ResetsOnlyMissed
  ResponseWhole
PROPERTIES
  RelistensAfterRequest
CHECK_DEADLOCK FALSE
