CONSTANTS
  FifoDepth = 4
  MaxFails = 1
  Core1Alive = TRUE
  Task = {feed}
  Feeder = feed
  None = None
  Wrap = 4
  Delays = {1}
  FeedEvery = 1
  WdtTimeout = 3
  MaxLate = 0
  TxRoom = 1
  BulkLen = 1
SPECIFICATION BootSpec
PROPERTY Relistens
CHECK_DEADLOCK FALSE
