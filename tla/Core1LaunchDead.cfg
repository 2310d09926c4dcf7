CONSTANTS
  FifoDepth = 4
  MaxFails = 16
  Core1Alive = FALSE
SPECIFICATION FairSpec
PROPERTY LaunchReturns
CHECK_DEADLOCK FALSE
