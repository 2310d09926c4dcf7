SPECIFICATION LinkSpec
CONSTANTS
  Half = 3
  MaxCarry = 3
  MinRun = 2
  MaxHalves = 4
  Preamble = 3
  ByteBits = 4
  MacBits = 4
  HdrBytes = 2
  MinBytes = 3
  MaxBytes = 5
  Headers <- MCHeaders
  Shapes <- MCShapes
  Slack = {0, 2, 3, 7}
  GUARD = 8
  SpinLimit = 2
  MaxAttempts = 2
  MaxRun = 7
  Latency = 22
  FifoDepth = 3
  Pad = 4
  FrameWords = {2, 5}
INVARIANTS CarryInv EveryRunFound OnlyOverlongDropped StaysLocked FrameSurvives
PROPERTIES ImagesContinuous StartsOnQuietWire Transmits FramesSpaced
CHECK_DEADLOCK FALSE
