CONSTANTS
  g = g
  h = h
  r = r
  c1 = c1
  c2 = c2
  None = None
  Lease <- TwoLeases
  Client = {c1, c2}
  WanHost = {g, r}
  Mac = {m1}
  Flow <- TwoFlows
  WanId = {1, 2}
  NatCap = 1
  NeighCap = 1
  ChanDepth = 1
  TxCap = 1
  MaxFrames = 2
SPECIFICATION Spec
INVARIANTS
  FramesAccounted
  RightClient
PROPERTIES
  MaskedSource
