CONSTANTS
  g = g
  h = h
  r = r
  c1 = c1
  c2 = c2
  None = None
  Lease <- TwoLeases
  Client = {c1}
  WanHost = {g, h, r}
  Mac = {m1, m2}
  Flow <- OneFlow
  WanId = {1}
  NatCap = 1
  NeighCap = 2
  ChanDepth = 1
  TxCap = 1
  MaxFrames = 0
SPECIFICATION FairSpec
INVARIANTS
  NeighborsCurrent
PROPERTIES
  GatewayRelearned
