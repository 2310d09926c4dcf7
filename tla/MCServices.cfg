CONSTANTS
  a = a
  b = b
  gw = gw
  d = d
  e = e
  None = None
  NoOne = None
  Google = Google
  Lease <- WanLeases
  NicLeases <- PlainLeases
  RouterLeases <- ResolverLeases
  Slot = {1, 2}
  EchoRoom = 1
  MaxPings = 2
  Client = {c1, c2}
  RouterClients = {c1}
  Asker = c1
  PoolLen = 1
  Batch = 2
  SocketCap = 2
SPECIFICATION Spec
INVARIANTS
  QueryIsOurs
  PingBalance
  AddressIsMine
PROPERTIES
  LeaksOnlyOnLeaseEvent
  DnsProbeGoesOn
  Served
  ResolverReaches
