CONSTANTS
  hostA = hostA
  hostB = hostB
  peer = peer
  Free = Free
  Flow <- MCFlow
  Cap = 2
  NatLo = 5
  NatHi = 8
  TTcpEst = 2
  TTcpTrans = 1
  TUdp = 2
  TIcmp = 1
  MaxNow = 2
SPECIFICATION FairSpec
INVARIANTS
  TypeOK
  UniqueFlows
  OwnerExact
  LiveGauge
  IdQuarantine
  AllocSucceeds
PROPERTIES
  EvictsOnlyTheStalest
  IdleFlowsFreed
  ImplementsTranslation
