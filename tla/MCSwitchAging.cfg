SPECIFICATION Spec
CONSTANTS
  a = a
  b = b
  bcast = bcast
  ipA = ipA
  ipB = ipB
  noIp = noIp
  Mac <- MCMac
  Group <- MCGroup
  Ip <- MCIp
  NoIp = noIp
  NPorts = 2
  FDB_AGING_TIME = 1
  AGE_CHECK_INTERVAL = 1
  TicksPerSecond = 2
  Frames <- AgingFrames
  QueueLen = 1
  MaxTime = 7
  MaxLag = 1
INVARIANTS
  TypeOK
  ReadNeverBlocks
  SweptInTime
  TablesRemember
  ProxyKnowsPort
PROPERTY
  BridgeSpec
