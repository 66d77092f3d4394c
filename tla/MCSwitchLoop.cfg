SPECIFICATION FairSpec
CONSTANTS
  a = a
  b = b
  bcast = bcast
  ipA = ipA
  ipB = ipB
  noIp = noIp
  Mac <- MCMac
  Group <- MCGroup
  Ip <- MCIp
  NoIp = noIp
  NPorts = 3
  FDB_AGING_TIME = 1
  AGE_CHECK_INTERVAL = 1
  TicksPerSecond = 1
  Frames <- LoopFrames
  QueueLen = 2
  MaxTime = 0
  MaxLag = 0
PROPERTY
  EveryPortServed
