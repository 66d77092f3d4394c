SPECIFICATION FairSpec
CONSTANTS
  a = a
  b = b
  bcast = bcast
  ipA = ipA
  ipB = ipB
  noIp = noIp
  Mac <- MCMac
  Group <- MCGroup
  Ip <- MCIp
  NoIp = noIp
  Host = host
  Home <- MCHome
  Switch <- RowSwitch
  Ports <- RowPorts
  Link <- RowLink
  Far <- RowFar
  Behind <- RowBehind
  Letters <- RowLetters
  MaxForget = 2
INVARIANTS
  TypeOK
  NoDuplicates
  EntriesLeadHome
  FloodIsComplete
  UnicastIsComplete
PROPERTIES
  FloodReachesAll
  UnicastArrives
  IsSegment
CHECK_DEADLOCK FALSE
