SPECIFICATION FairSpec
CONSTANTS
  a = a
  b = b
  bcast = bcast
  ipA = ipA
  ipB = ipB
  noIp = noIp
  Mac <- MCMac
  Group <- MCGroup
  Ip <- MCIp
  NoIp = noIp
  Host = host
  Home <- MCHome
  Switch <- RingSwitch
  Ports <- RingPorts
  Link <- RingLink
  Far <- RingFar
  Behind <- RingBehind
  Letters <- RingLetters
  MaxForget = 0
INVARIANT
  NoDuplicates
CHECK_DEADLOCK FALSE
