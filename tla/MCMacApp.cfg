SPECIFICATION FairSpec
CONSTANTS
  Helper <- MCHelper
  UpPacket = {u1}
  DownPacket = {d1}
  Hello = Hello
  NoOne = NoOne
  MaxPeers = 2
INVARIANT TypeOK
PROPERTIES UpIsPipe DownIsPipe RelayFindsHelper ContainerIsStopped HelpersAreKilled
CHECK_DEADLOCK FALSE
