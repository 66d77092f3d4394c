SPECIFICATION FairSpec
CONSTANTS
  Helper <- MCHelper
  UpPacket = {}
  DownPacket = {}
  Hello = Hello
  NoOne = NoOne
  MaxPeers = 2
PROPERTY AskedPeersAreServed
CHECK_DEADLOCK FALSE
