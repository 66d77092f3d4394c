SPECIFICATION FairSpec
CONSTANTS
  NoKey = NoKey
  PortNumber <- Ports
  SharedPort <- Shared
  Key <- Unkeyed
  Roaming <- OneSide
  Frames <- Idle
  Size <- Sizes
  StrayIps <- OtherIp
  StrayBodies <- StrayKinds
  QueueLen = 2
  MaxFaults = 2
INVARIANTS
  TypeOK
  NeverLosesSteadyPeer
PROPERTY
  Reconnects
