SPECIFICATION FairSpec
CONSTANTS
  NoKey = NoKey
  PortNumber <- Ports
  SharedPort <- Shared
  Key <- Keyed
  Roaming <- OneSide
  Frames <- OneWay
  Size <- Sizes
  StrayIps <- AnyIp
  StrayBodies <- StrayKinds
  QueueLen = 1
  MaxFaults = 2
INVARIANTS
  PortsAuthenticated
  WrittenFramesAreRead
  NeverLosesSteadyPeer
PROPERTY
  Reconnects
