SPECIFICATION Spec
CONSTANTS
  Taps <- MCTaps
  Mistakes <- SomeMistakes
  LocalIp <- SpacedIps
  LocalPort <- SpacedPorts
  Stun = TRUE
  MaxAttempts = 3
  PortSpace = 65536
  ForeignLocal <- SomeForeign
  Answers <- MCAnswers
  Garbled <- MCGarbled
INVARIANTS
  TypeOK
  EveryPeerHasItsPort
  SharedAddressIsUsed
  NeverInItsOwnWay
  WellSpacedPeersDoNotCollide
  ReadsWhatWasReceived
PROPERTIES
  StartsOrFails
  AnswerDecides
