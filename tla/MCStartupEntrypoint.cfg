SPECIFICATION Spec
CONSTANTS
  Taps <- EntrypointTaps
  Mistakes = {}
  LocalIp <- EntrypointIps
  LocalPort <- EntrypointPorts
  Stun = TRUE
  MaxAttempts = 3
  PortSpace = 65536
  ForeignLocal <- EntrypointForeign
  Answers <- EntrypointAnswers
  Garbled = {}
INVARIANT PeersDoNotCollide
