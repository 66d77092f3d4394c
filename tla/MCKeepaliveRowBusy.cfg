SPECIFICATION Spec
CONSTANTS
  Switch <- Four
  Links <- Row
  Hosts <- Ends
  Local = {}
  POLL_TIMEOUT = 3
  MaxLatency = 0
  NatTimeout = 9
INVARIANT LinksAlive
