SPECIFICATION Spec
CONSTANTS
  Switch <- Three
  Links <- Hub
  Hosts <- First
  Local <- First
  POLL_TIMEOUT = 3
  MaxLatency = 1
  NatTimeout = 4
INVARIANT LinksAlive
