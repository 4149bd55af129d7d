SPECIFICATION NetSpec
CONSTANTS
  MAX_HOPS = 2
  RCVQ_MAX = 1
  NULL = NULL
  r = r
  s = s
  d = d
  Addrs <- MCAddrs
  Dest <- MCDest
  Msgs <- MCMsgs
  Paths <- MCPaths
  TIMEOUT = 1
  MAXDELAY = 2
INVARIANT AnswersOwnProbe
