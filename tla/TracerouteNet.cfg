SPECIFICATION FairNetSpec
CONSTANTS
  MAX_HOPS = 2
  RCVQ_MAX = 1
  NULL = NULL
  r = r
  s = s
  d = d
  Addrs <- MCAddrs
  Dest <- MCDest
  Msgs <- MCMsgs
  Paths <- MCPaths
  TIMEOUT = 2
  MAXDELAY = 1
INVARIANTS AnswersOwnProbe RouteIsPath StopsAtDest
PROPERTY TimedTermination
