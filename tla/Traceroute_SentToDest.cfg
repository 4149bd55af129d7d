SPECIFICATION Spec
CONSTANTS
  MAX_HOPS = 2
  RCVQ_MAX = 1
  NULL = NULL
  r = r
  d = d
  Addrs <- MCAddrs
  Dest <- MCDest
  Msgs <- MCMsgs
INVARIANT SentToDest
