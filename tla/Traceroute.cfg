SPECIFICATION FairSpec
CONSTANTS
  MAX_HOPS = 2
  RCVQ_MAX = 1
  NULL = NULL
  r = r
  d = d
  Addrs <- MCAddrs
  Dest <- MCDest
  Msgs <- MCMsgs
INVARIANTS TypeOK NoSegv ProbesOfHop LineReadsBack LineIsFresh ArrivalStops StopsAtDestUdp
PROPERTIES StopIsFinal NoLeak ImplementsRouteTrace Termination
