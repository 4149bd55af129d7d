-------------------------- MODULE MCTracerouteNet --------------------------
(* The destination one, two and three hops away. *)
EXTENDS TracerouteNet

CONSTANTS r, s, d

MCAddrs == {r, s, d}
MCDest == d
MCPaths == {<<d>>, <<r, d>>, <<r, s, d>>}
MCMsgs == [saddr : MCAddrs, type : {0, 3, 11}, hop : 1..MAX_HOPS, probe : 0..2]
=============================================================================
