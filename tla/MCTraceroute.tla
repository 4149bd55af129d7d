---------------------------- MODULE MCTraceroute ----------------------------
(* Small instances of Traceroute: one router and the destination. *)
EXTENDS TraceRefinement

CONSTANT r, d

MCAddrs == {r, d}
MCDest == d
\* An echo reply and a time exceeded message, from either address.
MCMsgs == [saddr : MCAddrs, type : {0, 11}]
=============================================================================
