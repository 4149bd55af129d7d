------------------------------ MODULE MCParsing ------------------------------
(* Command lines of up to four arguments over every kind of argument. *)
EXTENDS Parsing

Arg(o, r, g, v) == [option |-> o, resolves |-> r, digits |-> g, value |-> v]

\* The options, a host that resolves, one that does not, and numbers around the
\* limits 28 and 65000 and around the ends of an int (INT_RANGE = 2^18 here).
MCArgs ==
  {Arg("icmp", FALSE, FALSE, 0), Arg("help", FALSE, FALSE, 0),
   Arg("none", TRUE, FALSE, 0), Arg("none", FALSE, FALSE, 0)}
  \cup {Arg("none", r, TRUE, v) :
          r \in BOOLEAN, v \in {0, 27, 28, 29, 65000, 65001, 131071, 131072, 262143, 262144, 262204}}
=============================================================================
