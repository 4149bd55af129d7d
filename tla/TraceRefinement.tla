-------------------------- MODULE TraceRefinement --------------------------
(***************************************************************************)
(* Traceroute implements RouteTrace: the hop line, read as a reader would, *)
(* gives the results; the mode, a signal or a failed start is an excuse.   *)
(***************************************************************************)
EXTENDS Traceroute

\* The token a reader takes for probe j: its own, or for a bare time the last
\* one before it that is not a bare time.
TokenRead(j) ==
  IF line[j].kind # "time" THEN line[j]
  ELSE IF line[j - 1].kind # "time" THEN line[j - 1] ELSE line[j - 2]

hopRead ==
  IF pc \in InHop \cup {"segv"} THEN ttl ELSE IF ttl = 0 THEN 0 ELSE ttl - 1
shownRead ==
  IF pc \in {"send", "recv"} THEN 0 ELSE IF pc \in {"print", "segv"} THEN index ELSE PROBENB
resultsRead ==
  [j \in Probes |-> IF TokenRead(j).kind = "route" THEN {TokenRead(j).ip} ELSE {}]
\* In ICMP mode an echo reply from anyone may end the trace.
excuseRead == icmp_route \/ interrupted \/ pc \in {"exit1", "killed"}
statusRead == IF pc \in Ended THEN "ended" ELSE "tracing"

RT == INSTANCE RouteTrace WITH
        hop <- hopRead, shown <- shownRead, results <- resultsRead,
        excuse <- excuseRead, status <- statusRead

\* The program keeps the promise of RouteTrace: its abbreviated lines are one
\* line of three results per hop, none follows the one with the destination,
\* and without an excuse none is missing before it.
ImplementsRouteTrace == RT!Spec
=============================================================================
