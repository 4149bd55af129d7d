----------------------------- MODULE RouteTrace -----------------------------
(***************************************************************************)
(* What a trace promises whoever reads its output: one line per hop, hops  *)
(* numbered from 1, three results a line in the order of the probes, each  *)
(* an address or nothing; no line after one that shows the destination;    *)
(* and no end before that or MAX_HOPS unless there is an excuse.           *)
(***************************************************************************)
EXTENDS Integers

CONSTANTS MAX_HOPS, PROBENB, Addrs, Dest

VARIABLES
  hop,      \* the number of the current line, 0 before the first
  shown,    \* how many results of the line have been printed
  results,  \* results[j]: the address shown for probe j, as a set of at most one
  excuse,   \* something allows the trace to end early
  status    \* "tracing" or "ended"

vars == <<hop, shown, results, excuse, status>>

Nothing == [j \in 0..PROBENB-1 |-> {}]
Results == {{}} \cup {{a} : a \in Addrs}

Arrived == \E j \in 0..PROBENB-1 : Dest \in results[j]

Init ==
  /\ hop = 0 /\ shown = PROBENB /\ results = Nothing
  /\ excuse \in BOOLEAN /\ status = "tracing"

OpenHop ==
  /\ status = "tracing" /\ shown = PROBENB
  /\ ~Arrived /\ hop < MAX_HOPS
  /\ hop' = hop + 1 /\ shown' = 0 /\ results' = Nothing
  /\ UNCHANGED <<excuse, status>>

Show(res) ==
  /\ status = "tracing" /\ shown < PROBENB
  /\ results' = [results EXCEPT ![shown] = res]
  /\ shown' = shown + 1
  /\ UNCHANGED <<hop, excuse, status>>

Excuse ==
  /\ status = "tracing" /\ excuse' = TRUE
  /\ UNCHANGED <<hop, shown, results, status>>

\* Only between lines.
End ==
  /\ status = "tracing" /\ shown = PROBENB
  /\ status' = "ended" /\ excuse' \in {excuse, TRUE}
  /\ Arrived \/ hop = MAX_HOPS \/ excuse'
  /\ UNCHANGED <<hop, shown, results>>

Next == OpenHop \/ (\E res \in Results : Show(res)) \/ Excuse \/ End

Spec == Init /\ [][Next]_vars
=============================================================================
