--------------------------- MODULE TracerouteNet ---------------------------
(***************************************************************************)
(* Traceroute on a network: a path of routers to the destination, each of  *)
(* which answers the probe whose ttl ends at it, and time.  Answers travel *)
(* for up to MAXDELAY ticks or are lost; recvfrom waits TIMEOUT ticks if   *)
(* create_socket could set SO_RCVTIMEO.  The host gets no other ICMP       *)
(* packets.  Every step of the program is a step of Traceroute.            *)
(***************************************************************************)
EXTENDS Traceroute

CONSTANTS
  Paths,    \* the sequences of addresses a probe may pass
  TIMEOUT,  \* SO_RCVTIMEO, in ticks
  MAXDELAY  \* the longest time from a probe to its answer, in ticks

ASSUME PathsAssumption ==
  \A p \in Paths : /\ p \in Seq(Addrs) /\ p # <<>>
                   /\ \A i \in 1..Len(p) : p[i] = Dest <=> i = Len(p)
ASSUME TimeAssumption == TIMEOUT \in Nat /\ MAXDELAY \in Nat

ICMP_DEST_UNREACH == 3
ICMP_TIME_EXCEEDED == 11

\* Answers name the probe they quote: its hop and its index.
ASSUME AnswersAssumption ==
  [saddr : Addrs, type : {ICMP_ECHOREPLY, ICMP_DEST_UNREACH, ICMP_TIME_EXCEEDED},
   hop : 1..MAX_HOPS, probe : Probes] \subseteq Msgs

VARIABLES
  path,    \* the way to the destination
  flight,  \* answers under way, with the ticks since their probe was sent
  timed,   \* setsockopt set SO_RCVTIMEO; its result is not tested
  timer,   \* ticks recvfrom has waited
  woken    \* a signal interrupts this wait

netVars == <<path, flight, timed, timer, woken>>
allVars == <<vars, netVars>>

NetInit ==
  /\ Init /\ path \in Paths /\ flight = {}
  /\ timed = FALSE /\ timer = 0 /\ woken = FALSE

\* The node a probe with ttl t ends at, and what it answers to probe j.
NodeAt(t) == path[IF t < Len(path) THEN t ELSE Len(path)]

Answer(pkt, j) ==
  [saddr |-> NodeAt(pkt.ttl),
   type |-> IF pkt.ttl < Len(path) THEN ICMP_TIME_EXCEEDED
            ELSE IF icmp_route THEN ICMP_ECHOREPLY ELSE ICMP_DEST_UNREACH,
   hop |-> ttl, probe |-> j]

-----------------------------------------------------------------------------
(* The program *)

create_socket ==
  /\ init_data /\ timed' \in BOOLEAN
  /\ UNCHANGED <<path, flight, timer, woken>>

\* The wait begins anew after every probe.
send_probe ==
  /\ send_packet /\ timer' = 0 /\ woken' = FALSE
  /\ flight' = IF sent'[index] = NULL THEN flight
               ELSE flight \cup {[msg |-> Answer(sent'[index].pkt, index), age |-> 0]}
  /\ UNCHANGED <<path, timed>>

\* Mutated: a wait one tick short, and no time-out at all.
TimedOut_short == timed /\ timer >= TIMEOUT - 1
TimedOut_never == FALSE

TimedOut == timed /\ timer = TIMEOUT

\* recvfrom fails with EAGAIN or EINTR: a signal is not followed by a restart
\* of the call when SO_RCVTIMEO is set, and may not be when it is not.
give_up == recieve_nothing /\ (TimedOut \/ woken) /\ UNCHANGED netVars

other_steps ==
  /\ \/ set_signals \/ start \/ construct_packets \/ begin_hop
     \/ recieve_packet \/ print_star \/ print_route \/ end_hop \/ finish
  /\ UNCHANGED netVars

NetProgram == create_socket \/ send_probe \/ give_up \/ other_steps

-----------------------------------------------------------------------------
(* The environment *)

\* A signal in recv comes within recvfrom or just before the call.
signal ==
  /\ kill_program \/ default_signal
  /\ woken' \in IF pc = "recv" THEN {woken, TRUE} ELSE {woken}
  /\ UNCHANGED <<path, flight, timed, timer>>

deliver(a) ==
  /\ arrive(a.msg) /\ flight' = flight \ {a}
  /\ UNCHANGED <<path, timed, timer, woken>>

\* By a router that does not answer, the network, or a full receive queue.
lose(a) ==
  /\ flight' = flight \ {a}
  /\ UNCHANGED <<vars, path, timed, timer, woken>>

\* Time passes, no further than the network's promise.
tick ==
  /\ pc \notin Ended /\ \A a \in flight : a.age < MAXDELAY
  /\ flight' = {[a EXCEPT !.age = @ + 1] : a \in flight}
  /\ timer' = IF pc = "recv" /\ timer < TIMEOUT THEN timer + 1 ELSE timer
  /\ UNCHANGED <<vars, path, timed, woken>>

travel == \E a \in flight : deliver(a) \/ lose(a)

net_ended == ended /\ UNCHANGED netVars

NetNext == NetProgram \/ signal \/ travel \/ tick \/ net_ended

NetSpec == NetInit /\ [][NetNext]_allVars

\* The process is scheduled, time passes, and the network keeps its promise.
\* Here a wait ends because its time is up, not by assumption.
FairNetSpec ==
  NetSpec /\ WF_allVars(NetProgram) /\ WF_allVars(tick) /\ WF_allVars(travel)

-----------------------------------------------------------------------------
(* Properties *)

\* Nothing in a packet is compared with the probe; yet every reply kept answers
\* the probe it is printed for, as long as no signal cut a wait short.
AnswersOwnProbe ==
  pc \in InHop /\ ~interrupted =>
    \A j \in Probes : recieved[j] => retpack[j].hop = ttl /\ retpack[j].probe = j

\* The hop line names the node of the path the probes ended at, and none else.
RouteIsPath ==
  pc \in {"print", "free"} /\ ~interrupted => Shown \subseteq {NodeAt(ttl)}

\* Once SO_RCVTIMEO is set the process ends, though every answer may be lost.
TimedTermination == timed ~> pc \in Ended
=============================================================================
