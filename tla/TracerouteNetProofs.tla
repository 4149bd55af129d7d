------------------------ MODULE TracerouteNetProofs ------------------------
(***************************************************************************)
(* Proofs about TracerouteNet: it implements Traceroute, and where every   *)
(* answer takes less than a time-out, for every path, every MAX_HOPS up to *)
(* 255 and every time-out, answers are printed for their own probes and    *)
(* the trace stops at the destination in both modes.                       *)
(***************************************************************************)
EXTENDS TracerouteNet, TracerouteProofs

\* What the network answers to probe j of hop t.
IsAnswer(m, t, j) ==
  /\ m \in Msgs /\ m.hop = t /\ m.probe = j /\ m.saddr = NodeAt(t)
  /\ m.type = ICMP_ECHOREPLY => NodeAt(t) = Dest

NetTypes ==
  /\ path \in Paths /\ timer \in Nat
  /\ flight \subseteq [msg : Msgs, age : 0..MAXDELAY]

\* Nothing is under way but the answer to the probe main() waits for, and it is
\* at least as old as the wait.
Transit ==
  /\ pc = "recv" /\ woken => interrupted
  /\ pc \in {"parsed", "signals", "head", "construct"} => flight = {} /\ rcvq = <<>>
  /\ ~interrupted /\ pc \in {"send", "print", "free", "loop"} => flight = {} /\ rcvq = <<>>
  /\ ~interrupted /\ pc = "recv" =>
       /\ \A a \in flight : IsAnswer(a.msg, ttl, index) /\ timer <= a.age
       /\ \A a, b \in flight : a = b
       /\ rcvq # <<>> => /\ flight = {} /\ Tail(rcvq) = <<>>
                         /\ IsAnswer(Head(rcvq), ttl, index)

Replied ==
  /\ pc \in {"send", "recv"} => \A j \in Probes : j >= index => ~recieved[j]
  /\ ~interrupted /\ pc \in InHop =>
       \A j \in Probes : recieved[j] => IsAnswer(retpack[j], ttl, j)

\* The trace stops only because the destination answered, and then shows it.
Arrived ==
  /\ ~interrupted /\ pc = "construct" => alive
  /\ ~interrupted /\ pc \in InHop /\ ~alive =>
       \E j \in Probes : recieved[j] /\ retpack[j].saddr = Dest
  /\ ~interrupted /\ pc = "loop" /\ ~alive => SeenDest
  /\ ~interrupted /\ pc = "done" /\ ttl <= MAX_HOPS => SeenDest

NetInv == NetTypes /\ Transit /\ Replied /\ Arrived

USE DEF PROBENB, Probes, UDP_PORT_D, UDP_PORT_S, ICMP_ECHOREPLY,
        ICMP_DEST_UNREACH, ICMP_TIME_EXCEEDED

-----------------------------------------------------------------------------
(* Every step of the network model is a step of the program's *)

LEMMA StepNet == NetTypes /\ [NetNext]_allVars => [Next]_vars
<1> SUFFICES ASSUME NetTypes, [NetNext]_allVars PROVE [Next]_vars
  OBVIOUS
<1>1. CASE NetProgram
  BY <1>1 DEF NetProgram, create_socket, send_probe, give_up, other_steps, Next, Program
<1>2. CASE signal
  BY <1>2 DEF signal, Next, Environment
<1>3. CASE travel
  <2>1. PICK a \in flight : deliver(a) \/ lose(a)
    BY <1>3 DEF travel
  <2>2. a.msg \in Msgs
    BY DEF NetTypes
  <2> QED
    BY <2>1, <2>2 DEF deliver, lose, Next, Environment
<1>4. CASE tick \/ net_ended
  BY <1>4 DEF tick, net_ended, Next
<1>5. CASE UNCHANGED allVars
  BY <1>5 DEF allVars
<1> QED
  BY <1>1, <1>2, <1>3, <1>4, <1>5 DEF NetNext

\* The node a probe ends at is on the path, and its echo reply is the destination's.
LEMMA AnswerOfProbe ==
  ASSUME path \in Paths, IndA, IndA', send_packet, sent'[index] # NULL
  PROVE  IsAnswer(Answer(sent'[index].pkt, index), ttl, index)
<1>1. index \in Probes /\ index' = index /\ ttl' = ttl /\ pc' = "recv" /\ pc = "send"
  BY DEF send_packet, IndA, TypeOK
<1>2. ttl \in 1..MAX_HOPS /\ ttl \in Nat
  BY <1>1, HopsAssumption DEF IndA, HopRange, InHop
<1>3. sent'[index].pkt.ttl = ttl
  <2>1. sent'[index].pkt = ProbeOf(index, ttl)'
    BY <1>1 DEF IndA, PacketInv, InHop, ProbeOf
  <2> QED
    BY <2>1, <1>1 DEF ProbeOf
<1> DEFINE last == Len(path)
<1>4. last \in Nat \ {0} /\ path[last] = Dest /\ \A i \in 1..last : path[i] \in Addrs
  BY PathsAssumption
<1>5. NodeAt(ttl) \in Addrs /\ (~(ttl < last) => NodeAt(ttl) = Dest)
  BY <1>2, <1>4 DEF NodeAt
<1> DEFINE m == Answer(sent'[index].pkt, index)
<1>6. /\ m.saddr = NodeAt(ttl) /\ m.hop = ttl /\ m.probe = index
      /\ m.type \in {0, 3, 11} /\ (m.type = 0 => ~(ttl < last))
  BY <1>3 DEF Answer
<1>7. m \in Msgs
  <2>1. m \in [saddr : Addrs, type : {0, 3, 11}, hop : 1..MAX_HOPS, probe : 0..2]
    BY <1>1, <1>2, <1>3, <1>5 DEF Answer
  <2> QED
    BY <2>1, AnswersAssumption
<1> QED
  BY <1>5, <1>6, <1>7 DEF IsAnswer

LEMMA InitTypes == NetInit => NetTypes
BY DEF NetInit, NetTypes

LEMMA StepTypes == IndA /\ IndA' /\ NetTypes /\ [NetNext]_allVars => NetTypes'
<1> SUFFICES ASSUME IndA, IndA', NetTypes, [NetNext]_allVars PROVE NetTypes'
  OBVIOUS
<1>1. CASE send_probe
  <2>1. path' = path /\ timer' = 0 /\ send_packet
    BY <1>1 DEF send_probe
  <2>2. flight' \subseteq [msg : Msgs, age : 0..MAXDELAY]
    <3>1. CASE sent'[index] = NULL
      BY <1>1, <3>1 DEF send_probe, NetTypes
    <3>2. CASE sent'[index] # NULL
      <4> DEFINE m == Answer(sent'[index].pkt, index)
      <4>1. m \in Msgs
        BY <2>1, <3>2, AnswerOfProbe DEF NetTypes, IsAnswer
      <4>2. flight' = flight \cup {[msg |-> m, age |-> 0]}
        BY <1>1, <3>2 DEF send_probe
      <4> HIDE DEF m
      <4>3. [msg |-> m, age |-> 0] \in [msg : Msgs, age : 0..MAXDELAY]
        BY <4>1, TimeAssumption
      <4> QED
        BY <4>2, <4>3 DEF NetTypes
    <3> QED
      BY <3>1, <3>2
  <2> QED
    BY <2>1, <2>2 DEF NetTypes
<1>2. CASE tick
  <2>1. \A a \in flight : [a EXCEPT !.age = @ + 1] \in [msg : Msgs, age : 0..MAXDELAY]
    BY <1>2, TimeAssumption DEF tick, NetTypes
  <2> QED
    BY <1>2, <2>1 DEF tick, NetTypes
<1>3. CASE create_socket \/ give_up \/ other_steps \/ net_ended \/ signal \/ UNCHANGED allVars
  BY <1>3 DEF create_socket, give_up, other_steps, net_ended, signal, allVars, netVars, NetTypes
<1>4. CASE travel
  BY <1>4 DEF travel, deliver, lose, NetTypes
<1> QED
  BY <1>1, <1>2, <1>3, <1>4 DEF NetNext, NetProgram

LEMMA InvTypes == NetSpec => [](IndC /\ NetTypes)
<1>1. NetInit => IndC /\ NetTypes
  BY InitA, InitB, InitC, InitTypes DEF NetInit, IndC
<1>2. IndC /\ NetTypes /\ [NetNext]_allVars => (IndC /\ NetTypes)'
  <2> SUFFICES ASSUME IndC, NetTypes, [NetNext]_allVars PROVE (IndC /\ NetTypes)'
    OBVIOUS
  <2>1. IndC'
    BY StepNet, StepA, StepB, StepC DEF IndC
  <2> QED
    BY <2>1, StepTypes DEF IndC
<1> QED
  BY <1>1, <1>2, PTL DEF NetSpec

\* The program on a network is the program of Traceroute: delays, losses and the
\* time-outs of recvfrom only restrict when its steps happen, so what is proved
\* of Traceroute holds here.
THEOREM NetRefinesProgram == NetSpec => Spec
<1>1. NetInit => Init
  BY DEF NetInit
<1> QED
  BY <1>1, StepNet, InvTypes, PTL DEF NetSpec, Spec

-----------------------------------------------------------------------------
(* Nothing late is under way *)

\* The queue after its first packet.
LEMMA FirstPacket ==
  ASSUME NEW m \in Msgs, NEW q \in Seq(Msgs), q = <<>>
  PROVE  Head(Append(q, m)) = m /\ Tail(Append(q, m)) = <<>>
<1>1. Append(q, m) \in Seq(Msgs) /\ Len(Append(q, m)) = 1 /\ Append(q, m)[1] = m
  OBVIOUS
<1>2. Tail(Append(q, m)) \in Seq(Msgs) /\ Len(Tail(Append(q, m))) = 0
  BY <1>1
<1> QED
  BY <1>1, <1>2

LEMMA StepTransit ==
  ASSUME MAXDELAY < TIMEOUT, IndA, IndA', NetTypes, Transit, [NetNext]_allVars
  PROVE  Transit'
<1>t. timer \in Nat /\ \A a \in flight : a.msg \in Msgs /\ a.age \in 0..MAXDELAY
  BY DEF NetTypes
<1>1. CASE create_socket
  BY <1>1 DEF create_socket, init_data, Transit
<1>2. CASE send_probe
  <2>1. /\ pc' = "recv" /\ pc = "send" /\ UNCHANGED <<index, ttl, rcvq, interrupted, path>>
        /\ timer' = 0 /\ woken' = FALSE
    BY <1>2 DEF send_probe, send_packet
  <2>2. SUFFICES ASSUME ~interrupted
                 PROVE  /\ \A a \in flight' : IsAnswer(a.msg, ttl, index)' /\ 0 <= a.age
                        /\ \A a, b \in flight' : a = b
    BY <2>1 DEF Transit
  <2>3. flight = {}
    BY <2>1, <2>2 DEF Transit
  <2>4. CASE sent'[index] = NULL
    BY <1>2, <2>3, <2>4 DEF send_probe
  <2>5. CASE sent'[index] # NULL
    <3> DEFINE m == Answer(sent'[index].pkt, index)
    <3>1. IsAnswer(m, ttl, index)
      BY <1>2, <2>5, AnswerOfProbe DEF send_probe, NetTypes
    <3>2. flight' = {[msg |-> m, age |-> 0]}
      BY <1>2, <2>3, <2>5 DEF send_probe
    <3> HIDE DEF m
    <3>3. \A a \in flight' : a.msg = m /\ a.age = 0
      BY <3>2
    <3>4. \A a \in flight' : IsAnswer(a.msg, ttl, index)'
      BY <3>1, <3>3, <2>1 DEF IsAnswer, NodeAt
    <3> QED
      BY <3>2, <3>3, <3>4
  <2> QED
    BY <2>4, <2>5
<1>3. CASE give_up
  <2>1. /\ pc = "recv" /\ pc' \in {"send", "print"} /\ rcvq = <<>>
        /\ UNCHANGED <<rcvq, flight, interrupted>> /\ (timer = TIMEOUT \/ woken)
    BY <1>3 DEF give_up, recieve_nothing, NextProbe, TimedOut, netVars
  <2>2. ASSUME ~interrupted PROVE flight = {}
    <3>1. timer = TIMEOUT
      BY <2>1, <2>2 DEF Transit
    <3>2. ASSUME NEW a \in flight PROVE FALSE
      <4>1. timer <= a.age /\ a.age <= MAXDELAY /\ a.age \in Nat
        BY <2>1, <2>2, <3>2, <1>t, TimeAssumption DEF Transit
      <4> QED
        BY <3>1, <4>1, TimeAssumption
    <3> QED
      BY <3>2
  <2> QED
    BY <2>1, <2>2 DEF Transit
<1>4. CASE other_steps
  <2>1. UNCHANGED <<path, flight, timer, woken>>
    BY <1>4 DEF other_steps, netVars
  <2>2. CASE recieve_packet
    BY <2>1, <2>2 DEF recieve_packet, NextProbe, Transit
  <2>3. CASE set_signals \/ start \/ construct_packets \/ begin_hop \/ end_hop \/ finish
    BY <2>1, <2>3 DEF set_signals, start, construct_packets, begin_hop, end_hop, finish, Transit
  <2>4. CASE print_star \/ print_route
    <3>1. /\ pc = "print" /\ pc' \in {"print", "free", "segv"}
          /\ UNCHANGED <<rcvq, interrupted>>
      BY <2>4 DEF print_star, print_route, NextProbe
    <3> QED
      BY <2>1, <3>1 DEF Transit
  <2> QED
    BY <1>4, <2>2, <2>3, <2>4 DEF other_steps
<1>5. CASE signal
  <2>1. CASE kill_program
    <3>1. /\ UNCHANGED <<pc, index, ttl, rcvq, path, flight, timer>>
          /\ (interrupted' <=> interrupted \/ pc \in Running)
          /\ woken' \in IF pc = "recv" THEN {woken, TRUE} ELSE {woken}
      BY <1>5, <2>1 DEF signal, kill_program, prog
    <3> QED
      BY <3>1 DEF Transit, Running
  <2>2. CASE default_signal
    BY <1>5, <2>2 DEF signal, default_signal, Transit
  <2> QED
    BY <1>5, <2>1, <2>2 DEF signal
<1>6. ASSUME NEW a \in flight, deliver(a) PROVE Transit'
  <2>1. /\ UNCHANGED <<pc, index, ttl, interrupted, path, timer, woken>>
        /\ rcvq' = Append(rcvq, a.msg) /\ flight' = flight \ {a}
        /\ pc \in Running \cup {"head"}
    BY <1>6 DEF deliver, arrive, prog
  <2>2. pc \in {"send", "recv", "print", "free", "loop"} /\ (~interrupted => pc = "recv")
    BY <1>6, <2>1 DEF Transit, Running
  <2>3. ASSUME ~interrupted
        PROVE  flight' = {} /\ rcvq = <<>> /\ IsAnswer(a.msg, ttl, index)
    BY <1>6, <2>1, <2>2, <2>3 DEF Transit
  <2>4. ASSUME ~interrupted
        PROVE  flight' = {} /\ Tail(rcvq') = <<>> /\ IsAnswer(Head(rcvq), ttl, index)'
    <3>1. rcvq \in Seq(Msgs) /\ a.msg \in Msgs
      BY <1>t DEF IndA, TypeOK
    <3>2. Head(rcvq') = a.msg /\ Tail(rcvq') = <<>>
      BY <2>1, <2>3, <2>4, <3>1, FirstPacket
    <3> QED
      BY <2>1, <2>3, <2>4, <3>2 DEF IsAnswer, NodeAt
  <2> QED
    BY <2>1, <2>2, <2>4 DEF Transit
<1>7. ASSUME NEW a \in flight, lose(a) PROVE Transit'
  <2>1. /\ UNCHANGED <<pc, index, ttl, rcvq, interrupted, path, timer, woken>>
        /\ flight' = flight \ {a}
    BY <1>7 DEF lose, vars, prog
  <2> QED
    BY <2>1 DEF Transit, IsAnswer, NodeAt
<1>8. CASE tick
  <2>1. /\ UNCHANGED <<pc, index, ttl, rcvq, interrupted, path, woken>>
        /\ timer' <= timer + 1 /\ timer' \in Nat
    BY <1>8, <1>t DEF tick, vars, prog
  <2>2. \A b \in flight' : \E a \in flight : b.msg = a.msg /\ b.age = a.age + 1
                                            /\ b = [a EXCEPT !.age = a.age + 1]
    BY <1>8 DEF tick, NetTypes
  <2>3. flight = {} => flight' = {}
    BY <1>8 DEF tick
  <2>4. ASSUME ~interrupted, pc = "recv"
        PROVE  /\ \A b \in flight' : IsAnswer(b.msg, ttl, index)' /\ timer' <= b.age
               /\ \A b, c \in flight' : b = c
    <3>1. ASSUME NEW b \in flight'
          PROVE  IsAnswer(b.msg, ttl, index)' /\ timer' <= b.age
      <4>1. PICK a \in flight : b.msg = a.msg /\ b.age = a.age + 1
        BY <2>2
      <4>2. IsAnswer(a.msg, ttl, index) /\ timer <= a.age /\ a.age \in Nat
        BY <2>4, <1>t, TimeAssumption DEF Transit
      <4> QED
        BY <4>1, <4>2, <2>1, <1>t DEF IsAnswer, NodeAt
    <3>2. \A b, c \in flight' : b = c
      BY <2>2, <2>4 DEF Transit
    <3> QED
      BY <3>1, <3>2
  <2>5. pc = "recv" /\ ~interrupted /\ rcvq # <<>> =>
          flight' = {} /\ Tail(rcvq') = <<>> /\ IsAnswer(Head(rcvq), ttl, index)'
    BY <2>1, <2>3 DEF Transit, IsAnswer, NodeAt
  <2> QED
    BY <2>1, <2>3, <2>4, <2>5 DEF Transit
<1>9. CASE net_ended \/ UNCHANGED allVars
  BY <1>9 DEF net_ended, ended, allVars, netVars, vars, prog, Transit, IsAnswer, NodeAt
<1> QED
  BY <1>1, <1>2, <1>3, <1>4, <1>5, <1>6, <1>7, <1>8, <1>9 DEF NetNext, NetProgram, travel

-----------------------------------------------------------------------------
(* Each reply answers the probe it was kept for *)

LEMMA StepReplied ==
  ASSUME IndA, NetTypes, Transit, Replied, [NetNext]_allVars
  PROVE  Replied'
<1>t. /\ index \in Probes /\ recieved \in [Probes -> BOOLEAN]
      /\ retpack \in [Probes -> Msgs \cup {NULL}]
  BY DEF IndA, TypeOK
<1>1. CASE create_socket \/ send_probe
  BY <1>1 DEF create_socket, send_probe, init_data, send_packet, replies, Replied, IsAnswer, NodeAt, InHop
<1>2. CASE give_up
  <2>1. /\ pc = "recv" /\ UNCHANGED <<ttl, interrupted, path>>
        /\ pc' \in {"send", "print"} /\ (pc' = "send" => index' = index + 1)
        /\ recieved' = [recieved EXCEPT ![index] = FALSE]
        /\ retpack' = [retpack EXCEPT ![index] = NULL]
    BY <1>2 DEF give_up, recieve_nothing, NextProbe, netVars
  <2>2. \A j \in Probes : recieved'[j] => recieved[j] /\ retpack'[j] = retpack[j]
    BY <2>1, <1>t
  <2>3. ASSUME pc' = "send", NEW j \in Probes, j >= index' PROVE ~recieved'[j]
    BY <2>1, <2>2, <2>3, <1>t DEF Replied
  <2> QED
    BY <2>1, <2>2, <2>3 DEF Replied, IsAnswer, NodeAt, InHop
<1>3. CASE other_steps
  <2>1. path' = path
    BY <1>3 DEF other_steps, netVars
  <2>2. CASE recieve_packet
    <3> DEFINE m == Head(rcvq)
    <3>1. /\ pc = "recv" /\ rcvq # <<>> /\ UNCHANGED <<ttl, interrupted>>
          /\ pc' \in {"send", "print"} /\ (pc' = "send" => index' = index + 1)
          /\ recieved' = [recieved EXCEPT ![index] = TRUE]
          /\ retpack' = [retpack EXCEPT ![index] = m]
      BY <2>2 DEF recieve_packet, NextProbe
    <3>2. ~interrupted => IsAnswer(m, ttl, index)
      BY <3>1 DEF Transit
    <3> HIDE DEF m
    <3>3. /\ retpack'[index] = m
          /\ \A j \in Probes : j # index => recieved'[j] = recieved[j] /\ retpack'[j] = retpack[j]
      BY <3>1, <1>t
    <3>4. ASSUME pc' = "send", NEW j \in Probes, j >= index' PROVE ~recieved'[j]
      BY <3>1, <3>3, <3>4, <1>t DEF Replied
    <3>5. ASSUME ~interrupted, NEW j \in Probes, recieved'[j]
          PROVE  IsAnswer(retpack[j], ttl, j)'
      <4>1. IsAnswer(retpack'[j], ttl, j)
        BY <3>1, <3>2, <3>3, <3>5 DEF Replied, InHop
      <4> QED
        BY <4>1, <2>1, <3>1 DEF IsAnswer, NodeAt
    <3> QED
      BY <3>1, <3>4, <3>5 DEF Replied
  <2>3. CASE begin_hop
    BY <2>3 DEF begin_hop, Replied
  <2>4. CASE set_signals \/ start \/ construct_packets \/ end_hop \/ finish
    BY <2>4 DEF set_signals, start, construct_packets, end_hop, finish, Replied, InHop
  <2>5. CASE print_star \/ print_route
    <3>1. /\ pc = "print" /\ pc' \in {"print", "free", "segv"}
          /\ UNCHANGED <<ttl, interrupted, retpack, recieved>>
      BY <2>5 DEF print_star, print_route, NextProbe, replies
    <3> QED
      BY <2>1, <3>1 DEF Replied, IsAnswer, NodeAt, InHop
  <2> QED
    BY <1>3, <2>2, <2>3, <2>4, <2>5 DEF other_steps
<1>4. CASE signal
  BY <1>4 DEF signal, kill_program, default_signal, prog, replies, Replied, IsAnswer, NodeAt, InHop
<1>5. CASE travel \/ tick \/ net_ended \/ UNCHANGED allVars
  <2>1. UNCHANGED <<pc, index, ttl, interrupted, path, retpack, recieved>>
    BY <1>5 DEF travel, deliver, arrive, lose, tick, net_ended, ended, allVars, netVars, vars, prog, replies
  <2> QED
    BY <2>1 DEF Replied, IsAnswer, NodeAt
<1> QED
  BY <1>1, <1>2, <1>3, <1>4, <1>5 DEF NetNext, NetProgram

-----------------------------------------------------------------------------
(* The trace stops at the destination *)

LEMMA StepArrived ==
  ASSUME IndC, NetTypes, Transit, Replied, Arrived, [NetNext]_allVars
  PROVE  Arrived'
<1>t. /\ index \in Probes /\ recieved \in [Probes -> BOOLEAN] /\ alive \in BOOLEAN
      /\ retpack \in [Probes -> Msgs \cup {NULL}]
  BY DEF IndC, IndA, TypeOK
<1>1. CASE create_socket \/ send_probe
  BY <1>1 DEF create_socket, send_probe, init_data, send_packet, replies, Arrived, InHop
<1>2. CASE give_up
  <2>1. /\ pc = "recv" /\ UNCHANGED <<alive, interrupted>> /\ pc' \in {"send", "print"}
        /\ \A j \in Probes : j # index => recieved'[j] = recieved[j] /\ retpack'[j] = retpack[j]
    BY <1>2, <1>t DEF give_up, recieve_nothing, NextProbe
  <2>2. ASSUME ~interrupted, ~alive
        PROVE  \E j \in Probes : recieved'[j] /\ retpack'[j].saddr = Dest
    <3>1. PICK j \in Probes : recieved[j] /\ retpack[j].saddr = Dest
      BY <2>1, <2>2 DEF Arrived, InHop
    <3>2. j # index
      BY <2>1, <3>1, <1>t DEF Replied
    <3> QED
      BY <2>1, <3>1, <3>2
  <2> QED
    BY <2>1, <2>2 DEF Arrived
<1>3. CASE recieve_packet
  <2> DEFINE m == Head(rcvq)
  <2>1. /\ pc = "recv" /\ rcvq # <<>> /\ UNCHANGED interrupted
        /\ pc' \in {"send", "print"} /\ alive' = StillAlive(m)
        /\ retpack' = [retpack EXCEPT ![index] = m]
        /\ recieved' = [recieved EXCEPT ![index] = TRUE]
    BY <1>3 DEF recieve_packet, NextProbe
  <2>2. ~interrupted => IsAnswer(m, ttl, index)
    BY <2>1 DEF Transit
  <2> HIDE DEF m
  <2>3. /\ retpack'[index] = m /\ recieved'[index]
        /\ \A j \in Probes : j # index => recieved'[j] = recieved[j] /\ retpack'[j] = retpack[j]
    BY <2>1, <1>t
  <2>4. ASSUME ~interrupted, ~alive'
        PROVE  \E j \in Probes : recieved'[j] /\ retpack'[j].saddr = Dest
    <3>1. CASE ~alive
      <4>1. PICK j \in Probes : recieved[j] /\ retpack[j].saddr = Dest
        BY <2>1, <2>4, <3>1 DEF Arrived, InHop
      <4>2. j # index
        BY <2>1, <4>1, <1>t DEF Replied
      <4> QED
        BY <2>3, <4>1, <4>2
    <3>2. CASE alive
      <4>1. m.type = 0
        BY <2>1, <2>4, <3>2 DEF StillAlive
      <4>2. m.saddr = Dest
        BY <2>2, <2>4, <4>1 DEF IsAnswer
      <4> QED
        BY <2>3, <4>2, <1>t
    <3> QED
      BY <3>1, <3>2
  <2> QED
    BY <2>1, <2>4 DEF Arrived
<1>4. CASE print_route
  <2> DEFINE ip == retpack[index].saddr
  <2>1. pc = "print" /\ recieved[index] /\ ~Faults
    BY <1>4, NoFault DEF print_route, IndC
  <2>2. pc' \in {"print", "free"} /\ UNCHANGED <<interrupted, retpack, recieved>>
    BY <1>4, <2>1 DEF print_route, NextProbe, replies
  <2>3. alive' = alive \/ alive' = (alive /\ ip # Dest)
    BY <1>4, <2>1, SameAddress DEF print_same, print_new, IndC, IndA
  <2>4. ASSUME ~interrupted, ~alive'
        PROVE  \E j \in Probes : recieved[j] /\ retpack[j].saddr = Dest
    BY <2>1, <2>3, <2>4, <1>t DEF Arrived, InHop
  <2> QED
    BY <2>2, <2>4 DEF Arrived
<1>5. CASE print_star
  BY <1>5 DEF print_star, NextProbe, replies, Arrived, InHop
<1>6. CASE end_hop
  <2>1. ASSUME ~interrupted, ~alive PROVE SeenDest
    <3>1. PICK j \in Probes : recieved[j] /\ retpack[j].saddr = Dest
      BY <1>6, <2>1 DEF end_hop, Arrived, InHop
    <3>2. ReadsAs(j, Dest)
      BY <1>6, <3>1 DEF end_hop, IndC, LineInv, TokenOK
    <3> QED
      BY <3>2 DEF ReadsAs, SeenDest
  <2> QED
    BY <1>6, <2>1 DEF end_hop, Arrived, SeenDest, InHop
<1>7. CASE finish
  BY <1>7 DEF finish, LoopTest, Arrived, SeenDest, InHop
<1>8. CASE set_signals \/ start \/ begin_hop
  BY <1>8 DEF set_signals, start, begin_hop, LoopTest, Arrived, InHop
<1>9. CASE construct_packets
  BY <1>9 DEF construct_packets, Arrived, InHop
<1>10. CASE signal
  BY <1>10 DEF signal, kill_program, default_signal, prog, replies, Arrived, SeenDest, InHop, Running, Ended
<1>11. CASE travel \/ tick \/ net_ended \/ UNCHANGED allVars
  <2>1. UNCHANGED <<pc, ttl, alive, interrupted, line, retpack, recieved>>
    BY <1>11 DEF travel, deliver, arrive, lose, tick, net_ended, ended, allVars, netVars, vars, prog, replies
  <2> QED
    BY <2>1 DEF Arrived, SeenDest
<1> QED
  BY <1>1, <1>2, <1>3, <1>4, <1>5, <1>6, <1>7, <1>8, <1>9, <1>10, <1>11
     DEF NetNext, NetProgram, other_steps

-----------------------------------------------------------------------------
(* Theorems *)

LEMMA InvNet ==
  ASSUME MAXDELAY < TIMEOUT
  PROVE  NetSpec => [](IndC /\ NetInv)
<1>1. NetInit => IndC /\ NetInv
  BY InitA, InitB, InitC, InitTypes
     DEF NetInit, Init, IndC, NetInv, Transit, Replied, Arrived, InHop
<1>2. IndC /\ NetInv /\ [NetNext]_allVars => (IndC /\ NetInv)'
  <2> SUFFICES ASSUME IndC, NetInv, [NetNext]_allVars PROVE IndC' /\ NetInv'
    OBVIOUS
  <2>1. IndC'
    BY StepNet, StepA, StepB, StepC DEF IndC, NetInv
  <2>2. NetTypes' /\ Transit'
    BY <2>1, StepTypes, StepTransit DEF IndC, NetInv
  <2>3. Replied' /\ Arrived'
    BY StepReplied, StepArrived DEF IndC, NetInv
  <2> QED
    BY <2>1, <2>2, <2>3 DEF NetInv
<1> QED
  BY <1>1, <1>2, PTL DEF NetSpec

\* Where every answer takes less than a time-out, a reply is printed for the
\* probe it answers although recieve_packet compares nothing.
THEOREM AnswersOwnProbeCorrect ==
  ASSUME MAXDELAY < TIMEOUT
  PROVE  NetSpec => []AnswersOwnProbe
<1>1. NetInv => AnswersOwnProbe
  BY DEF NetInv, Replied, IsAnswer, AnswersOwnProbe
<1> QED
  BY <1>1, InvNet, PTL

\* There the hop line shows no address but that of the node at the hop's
\* distance on the path, on every path and however many answers are lost.
THEOREM RouteIsPathCorrect ==
  ASSUME MAXDELAY < TIMEOUT
  PROVE  NetSpec => []RouteIsPath
<1>1. ASSUME IndC, NetInv, pc \in {"print", "free"}, ~interrupted, NEW a \in Shown
      PROVE  a = NodeAt(ttl)
  <2>1. PICK k \in Probes : line[k].kind = "route" /\ line[k].ip = a
    BY <1>1 DEF Shown, Printed, ReadsAs
  <2>2. TokenOK(k)
    BY <1>1, <2>1 DEF IndC, LineInv
  <2>3. recieved[k] /\ ReadsAs(k, retpack[k].saddr)
    BY <2>1, <2>2 DEF TokenOK
  <2>4. retpack[k].saddr = a
    BY <2>1, <2>3 DEF ReadsAs
  <2> QED
    BY <1>1, <2>3, <2>4 DEF NetInv, Replied, IsAnswer, InHop
<1>2. IndC /\ NetInv => RouteIsPath
  BY <1>1 DEF RouteIsPath
<1> QED
  BY <1>2, InvNet, PTL

\* There a trace that no signal cut short and that ends before MAX_HOPS has the
\* destination on its last line in ICMP mode too, where any echo reply stops it.
THEOREM StopsAtDestOnNetwork ==
  ASSUME MAXDELAY < TIMEOUT
  PROVE  NetSpec => []StopsAtDest
<1>1. NetInv => StopsAtDest
  BY ShownDest DEF NetInv, Arrived, StopsAtDest
<1> QED
  BY <1>1, InvNet, PTL

=============================================================================
