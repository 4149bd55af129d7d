-------------------------- MODULE TracerouteProofs --------------------------
(***************************************************************************)
(* Proofs about Traceroute, and that it implements RouteTrace, for every   *)
(* MAX_HOPS up to 255, every set of addresses and ICMP messages and every  *)
(* receive buffer.                                                         *)
(***************************************************************************)
EXTENDS TraceRefinement, TLAPS

\* Where main() is bounds the ttl and the loop index.
HopRange ==
  /\ pc \in {"parsed", "signals"} => ttl = 0
  /\ pc \in {"head", "construct"} => ttl = 1
  /\ pc \in {"loop", "done"} => ttl \in 1..MAX_HOPS+1
  /\ pc \in InHop => ttl \in 1..MAX_HOPS
  /\ pc \notin {"send", "recv", "print", "segv"} => index = 0
  /\ pc # "done" => networkIp \in Addrs

\* The probe with index j that belongs to hop t.
ProbeOf(j, t) ==
  [ttl |-> t, daddr |-> Dest,
   source |-> IF icmp_route THEN 0 ELSE UDP_PORT_S + j + (t - 1) * 3,
   dest |-> IF icmp_route THEN 0 ELSE UDP_PORT_D + j + (t - 1) * 3,
   sequence |-> IF icmp_route THEN 1 ELSE 0]

\* The packets are those of the current hop, or of the last one at the loop test.
PacketInv ==
  /\ pc \in {"parsed", "signals", "head", "construct"} => networkIp = Dest
  /\ pc = "loop" => \A j \in Probes : sendpack[j] = ProbeOf(j, IF ttl = 1 THEN 1 ELSE ttl - 1)
  /\ pc \in InHop => \A j \in Probes : /\ sendpack[j] = ProbeOf(j, ttl)
                                       /\ sent[j] # NULL => sent[j].pkt = ProbeOf(j, ttl)

\* Which pointers are set at each control point, and what they point to.
Addressed(j) == /\ resIps[j] = IF recieved[j] THEN retpack[j].saddr ELSE NULL
                /\ resDns[j] \in {NULL, resIps[j]}
Timed(j) == recieved[j] => probeTimes[j] = <<ttl, ttl>>
ReplyInv ==
  /\ pc \notin InHop \cup {"segv"} => retpack = Nulls
  /\ pc \notin {"print", "free", "segv"} => resIps = Nulls /\ resDns = Nulls
  /\ pc = "recv" => sendTime[index] = ttl
  /\ pc \in {"send", "recv"} =>
       \A j \in Probes : IF j < index THEN (recieved[j] <=> retpack[j] # NULL) /\ Timed(j)
                         ELSE retpack[j] = NULL
  /\ pc \in {"print", "free"} =>
       \A j \in Probes : (recieved[j] <=> retpack[j] # NULL) /\ Timed(j)
  /\ pc = "print" =>
       \A j \in Probes : IF j < index THEN Addressed(j)
                         ELSE resIps[j] = NULL /\ resDns[j] = NULL
  /\ pc # "segv"

\* What the line says of probe j is right.
TokenOK(j) ==
  /\ IF recieved[j] THEN ReadsAs(j, retpack[j].saddr) ELSE line[j].kind = "star"
  /\ line[j].kind = "route" => line[j].name \in {NULL, line[j].ip}
  /\ line[j].kind \in {"time", "route"} => line[j].ms = <<ttl, ttl>>
LineInv ==
  /\ pc \in {"parsed", "signals", "head", "construct", "send", "recv"} => line = BlankLine
  /\ pc = "print" =>
       \A j \in Probes : IF j < index THEN TokenOK(j) ELSE line[j].kind = "blank"
  /\ pc = "free" => \A j \in Probes : TokenOK(j)

\* The line names the destination.
SeenDest == \E j \in Probes : line[j].kind = "route" /\ line[j].ip = Dest

\* Why the trace goes on, and why it stops.
ArrivalInv ==
  /\ pc \in Running /\ SeenDest => ~alive
  /\ pc \in Running /\ ~icmp_route /\ ~interrupted /\ ~alive => SeenDest
  /\ pc = "done" /\ ~icmp_route /\ ~interrupted /\ ttl <= MAX_HOPS => SeenDest

-----------------------------------------------------------------------------
(* Types, hop numbers and packets *)

IndA == TypeOK /\ HopRange /\ PacketInv

USE DEF PROBENB, Probes, UDP_PORT_D, UDP_PORT_S

LEMMA InitA == Init => IndA
<1> SUFFICES ASSUME Init PROVE IndA
  OBVIOUS
<1>1. TypeOK
  <2>1. line \in [Probes -> Tokens]
    <3>1. Blank \in Tokens
      BY HopsAssumption DEF Blank, Tokens, Stamps
    <3> QED
      BY <3>1 DEF Init, BlankLine
  <2>2. probeTimes \in [Probes -> Stamps] /\ sendTime \in [Probes -> 0..MAX_HOPS]
    BY HopsAssumption DEF Init, Stamps
  <2> QED
    BY <2>1, <2>2, HopsAssumption, AddrAssumption DEF Init, TypeOK, Nulls
<1> QED
  BY <1>1, AddrAssumption DEF Init, IndA, HopRange, PacketInv, InHop

LEMMA ProbeType ==
  ASSUME NEW j \in Probes, NEW t \in 1..MAX_HOPS, icmp_route \in BOOLEAN
  PROVE  ProbeOf(j, t) \in Packets
<1>1. t \in Nat /\ 33434 + j + (t - 1) * 3 \in Nat
  BY HopsAssumption
<1>2. CASE icmp_route
  BY <1>1, <1>2, AddrAssumption DEF ProbeOf, Packets
<1>3. CASE ~icmp_route
  BY <1>1, <1>3, AddrAssumption DEF ProbeOf, Packets
<1> QED
  BY <1>2, <1>3

\* The address print_route prints is the one get_address has just stored.
LEMMA SameAddress ==
  ASSUME TypeOK, print_route, ~Faults
  PROVE  print_same(retpack[index].saddr) \/ print_new(retpack[index].saddr)
<1>1. PICK dns \in {NULL, retpack[index].saddr} : get_address(dns)
  BY DEF print_route
<1>2. resIps'[index] = retpack[index].saddr
  BY <1>1 DEF get_address, TypeOK
<1>3. print_same(resIps'[index]) \/ print_new(resIps'[index])
  BY DEF print_route
<1> QED
  BY <1>2, <1>3 DEF print_same, print_new

LEMMA StepA == IndA /\ [Next]_vars => IndA'
<1> SUFFICES ASSUME IndA, [Next]_vars PROVE IndA'
  OBVIOUS
<1> USE DEF IndA
<1>a. TypeOK /\ HopRange /\ PacketInv
  OBVIOUS
<1>1. CASE set_signals
  BY <1>1 DEF set_signals, packets, replies, names, TypeOK, HopRange, PacketInv, ProbeOf, Running, InHop, Ended
<1>2. CASE init_data
  BY <1>2, HopsAssumption DEF init_data, packets, replies, names, TypeOK, HopRange, PacketInv, ProbeOf, Running, InHop, Ended
<1>3. CASE start
  BY <1>3 DEF start, packets, replies, names, TypeOK, HopRange, PacketInv, ProbeOf, Running, InHop, Ended
<1>4. CASE construct_packets
  <2>1. \A j \in Probes : construct_packet(j) = ProbeOf(j, 1)
    BY <1>4 DEF construct_packets, construct_packet, ProbeOf, HopRange, PacketInv
  <2>2. sendpack' \in [Probes -> Packets \cup {NULL}]
    BY <1>4, <2>1, ProbeType, HopsAssumption DEF construct_packets, TypeOK
  <2>3. TypeOK'
    BY <1>4, <2>2 DEF construct_packets, TypeOK, replies, names, Running
  <2>4. HopRange' /\ PacketInv'
    BY <1>4, <2>1, HopsAssumption DEF construct_packets, HopRange, PacketInv, InHop, ProbeOf
  <2> QED
    BY <2>3, <2>4
<1>5. CASE begin_hop
  <2>1. ttl \in 1..MAX_HOPS /\ ttl \in Nat
    BY <1>5, HopsAssumption DEF begin_hop, LoopTest, HopRange
  <2>2. \A j \in Probes : sendpack'[j] = ProbeOf(j, ttl)
    <3>1. CASE ttl = 1
      BY <1>5, <3>1 DEF begin_hop, PacketInv
    <3>2. CASE ttl # 1
      <4> SUFFICES ASSUME NEW j \in Probes PROVE update_packet(j) = ProbeOf(j, ttl)
        BY <1>5, <3>2 DEF begin_hop
      <4>1. sendpack[j] = ProbeOf(j, ttl - 1)
        BY <1>5, <3>2 DEF begin_hop, PacketInv
      <4>2. ttl % 256 = ttl /\ (33434 + j + (ttl - 1) * 3) % 65536 = 33434 + j + (ttl - 1) * 3
        BY <2>1, HopsAssumption
      <4>3. CASE icmp_route
        BY <4>1, <4>2, <4>3 DEF update_packet, ProbeOf
      <4>4. CASE ~icmp_route
        BY <4>1, <4>2, <4>4 DEF update_packet, ProbeOf
      <4> QED
        BY <4>3, <4>4
    <3> QED
      BY <3>1, <3>2
  <2>3. sendpack' \in [Probes -> Packets \cup {NULL}]
    <3>1. sendpack' = [j \in Probes |-> sendpack'[j]]
      BY <1>5 DEF begin_hop, TypeOK
    <3>2. \A j \in Probes : sendpack'[j] \in Packets
      BY <2>1, <2>2, ProbeType DEF TypeOK
    <3> QED
      BY <3>1, <3>2
  <2>4. line' \in [Probes -> Tokens]
    <3>1. Blank \in Tokens
      BY HopsAssumption DEF Blank, Tokens, Stamps
    <3> QED
      BY <1>5, <3>1 DEF begin_hop, BlankLine
  <2>5. TypeOK'
    BY <1>5, <2>3, <2>4 DEF begin_hop, TypeOK, names, Running, Nulls
  <2>6. HopRange'
    BY <1>5, <2>1 DEF begin_hop, HopRange, InHop
  <2>7. PacketInv'
    BY <1>5, <2>2 DEF begin_hop, PacketInv, InHop, ProbeOf, Nulls
  <2> QED
    BY <2>5, <2>6, <2>7
<1>6. CASE send_packet
  <2>1. ttl \in 1..MAX_HOPS /\ index \in Probes /\ networkIp \in Addrs
    BY <1>6 DEF send_packet, HopRange, InHop, TypeOK
  <2>2. sendpack[index] = ProbeOf(index, ttl) /\ sendpack[index] \in Packets
    BY <1>6, <2>1, ProbeType DEF send_packet, PacketInv, InHop, TypeOK
  <2>3. [pkt |-> sendpack[index], to |-> networkIp] \in [pkt : Packets, to : Addrs]
    BY <2>1, <2>2
  <2>4. sent' \in [Probes -> [pkt : Packets, to : Addrs] \cup {NULL}]
    BY <1>6, <2>1, <2>3 DEF send_packet, TypeOK
  <2>5. sendTime' \in [Probes -> 0..MAX_HOPS]
    BY <1>6, <2>1, HopsAssumption DEF send_packet, TypeOK
  <2>6. TypeOK'
    BY <1>6, <2>4, <2>5 DEF send_packet, TypeOK, replies, names, Running
  <2>7. HopRange'
    BY <1>6 DEF send_packet, HopRange, InHop
  <2>8. \A j \in Probes : sent'[j] # NULL => sent'[j].pkt = ProbeOf(j, ttl)
    BY <1>6, <2>1, <2>2 DEF send_packet, PacketInv, InHop, TypeOK
  <2>9. PacketInv'
    BY <1>6, <2>8 DEF send_packet, PacketInv, InHop, ProbeOf
  <2> QED
    BY <2>6, <2>7, <2>9
<1>7. CASE recieve_packet
  <2>1. ttl \in 1..MAX_HOPS /\ index \in Probes
    BY <1>7 DEF recieve_packet, HopRange, InHop, TypeOK
  <2>2. Head(rcvq) \in Msgs /\ Tail(rcvq) \in Seq(Msgs)
    BY <1>7 DEF recieve_packet, TypeOK
  <2>3. Head(rcvq).saddr \in Addrs
    BY <2>2, MsgAssumption
  <2>4. probeTimes' \in [Probes -> Stamps]
    <3>1. sendTime[index] \in 0..MAX_HOPS /\ ttl \in 0..MAX_HOPS
      BY <2>1, HopsAssumption DEF TypeOK
    <3>2. <<sendTime[index], ttl>> \in Stamps
      BY <3>1 DEF Stamps
    <3> QED
      BY <1>7, <3>2 DEF recieve_packet, TypeOK
  <2>5. index' \in Probes /\ pc' \in {"send", "print"}
    BY <1>7, <2>1 DEF recieve_packet, NextProbe
  <2>6. retpack' \in [Probes -> Msgs \cup {NULL}] /\ recieved' \in [Probes -> BOOLEAN]
    BY <1>7, <2>1, <2>2 DEF recieve_packet, TypeOK
  <2>7. alive' \in BOOLEAN /\ networkIp' \in Addrs /\ rcvq' \in Seq(Msgs)
    BY <1>7, <2>2, <2>3 DEF recieve_packet, StillAlive, TypeOK
  <2>8. TypeOK'
    BY <1>7, <2>4, <2>5, <2>6, <2>7 DEF recieve_packet, TypeOK, packets, names, Running
  <2>9. HopRange'
    BY <1>7, <2>1, <2>5, <2>7 DEF recieve_packet, HopRange, InHop
  <2>10. PacketInv'
    BY <1>7, <2>5 DEF recieve_packet, PacketInv, InHop, ProbeOf, packets
  <2> QED
    BY <2>8, <2>9, <2>10
<1>8. CASE recieve_nothing
  <2>1. ttl \in 1..MAX_HOPS /\ index \in Probes
    BY <1>8 DEF recieve_nothing, HopRange, InHop, TypeOK
  <2>2. index' \in Probes /\ pc' \in {"send", "print"}
    BY <1>8, <2>1 DEF recieve_nothing, NextProbe
  <2>3. TypeOK'
    BY <1>8, <2>1, <2>2 DEF recieve_nothing, TypeOK, packets, names, Running
  <2>4. HopRange'
    BY <1>8, <2>1, <2>2 DEF recieve_nothing, HopRange, InHop
  <2>5. PacketInv'
    BY <1>8, <2>2 DEF recieve_nothing, PacketInv, InHop, ProbeOf, packets
  <2> QED
    BY <2>3, <2>4, <2>5
<1>9. CASE print_star
  <2>1. ttl \in 1..MAX_HOPS /\ index \in Probes /\ networkIp \in Addrs
    BY <1>9 DEF print_star, HopRange, InHop, TypeOK
  <2>2. index' \in Probes /\ pc' \in {"print", "free"} /\ (pc' = "free" => index' = 0)
    BY <1>9, <2>1 DEF print_star, NextProbe
  <2>3. Star \in Tokens
    BY HopsAssumption DEF Star, Tokens, Stamps
  <2>4. TypeOK'
    BY <1>9, <2>1, <2>2, <2>3 DEF print_star, TypeOK, packets, replies, names, Running
  <2>5. HopRange'
    BY <1>9, <2>1, <2>2 DEF print_star, HopRange, InHop
  <2>6. PacketInv'
    BY <1>9, <2>2 DEF print_star, PacketInv, InHop, ProbeOf, packets
  <2> QED
    BY <2>4, <2>5, <2>6
<1>10. CASE print_route
  <2>1. ttl \in 1..MAX_HOPS /\ index \in Probes /\ networkIp \in Addrs
    BY <1>10 DEF print_route, HopRange, InHop, TypeOK
  <2>2. CASE Faults
    BY <1>10, <2>1, <2>2 DEF print_route, TypeOK, HopRange, PacketInv, InHop, packets, replies, names, Running, Ended
  <2>3. CASE ~Faults
    <3> DEFINE ip == retpack[index].saddr
    <3>1. ip \in Addrs
      BY <2>1, <2>3, MsgAssumption DEF Faults, TypeOK
    <3>2. index' \in Probes /\ pc' \in {"print", "free"} /\ (pc' = "free" => index' = 0)
      BY <1>10, <2>1, <2>3 DEF print_route, NextProbe
    <3>3. resIps' \in [Probes -> Addrs \cup {NULL}] /\ resDns' \in [Probes -> Addrs \cup {NULL}]
      BY <1>10, <2>1, <2>3, <3>1 DEF print_route, get_address, TypeOK
    <3>4. probeTimes[index] \in Stamps
      BY <2>1 DEF TypeOK
    <3>5. TimeOnly(probeTimes[index]) \in Tokens
      BY <3>4 DEF TimeOnly, Tokens
    <3>6. Route(resDns'[index], ip, probeTimes[index]) \in Tokens
      BY <2>1, <3>1, <3>3, <3>4 DEF Route, Tokens
    <3>7. line' \in [Probes -> Tokens] /\ alive' \in BOOLEAN
      <4>1. print_same(ip) \/ print_new(ip)
        BY <1>10, <2>3, SameAddress
      <4> QED
        BY <4>1, <2>1, <3>5, <3>6 DEF print_same, print_new, TypeOK
    <3>8. TypeOK'
      BY <1>10, <3>2, <3>3, <3>7 DEF print_route, TypeOK, packets, replies, Running
    <3>9. HopRange'
      BY <1>10, <2>1, <3>2 DEF print_route, HopRange, InHop
    <3>10. PacketInv'
      BY <1>10, <3>2 DEF print_route, PacketInv, InHop, ProbeOf, packets
    <3> QED
      BY <3>8, <3>9, <3>10
  <2> QED
    BY <2>2, <2>3
<1>11. CASE end_hop
  <2>1. ttl \in 1..MAX_HOPS /\ index = 0
    BY <1>11 DEF end_hop, HopRange, InHop
  <2>2. TypeOK'
    BY <1>11, <2>1, HopsAssumption DEF end_hop, free_probes_data, TypeOK, packets, Running, Nulls
  <2>3. HopRange'
    BY <1>11, <2>1, HopsAssumption DEF end_hop, HopRange, InHop
  <2>4. PacketInv'
    BY <1>11, <2>1, HopsAssumption DEF end_hop, PacketInv, InHop, ProbeOf, packets
  <2> QED
    BY <2>2, <2>3, <2>4
<1>12. CASE finish
  <2>1. TypeOK'
    BY <1>12 DEF finish, free_probes_data, TypeOK, Ended, Nulls
  <2>2. HopRange'
    BY <1>12 DEF finish, HopRange, InHop
  <2>3. PacketInv'
    BY <1>12 DEF finish, PacketInv, InHop
  <2> QED
    BY <2>1, <2>2, <2>3
<1>13. CASE kill_program
  <2>1. TypeOK'
    BY <1>13 DEF kill_program, prog, packets, replies, names, TypeOK
  <2>2. HopRange' /\ PacketInv'
    BY <1>13 DEF kill_program, prog, packets, HopRange, PacketInv, ProbeOf, InHop
  <2> QED
    BY <2>1, <2>2
<1>14. CASE default_signal
  BY <1>14 DEF default_signal, packets, replies, names, TypeOK, HopRange, PacketInv, ProbeOf, Running, InHop, Ended
<1>15. ASSUME NEW m \in Msgs, arrive(m) PROVE IndA'
  BY <1>15 DEF arrive, prog, packets, replies, names, TypeOK, HopRange, PacketInv, ProbeOf, Running, InHop, Ended
<1>16. CASE UNCHANGED vars
  BY <1>16 DEF vars, prog, packets, replies, names, TypeOK, HopRange, PacketInv, ProbeOf, Running, InHop, Ended
<1> QED
  BY <1>1, <1>2, <1>3, <1>4, <1>5, <1>6, <1>7, <1>8, <1>9, <1>10, <1>11,
     <1>12, <1>13, <1>14, <1>15, <1>16 DEF Next, Program, Environment, ended

\* Every reachable state is well typed, for every MAX_HOPS and message set: the
\* ttl, the ports and the stamps stay in range through the whole hop loop.
THEOREM TypeCorrect == Spec => []TypeOK
<1>1. Spec => []IndA
  BY InitA, StepA, PTL DEF Spec
<1> QED
  BY <1>1, PTL DEF IndA

-----------------------------------------------------------------------------
(* Pointers *)

LEMMA InitB == Init => ReplyInv
BY DEF Init, ReplyInv, InHop

\* Under the invariant print_route has both addresses it compares.
LEMMA NoFault ==
  ASSUME IndA, ReplyInv, pc = "print", recieved[index]
  PROVE  ~Faults
<1>1. index \in Probes /\ retpack[index] # NULL
  BY DEF IndA, TypeOK, ReplyInv
<1>2. ASSUME ComparesWithPrevious PROVE resIps[index - 1] # NULL
  <2>1. index - 1 \in Probes /\ index - 1 < index /\ recieved[index - 1]
    BY <1>1, <1>2 DEF ComparesWithPrevious
  <2>2. resIps[index - 1] = retpack[index - 1].saddr /\ retpack[index - 1] # NULL
    BY <2>1 DEF ReplyInv, Addressed
  <2>3. retpack[index - 1].saddr \in Addrs
    BY <2>1, <2>2, MsgAssumption DEF IndA, TypeOK
  <2> QED
    BY <2>2, <2>3, AddrAssumption
<1> QED
  BY <1>1, <1>2 DEF Faults

LEMMA StepB == IndA /\ ReplyInv /\ [Next]_vars => ReplyInv'
<1> SUFFICES ASSUME IndA, ReplyInv, [Next]_vars PROVE ReplyInv'
  OBVIOUS
<1>t. index \in Probes /\ recieved \in [Probes -> BOOLEAN]
      /\ retpack \in [Probes -> Msgs \cup {NULL}] /\ probeTimes \in [Probes -> Stamps]
      /\ resIps \in [Probes -> Addrs \cup {NULL}] /\ resDns \in [Probes -> Addrs \cup {NULL}]
  BY DEF IndA, TypeOK
<1>1. CASE set_signals
  BY <1>1 DEF set_signals, replies, names, packets, ReplyInv, InHop
<1>2. CASE init_data
  BY <1>2 DEF init_data, replies, names, packets, ReplyInv, InHop
<1>3. CASE start
  BY <1>3 DEF start, replies, names, packets, ReplyInv, InHop
<1>4. CASE construct_packets
  BY <1>4 DEF construct_packets, replies, names, ReplyInv, InHop
<1>5. CASE begin_hop
  <2>1. index' = 0 /\ pc' = "send" /\ retpack' = Nulls /\ resIps' = Nulls /\ resDns' = Nulls
    BY <1>5 DEF begin_hop, names, ReplyInv, InHop
  <2> QED
    BY <2>1 DEF ReplyInv, InHop, Nulls
<1>6. CASE send_packet
  <2>1. sendTime'[index'] = ttl'
    BY <1>6, <1>t DEF send_packet, IndA, TypeOK
  <2> QED
    BY <1>6, <2>1 DEF send_packet, replies, names, ReplyInv, InHop, Timed
<1>7. CASE recieve_packet
  <2>1. Head(rcvq) \in Msgs /\ Head(rcvq) # NULL
    BY <1>7, MsgAssumption DEF recieve_packet, IndA, TypeOK
  <2>2. retpack'[index] # NULL /\ recieved'[index] = TRUE /\ probeTimes'[index] = <<ttl, ttl>>
    BY <1>7, <1>t, <2>1 DEF recieve_packet, ReplyInv
  <2>3. \A j \in Probes : j # index => /\ retpack'[j] = retpack[j] /\ recieved'[j] = recieved[j]
                                       /\ probeTimes'[j] = probeTimes[j]
    BY <1>7, <1>t DEF recieve_packet
  <2>4. \A j \in Probes : IF j <= index THEN (recieved'[j] <=> retpack'[j] # NULL) /\ Timed(j)'
                          ELSE retpack'[j] = NULL
    BY <1>7, <1>t, <2>2, <2>3 DEF recieve_packet, ReplyInv, Timed
  <2>5. CASE index = 2
    <3>1. pc' = "print" /\ index' = 0 /\ resIps' = Nulls /\ resDns' = Nulls
      BY <1>7, <2>5 DEF recieve_packet, NextProbe, names, ReplyInv
    <3> QED
      BY <3>1, <2>4, <2>5 DEF ReplyInv, InHop, Nulls
  <2>6. CASE index # 2
    <3>1. pc' = "send" /\ index' = index + 1 /\ resIps' = Nulls /\ resDns' = Nulls
      BY <1>7, <2>6 DEF recieve_packet, NextProbe, names, ReplyInv
    <3>2. \A j \in Probes : j < index' <=> j <= index
      BY <3>1, <1>t
    <3> QED
      BY <3>1, <3>2, <2>4 DEF ReplyInv, InHop
  <2> QED
    BY <2>5, <2>6
<1>8. CASE recieve_nothing
  <2>2. retpack'[index] = NULL /\ recieved'[index] = FALSE
    BY <1>8, <1>t DEF recieve_nothing
  <2>3. \A j \in Probes : j # index => retpack'[j] = retpack[j] /\ recieved'[j] = recieved[j]
    BY <1>8, <1>t DEF recieve_nothing
  <2>4. \A j \in Probes : IF j <= index THEN (recieved'[j] <=> retpack'[j] # NULL) /\ Timed(j)'
                          ELSE retpack'[j] = NULL
    BY <1>8, <1>t, <2>2, <2>3 DEF recieve_nothing, ReplyInv, Timed
  <2>5. CASE index = 2
    <3>1. pc' = "print" /\ index' = 0 /\ resIps' = Nulls /\ resDns' = Nulls
      BY <1>8, <2>5 DEF recieve_nothing, NextProbe, names, ReplyInv
    <3> QED
      BY <3>1, <2>4, <2>5 DEF ReplyInv, InHop, Nulls
  <2>6. CASE index # 2
    <3>1. pc' = "send" /\ index' = index + 1 /\ resIps' = Nulls /\ resDns' = Nulls
      BY <1>8, <2>6 DEF recieve_nothing, NextProbe, names, ReplyInv
    <3>2. \A j \in Probes : j < index' <=> j <= index
      BY <3>1, <1>t
    <3> QED
      BY <3>1, <3>2, <2>4 DEF ReplyInv, InHop
  <2> QED
    BY <2>5, <2>6
<1>9. CASE print_star
  <2>1. resIps[index] = NULL /\ resDns[index] = NULL /\ ~recieved[index]
    BY <1>9, <1>t DEF print_star, ReplyInv
  <2>2. \A j \in Probes : IF j <= index THEN Addressed(j)'
                          ELSE resIps'[j] = NULL /\ resDns'[j] = NULL
    BY <1>9, <1>t, <2>1 DEF print_star, replies, names, ReplyInv, Addressed
  <2>3. \A j \in Probes : (recieved'[j] <=> retpack'[j] # NULL) /\ Timed(j)'
    BY <1>9 DEF print_star, replies, ReplyInv, Timed
  <2>4. pc' = "free" \/ (pc' = "print" /\ index' = index + 1)
    BY <1>9 DEF print_star, NextProbe
  <2>5. \A j \in Probes : j < index + 1 <=> j <= index
    BY <1>t
  <2> QED
    BY <2>2, <2>3, <2>4, <2>5 DEF ReplyInv, InHop
<1>10. CASE print_route
  <2>1. pc = "print" /\ recieved[index] /\ ~Faults
    BY <1>10, NoFault DEF print_route
  <2>2. PICK dns \in {NULL, retpack[index].saddr} : get_address(dns)
    BY <1>10, <2>1 DEF print_route
  <2>3. UNCHANGED <<retpack, recieved, probeTimes, ttl>>
    BY <1>10 DEF print_route, replies
  <2>4. resIps'[index] = retpack[index].saddr /\ resDns'[index] \in {NULL, retpack[index].saddr}
    BY <1>t, <2>1, <2>2 DEF get_address, ReplyInv
  <2>5. \A j \in Probes : j # index => resIps'[j] = resIps[j] /\ resDns'[j] = resDns[j]
    BY <1>t, <2>2 DEF get_address
  <2>6. \A j \in Probes : IF j <= index THEN Addressed(j)'
                          ELSE resIps'[j] = NULL /\ resDns'[j] = NULL
    BY <1>t, <2>1, <2>3, <2>4, <2>5 DEF ReplyInv, Addressed
  <2>7. \A j \in Probes : (recieved'[j] <=> retpack'[j] # NULL) /\ Timed(j)'
    BY <2>1, <2>3 DEF ReplyInv, Timed
  <2>8. pc' = "free" \/ (pc' = "print" /\ index' = index + 1)
    BY <1>10, <2>1 DEF print_route, NextProbe
  <2>9. \A j \in Probes : j < index + 1 <=> j <= index
    BY <1>t
  <2> QED
    BY <2>6, <2>7, <2>8, <2>9 DEF ReplyInv, InHop
<1>11. CASE end_hop
  BY <1>11 DEF end_hop, free_probes_data, ReplyInv, InHop
<1>12. CASE finish
  BY <1>12 DEF finish, free_probes_data, ReplyInv, InHop
<1>13. CASE kill_program
  BY <1>13 DEF kill_program, prog, packets, replies, names, ReplyInv, Addressed, Timed
<1>14. CASE default_signal
  BY <1>14 DEF default_signal, replies, names, packets, ReplyInv, InHop
<1>15. ASSUME NEW m \in Msgs, arrive(m) PROVE ReplyInv'
  BY <1>15 DEF arrive, prog, packets, replies, names, ReplyInv, Addressed, Timed
<1>16. CASE UNCHANGED vars
  BY <1>16 DEF vars, prog, packets, replies, names, ReplyInv, Addressed, Timed
<1> QED
  BY <1>1, <1>2, <1>3, <1>4, <1>5, <1>6, <1>7, <1>8, <1>9, <1>10, <1>11,
     <1>12, <1>13, <1>14, <1>15, <1>16 DEF Next, Program, Environment, ended

\* print_route never reads through a null pointer: the strcmp of two probes'
\* addresses is reached only when both replies of this hop have one.
THEOREM NoSegvCorrect == Spec => []NoSegv
<1>1. Init => IndA /\ ReplyInv
  BY InitA, InitB
<1>2. IndA /\ ReplyInv /\ [Next]_vars => (IndA /\ ReplyInv)'
  BY StepA, StepB
<1>3. ReplyInv => NoSegv
  BY DEF ReplyInv, NoSegv
<1> QED
  BY <1>1, <1>2, <1>3, PTL DEF Spec

-----------------------------------------------------------------------------
(* The hop line *)

LEMMA InitC == Init => LineInv
BY DEF Init, LineInv

\* Printing a probe leaves what is read for the earlier ones as it was.
LEMMA ReadsAsStable ==
  ASSUME NEW k \in Probes, \A l \in Probes : l < k => line'[l] = line[l]
  PROVE  \A j \in Probes, a \in Addrs : j < k => (ReadsAs(j, a)' <=> ReadsAs(j, a))
<1> SUFFICES ASSUME NEW j \in Probes, NEW a \in Addrs, j < k
             PROVE  ReadsAs(j, a)' <=> ReadsAs(j, a)
  OBVIOUS
<1>1. \A l \in 0..j : line'[l] = line[l]
  OBVIOUS
<1> QED
  BY <1>1 DEF ReadsAs

\* A probe printed with its address reads as that address ...
LEMMA ReadsAsLast ==
  ASSUME NEW k \in Probes, NEW a \in Addrs, line'[k].kind = "route", line'[k].ip = a
  PROVE  ReadsAs(k, a)'
BY DEF ReadsAs

\* ... and one printed as a bare time as the probe before it.
LEMMA ReadsAsRepeat ==
  ASSUME NEW k \in Probes, NEW a \in Addrs, k # 0, ReadsAs(k - 1, a),
         line'[k].kind = "time", \A l \in Probes : l < k => line'[l] = line[l]
  PROVE  ReadsAs(k, a)'
<1>1. PICK m \in 0..k-1 : /\ line[m].kind = "route" /\ line[m].ip = a
                          /\ \A l \in m+1..k-1 : line[l].kind = "time"
  BY DEF ReadsAs
<1>2. m \in 0..k /\ line'[m].kind = "route" /\ line'[m].ip = a
  BY <1>1
<1>3. \A l \in m+1..k : line'[l].kind = "time"
  BY <1>1
<1> QED
  BY <1>2, <1>3 DEF ReadsAs

LEMMA StepC == IndA /\ ReplyInv /\ LineInv /\ [Next]_vars => LineInv'
<1> SUFFICES ASSUME IndA, ReplyInv, LineInv, [Next]_vars PROVE LineInv'
  OBVIOUS
<1>t. index \in Probes /\ line \in [Probes -> Tokens] /\ recieved \in [Probes -> BOOLEAN]
      /\ retpack \in [Probes -> Msgs \cup {NULL}]
  BY DEF IndA, TypeOK
<1>k. PICK k \in Probes : k = index
  BY <1>t
\* A step that prints probe index and leaves the replies alone.
<1>p. ASSUME NEW tok \in Tokens, pc = "print", line' = [line EXCEPT ![index] = tok],
             NextProbe("print", "free"), UNCHANGED <<replies, ttl>>, TokenOK(k)'
      PROVE  LineInv'
  <2>1. \A l \in Probes : l # index => line'[l] = line[l]
    BY <1>p, <1>t
  <2>2. UNCHANGED <<recieved, retpack, ttl>>
    BY <1>p DEF replies
  <2>3. ASSUME NEW j \in Probes, j < index PROVE TokenOK(j)'
    <3>1. TokenOK(j) /\ line'[j] = line[j]
      BY <1>p, <2>1, <2>3, <1>t DEF LineInv
    <3>2. ASSUME recieved[j] PROVE ReadsAs(j, retpack[j].saddr)'
      <4>1. retpack[j].saddr \in Addrs
        BY <1>p, <3>2, <1>t, MsgAssumption DEF ReplyInv
      <4>2. ReadsAs(j, retpack[j].saddr)
        BY <3>1, <3>2 DEF TokenOK
      <4>3. \A l \in Probes : l < index => line'[l] = line[l]
        BY <2>1, <1>t
      <4>4. \A a \in Addrs : ReadsAs(j, a)' <=> ReadsAs(j, a)
        BY <4>3, <2>3, <1>t, ReadsAsStable
      <4>5. retpack'[j].saddr = retpack[j].saddr
        BY <2>2
      <4> QED
        BY <4>1, <4>2, <4>4, <4>5
    <3> QED
      BY <3>1, <3>2, <2>2 DEF TokenOK
  <2>4. \A j \in Probes : j <= index => TokenOK(j)'
    BY <2>3, <1>p, <1>t, <1>k
  <2>5. CASE index = 2
    <3>1. pc' = "free" /\ \A j \in Probes : j <= index
      BY <1>p, <2>5 DEF NextProbe
    <3> QED
      BY <3>1, <2>4 DEF LineInv
  <2>6. CASE index # 2
    <3>1. pc' = "print" /\ index' = index + 1
      BY <1>p, <2>6 DEF NextProbe
    <3>2. \A j \in Probes : ~(j < index') => line'[j].kind = "blank"
      BY <3>1, <1>p, <2>1, <1>t DEF LineInv
    <3>3. \A j \in Probes : j < index' => TokenOK(j)'
      BY <3>1, <2>4, <1>t
    <3> QED
      BY <3>1, <3>2, <3>3 DEF LineInv
  <2> QED
    BY <2>5, <2>6
<1>1. CASE set_signals \/ init_data \/ start \/ construct_packets \/ default_signal
  BY <1>1 DEF set_signals, init_data, start, construct_packets, default_signal, LineInv
<1>5. CASE begin_hop
  BY <1>5 DEF begin_hop, LineInv
<1>6. CASE send_packet
  BY <1>6 DEF send_packet, LineInv
<1>7. CASE recieve_packet \/ recieve_nothing
  <2>1. line' = BlankLine /\ pc' \in {"send", "print"}
    BY <1>7 DEF recieve_packet, recieve_nothing, NextProbe, LineInv
  <2>2. pc' = "print" => index' = 0
    BY <1>7 DEF recieve_packet, recieve_nothing, NextProbe
  <2> QED
    BY <2>1, <2>2 DEF LineInv, BlankLine, Blank
<1>9. CASE print_star
  <2>1. Star \in Tokens
    BY HopsAssumption DEF Star, Tokens, Stamps
  <2>2. line'[index] = Star /\ ~recieved'[index]
    BY <1>9, <1>t DEF print_star, replies
  <2>3. TokenOK(k)'
    BY <2>2, <1>k DEF TokenOK, Star
  <2> QED
    BY <2>1, <2>3, <1>9, <1>p DEF print_star
<1>10. CASE print_route
  <2> DEFINE ip == retpack[index].saddr
  <2>1. pc = "print" /\ recieved[index] /\ ~Faults
    BY <1>10, NoFault DEF print_route
  <2>2. ip \in Addrs
    BY <2>1, <1>t, MsgAssumption DEF Faults
  <2>a. PICK a \in Addrs : a = ip
    BY <2>2
  <2>3. UNCHANGED <<replies, ttl>> /\ UNCHANGED <<retpack, recieved, probeTimes>>
    BY <1>10 DEF print_route, replies
  <2>4. NextProbe("print", "free")
    BY <1>10, <2>1 DEF print_route
  <2>5. probeTimes[index] = <<ttl, ttl>> /\ probeTimes[index] \in Stamps
    BY <2>1, <1>t DEF ReplyInv, Timed, IndA, TypeOK
  <2>6. CASE print_same(ip)
    <3> DEFINE tok == TimeOnly(probeTimes[index])
    <3>1. tok \in Tokens /\ tok.kind = "time" /\ tok.ms = <<ttl, ttl>>
      BY <2>5 DEF TimeOnly, Tokens
    <3>2. line' = [line EXCEPT ![index] = tok] /\ line'[index] = tok
      BY <2>6, <1>t DEF print_same
    <3>3. index # 0 /\ index - 1 \in Probes /\ index - 1 < index /\ recieved[index - 1] /\ ip = resIps[index - 1]
      BY <2>6, <1>t DEF print_same, ComparesWithPrevious
    <3>4. resIps[index - 1] = retpack[index - 1].saddr
      BY <2>1, <3>3 DEF ReplyInv, Addressed
    <3>5. ReadsAs(index - 1, ip)
      BY <2>1, <3>3, <3>4 DEF LineInv, TokenOK
    <3>6. \A l \in Probes : l < index => line'[l] = line[l]
      BY <3>2, <1>t
    <3>7. ReadsAs(k, a)'
      <4>1. k # 0 /\ ReadsAs(k - 1, a) /\ line'[k].kind = "time" /\ \A l \in Probes : l < k => line'[l] = line[l]
        BY <1>k, <2>a, <3>1, <3>2, <3>3, <3>5, <3>6
      <4> QED
        BY <4>1, ReadsAsRepeat
    <3>8. TokenOK(k)'
      BY <3>1, <3>2, <3>7, <2>1, <2>3, <2>a, <1>k DEF TokenOK
    <3> QED
      BY <3>1, <3>2, <3>8, <2>1, <2>3, <2>4, <1>p
  <2>7. CASE print_new(ip)
    <3> DEFINE tok == Route(resDns'[index], ip, probeTimes[index])
    <3>1. resDns'[index] \in {NULL, ip} /\ ip # NULL
      <4>1. PICK dns \in {NULL, ip} : get_address(dns)
        BY <1>10, <2>1 DEF print_route
      <4>2. resDns[index] = NULL /\ resDns \in [Probes -> Addrs \cup {NULL}]
        BY <2>1, <1>t DEF ReplyInv, IndA, TypeOK
      <4> QED
        BY <4>1, <4>2, <1>t, <2>2, AddrAssumption DEF get_address
    <3>2. tok \in Tokens /\ tok.kind = "route" /\ tok.ms = <<ttl, ttl>> /\ tok.ip = ip /\ tok.name = resDns'[index]
      BY <3>1, <2>2, <2>5 DEF Route, Tokens
    <3>3. line' = [line EXCEPT ![index] = tok] /\ line'[index] = tok
      BY <2>7, <1>t DEF print_new
    <3> HIDE DEF tok
    <3>4. ReadsAs(k, a)'
      BY <3>2, <3>3, <1>k, <2>a, ReadsAsLast
    <3>5. TokenOK(k)'
      BY <3>1, <3>2, <3>3, <3>4, <2>1, <2>3, <2>a, <1>k DEF TokenOK
    <3> QED
      BY <3>2, <3>3, <3>5, <2>1, <2>3, <2>4, <1>p
  <2> QED
    BY <2>6, <2>7, <1>10, <2>1, SameAddress DEF IndA
<1>11. CASE end_hop \/ finish
  BY <1>11 DEF end_hop, finish, LineInv
<1>13. CASE kill_program
  BY <1>13 DEF kill_program, prog, replies, LineInv, TokenOK, ReadsAs
<1>15. ASSUME NEW m \in Msgs, arrive(m) PROVE LineInv'
  BY <1>15 DEF arrive, prog, replies, LineInv, TokenOK, ReadsAs
<1>16. CASE UNCHANGED vars
  BY <1>16 DEF vars, prog, replies, LineInv, TokenOK, ReadsAs
<1> QED
  BY <1>1, <1>5, <1>6, <1>7, <1>9, <1>10, <1>11, <1>13, <1>15, <1>16
     DEF Next, Program, Environment, ended

\* Everything the invariants say but for the stop.
IndC == IndA /\ ReplyInv /\ LineInv

LEMMA InvC == Spec => []IndC
<1>1. Init => IndC
  BY InitA, InitB, InitC DEF IndC
<1>2. IndC /\ [Next]_vars => IndC'
  BY StepA, StepB, StepC DEF IndC
<1> QED
  BY <1>1, <1>2, PTL DEF Spec

\* A reader of the hop line gets back the address each probe's reply came from,
\* and a star for each probe without one, though repeated addresses are left out.
THEOREM LineReadsBackCorrect == Spec => []LineReadsBack
<1>1. IndC => LineReadsBack
  BY DEF IndC, LineInv, TokenOK, LineReadsBack, Printed
<1> QED
  BY <1>1, InvC, PTL

\* Names and times on the line belong to this hop.
THEOREM LineIsFreshCorrect == Spec => []LineIsFresh
<1>1. ASSUME IndC, NEW j \in Printed, pc \in {"print", "free"}, line[j].kind # "star"
      PROVE  line[j].kind \in {"time", "route"}
  BY <1>1 DEF IndC, IndA, TypeOK, Tokens, Printed
<1>2. IndC => LineIsFresh
  BY <1>1 DEF IndC, LineInv, TokenOK, LineIsFresh, Printed
<1> QED
  BY <1>2, InvC, PTL

\* Every datagram of a hop carries the hop's ttl, the destination's address and,
\* in UDP mode, the ports of its probe, although update_packets skips the first
\* hop and recvfrom overwrites networkIp.
THEOREM ProbesOfHopCorrect == Spec => []ProbesOfHop
<1>1. ASSUME IndC, pc \in InHop, NEW j \in Probes, sent[j] # NULL
      PROVE  /\ sent[j].pkt.ttl = ttl /\ sent[j].pkt.daddr = Dest
             /\ ~icmp_route =>
                  /\ sent[j].pkt.source = sent[j].pkt.dest
                  /\ (sent[j].pkt.dest - UDP_PORT_D) % PROBENB = j
                  /\ (sent[j].pkt.dest - UDP_PORT_D) \div PROBENB = ttl - 1
  <2>1. sent[j].pkt = ProbeOf(j, ttl) /\ ttl \in 1..MAX_HOPS
    BY <1>1 DEF IndC, IndA, PacketInv, HopRange
  <2>2. ttl \in Nat /\ ttl >= 1
    BY <2>1, HopsAssumption
  <2>3. (j + (ttl - 1) * 3) % 3 = j /\ (j + (ttl - 1) * 3) \div 3 = ttl - 1
    BY <2>2
  <2>4. (33434 + j + (ttl - 1) * 3) - 33434 = j + (ttl - 1) * 3
    BY <2>2
  <2> QED
    BY <2>1, <2>3, <2>4 DEF ProbeOf
<1>2. IndC => ProbesOfHop
  BY <1>1 DEF ProbesOfHop
<1> QED
  BY <1>2, InvC, PTL

-----------------------------------------------------------------------------
(* Arrival *)

\* A reader finds the destination on the line exactly when the line names it.
LEMMA ShownDest == Dest \in Shown <=> SeenDest
<1>1. ASSUME NEW j \in Printed, ReadsAs(j, Dest) PROVE SeenDest
  BY <1>1 DEF ReadsAs, SeenDest, Printed
<1>2. ASSUME NEW j \in Probes, line[j].kind = "route", line[j].ip = Dest
      PROVE  j \in Printed /\ ReadsAs(j, Dest)
  BY <1>2 DEF ReadsAs, Printed
<1> QED
  BY <1>1, <1>2, AddrAssumption DEF Shown, SeenDest

LEMMA StepD == IndC /\ ArrivalInv /\ [Next]_vars => ArrivalInv'
<1> SUFFICES ASSUME IndC, ArrivalInv, [Next]_vars PROVE ArrivalInv'
  OBVIOUS
<1>t. index \in Probes /\ line \in [Probes -> Tokens] /\ alive \in BOOLEAN /\ icmp_route \in BOOLEAN
  BY DEF IndC, IndA, TypeOK
<1>b. line = BlankLine => ~SeenDest
  BY DEF SeenDest, BlankLine, Blank
\* A step that prints tok for probe index, which was blank.
<1>p. ASSUME NEW tok, pc = "print", line' = [line EXCEPT ![index] = tok]
      PROVE  SeenDest' <=> SeenDest \/ (tok.kind = "route" /\ tok.ip = Dest)
  <2>1. line[index].kind = "blank"
    BY <1>p, <1>t DEF IndC, LineInv
  <2>2. line'[index] = tok /\ \A j \in Probes : j # index => line'[j] = line[j]
    BY <1>p, <1>t
  <2> QED
    BY <2>1, <2>2, <1>t DEF SeenDest
<1>1. CASE set_signals \/ init_data \/ default_signal
  BY <1>1 DEF set_signals, init_data, default_signal, ArrivalInv, Running
<1>3. CASE start
  <2>1. line' = BlankLine /\ alive' = TRUE /\ pc' = "construct"
    BY <1>3 DEF start, IndC, LineInv
  <2>2. ~SeenDest'
    BY <2>1 DEF SeenDest, BlankLine, Blank
  <2> QED
    BY <2>1, <2>2 DEF ArrivalInv
<1>4. CASE construct_packets \/ send_packet
  BY <1>4 DEF construct_packets, send_packet, ArrivalInv, SeenDest, Running
<1>5. CASE begin_hop
  <2>1. line' = BlankLine /\ alive' = TRUE /\ pc' = "send"
    BY <1>5, <1>t DEF begin_hop, LoopTest
  <2>2. ~SeenDest'
    BY <2>1 DEF SeenDest, BlankLine, Blank
  <2> QED
    BY <2>1, <2>2 DEF ArrivalInv
<1>7. CASE recieve_packet
  <2>1. pc \in Running /\ pc' \in {"send", "print"} /\ line' = line
    BY <1>7 DEF recieve_packet, NextProbe, Running
  <2>2. (~alive => ~alive') /\ (~icmp_route => alive' = alive)
    BY <1>7, <1>t DEF recieve_packet, StillAlive
  <2>3. UNCHANGED <<icmp_route, interrupted>> /\ (SeenDest' <=> SeenDest)
    BY <1>7 DEF recieve_packet, SeenDest
  <2> QED
    BY <2>1, <2>2, <2>3 DEF ArrivalInv
<1>8. CASE recieve_nothing
  BY <1>8 DEF recieve_nothing, NextProbe, ArrivalInv, SeenDest, Running
<1>9. CASE print_star
  <2> DEFINE tok == Star
  <2>0. tok.kind = "star"
    BY DEF Star
  <2> HIDE DEF tok
  <2>a. line' = [line EXCEPT ![index] = tok]
    BY <1>9 DEF print_star, tok
  <2>1. SeenDest' <=> SeenDest
    BY <1>9, <1>p, <2>0, <2>a DEF print_star
  <2> QED
    BY <1>9, <2>1 DEF print_star, NextProbe, ArrivalInv, Running
<1>10. CASE print_route
  <2> DEFINE ip == retpack[index].saddr
  <2>1. pc = "print" /\ recieved[index] /\ ~Faults
    BY <1>10, NoFault DEF print_route, IndC
  <2>2. pc' \in {"print", "free"} /\ UNCHANGED <<icmp_route, interrupted>>
    BY <1>10, <2>1 DEF print_route, NextProbe
  <2>3. CASE print_same(ip)
    <3> DEFINE tok == TimeOnly(probeTimes[index])
    <3>0. tok.kind = "time"
      BY DEF TimeOnly
    <3>2. line' = [line EXCEPT ![index] = tok] /\ alive' = alive
      BY <2>3 DEF print_same
    <3> HIDE DEF tok
    <3>1. (SeenDest' <=> SeenDest) /\ alive' = alive
      BY <2>1, <1>p, <3>0, <3>2
    <3> QED
      BY <3>1, <2>1, <2>2 DEF ArrivalInv, Running
  <2>4. CASE print_new(ip)
    <3> DEFINE tok == Route(resDns'[index], ip, probeTimes[index])
    <3>1. tok.kind = "route" /\ tok.ip = ip
      BY DEF Route
    <3>2. line' = [line EXCEPT ![index] = tok] /\ alive' = (alive /\ ip # Dest)
      BY <2>4 DEF print_new
    <3> HIDE DEF tok
    <3>3. SeenDest' <=> SeenDest \/ ip = Dest
      BY <2>1, <3>1, <3>2, <1>p
    <3> QED
      BY <3>2, <3>3, <2>1, <2>2 DEF ArrivalInv, Running
  <2> QED
    BY <2>3, <2>4, <1>10, <2>1, SameAddress DEF IndC, IndA
<1>11. CASE end_hop
  BY <1>11 DEF end_hop, ArrivalInv, SeenDest, Running
<1>12. CASE finish
  BY <1>12 DEF finish, LoopTest, ArrivalInv, SeenDest, Running
<1>13. CASE kill_program
  BY <1>13 DEF kill_program, prog, ArrivalInv, SeenDest, Running, Ended
<1>15. ASSUME NEW m \in Msgs, arrive(m) PROVE ArrivalInv'
  BY <1>15 DEF arrive, prog, ArrivalInv, SeenDest
<1>16. CASE UNCHANGED vars
  BY <1>16 DEF vars, prog, ArrivalInv, SeenDest
<1> QED
  BY <1>1, <1>3, <1>4, <1>5, <1>7, <1>8, <1>9, <1>10, <1>11, <1>12, <1>13,
     <1>15, <1>16 DEF Next, Program, Environment, ended

LEMMA InvD == Spec => []ArrivalInv
<1>1. Init => ArrivalInv
  BY DEF Init, ArrivalInv, Running
<1> QED
  BY <1>1, InvC, StepD, PTL DEF Spec

\* No hop is probed after the destination was shown, although print_route
\* returns before its destination test when an address repeats.
THEOREM ArrivalStopsCorrect == Spec => []ArrivalStops
<1>1. ArrivalInv => ArrivalStops
  BY ShownDest DEF ArrivalInv, ArrivalStops
<1> QED
  BY <1>1, InvD, PTL

\* In UDP mode only a signal, MAX_HOPS or the destination on the line end the
\* trace, whatever ICMP traffic reaches the socket.
THEOREM StopsAtDestUdpCorrect == Spec => []StopsAtDestUdp
<1>1. ArrivalInv => StopsAtDestUdp
  BY ShownDest DEF ArrivalInv, StopsAtDest, StopsAtDestUdp
<1> QED
  BY <1>1, InvD, PTL

-----------------------------------------------------------------------------
(* Action properties *)

\* No step of the running program takes back a stop.
THEOREM StopIsFinalCorrect == Spec => StopIsFinal
<1>1. IndC /\ [Next]_vars => [(pc \in Running /\ ~alive) => ~(alive')]_vars
  BY DEF IndC, IndA, TypeOK, Next, Program, Environment, ended, Running, Ended,
     set_signals, init_data, start, construct_packets, begin_hop, send_packet,
     recieve_packet, StillAlive, recieve_nothing, print_star, print_route,
     print_same, print_new, end_hop, finish, kill_program, default_signal, arrive, vars
<1> QED
  BY <1>1, InvC, PTL DEF Spec, StopIsFinal

\* A pointer to a block is overwritten by the freeing functions only.
THEOREM NoLeakCorrect == Spec => NoLeak
<1> DEFINE A == \A j \in Probes :
       /\ retpack[j] # NULL /\ retpack'[j] # retpack[j] => pc' \in {"loop", "done"}
       /\ resIps[j] # NULL /\ resIps'[j] # resIps[j] => pc' \in {"loop", "done"}
       /\ resDns[j] # NULL /\ resDns'[j] # resDns[j] => pc' \in {"loop", "done"}
<1>1. ASSUME IndC, [Next]_vars PROVE A
  <2>t. index \in Probes /\ retpack \in [Probes -> Msgs \cup {NULL}]
        /\ resIps \in [Probes -> Addrs \cup {NULL}] /\ resDns \in [Probes -> Addrs \cup {NULL}]
    BY <1>1 DEF IndC, IndA, TypeOK
  <2>1. CASE recieve_packet \/ recieve_nothing
    <3>1. retpack[index] = NULL
      BY <1>1, <2>1, <2>t DEF recieve_packet, recieve_nothing, IndC, ReplyInv
    <3>2. \A j \in Probes : j # index => retpack'[j] = retpack[j]
      BY <2>1, <2>t DEF recieve_packet, recieve_nothing
    <3>3. UNCHANGED names
      BY <2>1 DEF recieve_packet, recieve_nothing
    <3> QED
      BY <3>1, <3>2, <3>3 DEF names
  <2>2. CASE print_route
    <3>1. pc = "print" /\ recieved[index] /\ ~Faults /\ retpack' = retpack
      BY <1>1, <2>2, NoFault DEF print_route, replies, IndC
    <3>2. resIps[index] = NULL /\ resDns[index] = NULL
      BY <1>1, <3>1, <2>t DEF IndC, ReplyInv
    <3>3. PICK dns : get_address(dns)
      BY <2>2, <3>1 DEF print_route
    <3>4. \A j \in Probes : j # index => resIps'[j] = resIps[j] /\ resDns'[j] = resDns[j]
      BY <2>t, <3>3 DEF get_address
    <3> QED
      BY <3>1, <3>2, <3>4
  <2>3. CASE end_hop \/ finish
    BY <2>3 DEF end_hop, finish
  <2>4. ASSUME ~recieve_packet, ~recieve_nothing, ~print_route, ~end_hop, ~finish
        PROVE  UNCHANGED <<retpack, resIps, resDns>>
    BY <1>1, <2>4 DEF Next, Program, Environment, ended, vars, replies, names,
       set_signals, init_data, start, construct_packets, begin_hop, send_packet,
       print_star, kill_program, default_signal, arrive
  <2> QED
    BY <2>1, <2>2, <2>3, <2>4
<1>2. A => [A]_vars
  OBVIOUS
<1>3. IndC /\ [Next]_vars => [A]_vars
  BY <1>1, <1>2
<1> QED
  BY <1>3, InvC, PTL DEF Spec, NoLeak

-----------------------------------------------------------------------------
(* Traceroute implements RouteTrace: each step of the program is a step of  *)
(* the abstract trace or leaves what can be read of it unchanged.           *)

\* A line starts with a star or an address, and an address token has one.
LineShape ==
  /\ line[0].kind # "time"
  /\ \A j \in Probes : line[j].kind = "route" => line[j].ip \in Addrs

LEMMA InitE == Init => LineShape
BY DEF Init, LineShape, BlankLine, Blank

LEMMA StepE == IndC /\ LineShape /\ [Next]_vars => LineShape'
<1> SUFFICES ASSUME IndC, LineShape, [Next]_vars PROVE LineShape'
  OBVIOUS
<1>t. index \in Probes /\ line \in [Probes -> Tokens]
  BY DEF IndC, IndA, TypeOK
<1>1. CASE begin_hop
  BY <1>1 DEF begin_hop, LineShape, BlankLine, Blank
<1>2. CASE print_star
  <2> DEFINE tok == Star
  <2>1. tok.kind = "star"
    BY DEF Star
  <2>2. line' = [line EXCEPT ![index] = tok]
    BY <1>2 DEF print_star
  <2> HIDE DEF tok
  <2> QED
    BY <1>t, <2>1, <2>2 DEF LineShape
<1>3. CASE print_route
  <2> DEFINE ip == retpack[index].saddr
  <2>1. ~Faults /\ pc = "print" /\ recieved[index]
    BY <1>3, NoFault DEF print_route, IndC
  <2>2. ip \in Addrs
    BY <2>1, <1>t, MsgAssumption DEF Faults, IndC, IndA, TypeOK
  <2>3. print_same(ip) \/ print_new(ip)
    BY <1>3, <2>1, SameAddress DEF IndC, IndA
  <2>4. CASE print_same(ip)
    <3> DEFINE tok == TimeOnly(probeTimes[index])
    <3>1. tok.kind = "time"
      BY DEF TimeOnly
    <3>2. line' = [line EXCEPT ![index] = tok] /\ index # 0
      BY <2>4 DEF print_same, ComparesWithPrevious
    <3> HIDE DEF tok
    <3> QED
      BY <1>t, <3>1, <3>2 DEF LineShape
  <2>5. CASE print_new(ip)
    <3> DEFINE tok == Route(resDns'[index], ip, probeTimes[index])
    <3>1. tok.kind = "route" /\ tok.ip = ip
      BY DEF Route
    <3>2. line' = [line EXCEPT ![index] = tok]
      BY <2>5 DEF print_new
    <3> HIDE DEF tok
    <3> QED
      BY <1>t, <2>2, <3>1, <3>2 DEF LineShape
  <2> QED
    BY <2>3, <2>4, <2>5
<1>4. CASE UNCHANGED line
  BY <1>4 DEF LineShape
<1>5. ASSUME ~begin_hop, ~print_star, ~print_route PROVE UNCHANGED line
  BY <1>5 DEF Next, Program, Environment, ended, vars, set_signals, init_data,
     start, construct_packets, send_packet, recieve_packet, recieve_nothing,
     end_hop, finish, kill_program, default_signal, arrive
<1> QED
  BY <1>1, <1>2, <1>3, <1>4, <1>5

-----------------------------------------------------------------------------
(* Reading the line *)

\* The destination is among the results exactly when the line names it.
LEMMA ArrivedSeen == LineShape => (RT!Arrived <=> SeenDest)
<1> SUFFICES ASSUME LineShape PROVE RT!Arrived <=> SeenDest
  OBVIOUS
<1>1. ASSUME NEW j \in Probes, Dest \in resultsRead[j] PROVE SeenDest
  <2>1. TokenRead(j).kind = "route" /\ TokenRead(j).ip = Dest
    BY <1>1 DEF resultsRead
  <2>2. PICK k \in Probes : TokenRead(j) = line[k]
    BY DEF TokenRead, LineShape
  <2> QED
    BY <2>1, <2>2 DEF SeenDest
<1>2. ASSUME NEW j \in Probes, line[j].kind = "route", line[j].ip = Dest
      PROVE  Dest \in resultsRead[j]
  BY <1>2 DEF resultsRead, TokenRead
<1> QED
  BY <1>1, <1>2 DEF SeenDest, RT!Arrived

\* Printing probe index adds one result and leaves the others.
LEMMA ShowStep ==
  ASSUME IndC, LineShape, LineShape', pc = "print", NEW tok,
         line' = [line EXCEPT ![index] = tok], NextProbe("print", "free"),
         UNCHANGED <<ttl, icmp_route, interrupted>>
  PROVE  \E res \in RT!Results : RT!Show(res)
<1>t. index \in Probes /\ line \in [Probes -> Tokens]
  BY DEF IndC, IndA, TypeOK
<1>1. \A j \in Probes : j # index => line'[j] = line[j]
  BY <1>t
<1>2. \A j \in Probes : ~(j < index) => line[j].kind = "blank"
  BY DEF IndC, LineInv
<1>3. ASSUME NEW j \in Probes, j # index PROVE resultsRead'[j] = resultsRead[j]
  <2>1. CASE j < index
    <3>1. TokenRead(j)' = TokenRead(j)
      BY <1>1, <1>3, <2>1, <1>t DEF TokenRead, LineShape
    <3> QED
      BY <3>1 DEF resultsRead
  <2>2. CASE ~(j < index)
    <3>1. line'[j] = line[j] /\ line[j].kind = "blank"
      BY <1>1, <1>2, <1>3, <2>2
    <3> QED
      BY <3>1 DEF resultsRead, TokenRead
  <2> QED
    BY <2>1, <2>2
<1>4. resultsRead'[index] \in RT!Results
  <2>1. PICK i \in Probes : i = index
    BY <1>t
  <2>2. PICK k \in Probes : TokenRead(i)' = line'[k]
    BY DEF TokenRead, LineShape
  <2>3. resultsRead'[i] = IF TokenRead(i)'.kind = "route" THEN {TokenRead(i)'.ip} ELSE {}
    BY DEF resultsRead
  <2>4. line'[k].kind = "route" => line'[k].ip \in Addrs
    BY DEF LineShape
  <2> QED
    BY <2>1, <2>2, <2>3, <2>4 DEF RT!Results
<1>5. resultsRead' = [resultsRead EXCEPT ![index] = resultsRead'[index]]
  BY <1>3, <1>t DEF resultsRead
<1>6. shownRead = index /\ shownRead' = index + 1
  BY <1>t DEF shownRead, NextProbe
<1>7. UNCHANGED <<hopRead, excuseRead, statusRead>> /\ statusRead = "tracing"
  BY DEF hopRead, excuseRead, statusRead, NextProbe, InHop, Ended
<1> QED
  BY <1>4, <1>5, <1>6, <1>7, <1>t DEF RT!Show

-----------------------------------------------------------------------------
(* Every step is an abstract step or a stutter *)

LEMMA InitRT == Init => RT!Init
<1> SUFFICES ASSUME Init PROVE RT!Init
  OBVIOUS
<1>1. /\ pc = "parsed" /\ ttl = 0 /\ icmp_route \in BOOLEAN /\ interrupted = FALSE
      /\ \A j \in Probes : line[j].kind = "blank"
  BY DEF Init, BlankLine, Blank
<1>2. resultsRead = [j \in Probes |-> {}]
  BY <1>1 DEF resultsRead, TokenRead
<1> QED
  BY <1>1, <1>2 DEF RT!Init, RT!Nothing, hopRead, shownRead, excuseRead, statusRead, InHop, Ended

LEMMA StepRT ==
  IndC /\ ArrivalInv /\ LineShape /\ LineShape' /\ [Next]_vars => [RT!Next]_(RT!vars)
<1> SUFFICES ASSUME IndC, ArrivalInv, LineShape, LineShape', [Next]_vars
             PROVE  RT!Next \/ UNCHANGED RT!vars
  OBVIOUS
<1>t. /\ index \in Probes /\ line \in [Probes -> Tokens]
      /\ ttl \in 0..MAX_HOPS+1 /\ MAX_HOPS \in Nat
      /\ alive \in BOOLEAN /\ icmp_route \in BOOLEAN /\ interrupted \in BOOLEAN
  BY HopsAssumption DEF IndC, IndA, TypeOK
<1>h. HopRange
  BY DEF IndC, IndA
\* What is read of the line depends on nothing else.
<1>l. ASSUME UNCHANGED line PROVE UNCHANGED resultsRead
  BY <1>l DEF resultsRead, TokenRead
<1>1. CASE set_signals
  <2>1. UNCHANGED <<hopRead, shownRead, excuseRead, statusRead, resultsRead>>
    BY <1>1, <1>l DEF set_signals, hopRead, shownRead, excuseRead, statusRead, InHop, Ended
  <2> QED
    BY <2>1 DEF RT!vars
<1>2. CASE init_data
  <2>0. ttl = 0
    BY <1>2, <1>h DEF init_data, HopRange
  <2>1. CASE pc' = "head"
    <3>1. UNCHANGED <<hopRead, shownRead, excuseRead, statusRead, resultsRead>>
      BY <1>2, <2>0, <2>1, <1>l DEF init_data, hopRead, shownRead, excuseRead, statusRead, InHop, Ended
    <3> QED
      BY <3>1 DEF RT!vars
  <2>2. CASE pc' = "exit1"
    <3>1. /\ UNCHANGED <<hopRead, shownRead, resultsRead>> /\ shownRead = PROBENB
          /\ excuseRead' = TRUE /\ statusRead = "tracing" /\ statusRead' = "ended"
      BY <1>2, <2>0, <2>2, <1>l DEF init_data, hopRead, shownRead, excuseRead, statusRead, InHop, Ended
    <3> QED
      BY <3>1 DEF RT!Next, RT!End
  <2> QED
    BY <1>2, <2>1, <2>2 DEF init_data
<1>3. CASE start \/ construct_packets
  <2>1. UNCHANGED <<hopRead, shownRead, excuseRead, statusRead, resultsRead>>
    BY <1>3, <1>l DEF start, construct_packets, hopRead, shownRead, excuseRead, statusRead, InHop, Ended
  <2> QED
    BY <2>1 DEF RT!vars
<1>5. CASE begin_hop
  <2>1. ttl \in 1..MAX_HOPS
    BY <1>5, <1>h, <1>t DEF begin_hop, LoopTest, HopRange
  <2>2. ~RT!Arrived
    BY <1>5, ArrivedSeen DEF begin_hop, LoopTest, ArrivalInv, Running
  <2>3. /\ hopRead = ttl - 1 /\ hopRead' = ttl /\ shownRead = PROBENB /\ shownRead' = 0
        /\ UNCHANGED <<excuseRead, statusRead>> /\ statusRead = "tracing"
    BY <1>5, <2>1 DEF begin_hop, hopRead, shownRead, excuseRead, statusRead, InHop, Ended
  <2>4. resultsRead' = [j \in Probes |-> {}]
    BY <1>5 DEF begin_hop, resultsRead, TokenRead, BlankLine, Blank
  <2> QED
    BY <2>1, <2>2, <2>3, <2>4, <1>t DEF RT!Next, RT!OpenHop, RT!Nothing
<1>6. CASE send_packet \/ recieve_packet \/ recieve_nothing
  <2>1. /\ UNCHANGED <<ttl, icmp_route, interrupted, line>>
        /\ pc \in {"send", "recv"} /\ pc' \in {"send", "recv", "print"}
        /\ (pc' = "print" => index' = 0)
    BY <1>6 DEF send_packet, recieve_packet, recieve_nothing, NextProbe
  <2>2. UNCHANGED <<hopRead, shownRead, excuseRead, statusRead, resultsRead>>
    BY <2>1, <1>l DEF hopRead, shownRead, excuseRead, statusRead, InHop, Ended
  <2> QED
    BY <2>2 DEF RT!vars
<1>7. CASE print_star
  <2>1. \E res \in RT!Results : RT!Show(res)
    BY <1>7, ShowStep DEF print_star
  <2> QED
    BY <2>1 DEF RT!Next
<1>8. CASE print_route
  <2> DEFINE ip == retpack[index].saddr
  <2>1. pc = "print" /\ ~Faults
    BY <1>8, NoFault DEF print_route, IndC
  <2>2. NextProbe("print", "free") /\ UNCHANGED <<ttl, icmp_route, interrupted>>
    BY <1>8, <2>1 DEF print_route
  <2>3. print_same(ip) \/ print_new(ip)
    BY <1>8, <2>1, SameAddress DEF IndC, IndA
  <2>4. PICK tok : line' = [line EXCEPT ![index] = tok]
    BY <2>3 DEF print_same, print_new
  <2>5. \E res \in RT!Results : RT!Show(res)
    BY <2>1, <2>2, <2>4, ShowStep
  <2> QED
    BY <2>5 DEF RT!Next
<1>9. CASE end_hop
  <2>1. ttl \in 1..MAX_HOPS
    BY <1>9, <1>h DEF end_hop, HopRange, InHop
  <2>2. UNCHANGED <<hopRead, shownRead, excuseRead, statusRead, resultsRead>>
    BY <1>9, <2>1, <1>t, <1>l DEF end_hop, hopRead, shownRead, excuseRead, statusRead, InHop, Ended
  <2> QED
    BY <2>2 DEF RT!vars
<1>10. CASE finish
  <2>1. ttl \in 1..MAX_HOPS+1
    BY <1>10, <1>h DEF finish, HopRange
  <2>2. /\ UNCHANGED <<hopRead, shownRead, excuseRead, resultsRead>> /\ shownRead = PROBENB
        /\ hopRead = ttl - 1 /\ statusRead = "tracing" /\ statusRead' = "ended"
    BY <1>10, <2>1, <1>l DEF finish, hopRead, shownRead, excuseRead, statusRead, InHop, Ended
  <2>3. CASE ttl = MAX_HOPS + 1
    BY <2>2, <2>3, <1>t DEF RT!Next, RT!End
  <2>4. CASE ttl # MAX_HOPS + 1
    <3>1. ~alive
      BY <1>10, <2>1, <2>4, <1>t DEF finish, LoopTest
    <3>2. icmp_route \/ interrupted \/ SeenDest
      BY <1>10, <3>1 DEF finish, ArrivalInv, Running
    <3>3. RT!Arrived \/ excuseRead = TRUE
      BY <3>2, ArrivedSeen DEF excuseRead
    <3> QED
      BY <2>2, <3>3 DEF RT!Next, RT!End
  <2> QED
    BY <2>3, <2>4
<1>11. CASE kill_program
  <2>1. UNCHANGED <<hopRead, shownRead, statusRead, resultsRead>> /\ statusRead = "tracing"
    BY <1>11, <1>l DEF kill_program, prog, hopRead, shownRead, statusRead, Ended
  <2>2. CASE pc \in Running
    <3>1. excuseRead' = TRUE
      BY <1>11, <2>2 DEF kill_program, excuseRead
    <3> QED
      BY <2>1, <3>1 DEF RT!Next, RT!Excuse
  <2>3. CASE pc \notin Running
    <3>1. UNCHANGED excuseRead
      BY <1>11, <2>3, <1>t DEF kill_program, prog, excuseRead
    <3> QED
      BY <2>1, <3>1 DEF RT!vars
  <2> QED
    BY <2>2, <2>3
<1>12. CASE default_signal
  <2>1. /\ UNCHANGED <<hopRead, shownRead, resultsRead>> /\ shownRead = PROBENB
        /\ excuseRead' = TRUE /\ statusRead = "tracing" /\ statusRead' = "ended"
    BY <1>12, <1>l DEF default_signal, hopRead, shownRead, excuseRead, statusRead, InHop, Ended
  <2> QED
    BY <2>1 DEF RT!Next, RT!End
<1>13. CASE (\E m \in Msgs : arrive(m)) \/ UNCHANGED vars
  <2>1. UNCHANGED <<pc, index, ttl, icmp_route, interrupted, line>>
    BY <1>13 DEF arrive, vars, prog
  <2>2. UNCHANGED <<hopRead, shownRead, excuseRead, statusRead, resultsRead>>
    BY <2>1, <1>l DEF hopRead, shownRead, excuseRead, statusRead
  <2> QED
    BY <2>2 DEF RT!vars
<1> QED
  BY <1>1, <1>2, <1>3, <1>5, <1>6, <1>7, <1>8, <1>9, <1>10, <1>11, <1>12, <1>13
     DEF Next, Program, Environment, ended

\* The program keeps the promise of RouteTrace for every MAX_HOPS, whatever
\* ICMP traffic and signals it meets.
THEOREM RefinementCorrect == Spec => ImplementsRouteTrace
<1>1. Spec => []LineShape
  <2>1. Init => LineShape
    BY InitE
  <2> QED
    BY <2>1, StepE, InvC, PTL DEF Spec
<1> QED
  BY <1>1, InitRT, StepRT, InvC, InvD, PTL DEF Spec, ImplementsRouteTrace, RT!Spec
=============================================================================
