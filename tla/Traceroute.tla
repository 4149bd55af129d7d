----------------------------- MODULE Traceroute -----------------------------
(***************************************************************************)
(* The ft_traceroute process from the return of parse_dest to its exit:    *)
(* the hop loop of main.c, the probes of send.c, the receiver of recieve.c *)
(* and the hop line of output.c, run against an ICMP raw socket on which   *)
(* any ICMP packet the host is sent may show up at any moment, and against *)
(* SIGINT/SIGALRM, whose handler runs between any two steps.               *)
(*                                                                         *)
(* Data is abstracted to what the properties tell apart.  An IP address, a *)
(* sockaddr_in and the text inet_ntop makes of it are one value (the text  *)
(* is canonical, so comparing texts is comparing addresses), and a DNS     *)
(* name is the address it was looked up for.  A wall-clock stamp is the    *)
(* number of the hop in which gettimeofday was called.                     *)
(***************************************************************************)
EXTENDS Integers, Sequences

CONSTANTS
  MAX_HOPS,  \* largest ttl probed (30 in the header file)
  Addrs,     \* IP addresses
  Dest,      \* the address parse_dest resolved: destIp and, at first, networkIp
  Msgs,      \* ICMP packets the socket can deliver: records with at least
             \* saddr (IP source) and type (the byte read as icmpHeader.type)
  RCVQ_MAX,  \* packets the socket's receive buffer holds; the kernel drops more
  NULL       \* the C null pointer

\* The ttl travels in an 8-bit header field.
ASSUME HopsAssumption == MAX_HOPS \in Nat /\ 1 <= MAX_HOPS /\ MAX_HOPS <= 255
ASSUME AddrAssumption == Dest \in Addrs /\ NULL \notin Addrs
ASSUME MsgAssumption == /\ NULL \notin Msgs
                        /\ \A m \in Msgs : m.saddr \in Addrs /\ m.type \in Nat
ASSUME QueueAssumption == RCVQ_MAX \in Nat

PROBENB == 3
UDP_PORT_D == 33434
UDP_PORT_S == 33434
ICMP_ECHOREPLY == 0
Probes == 0..PROBENB-1

VARIABLES
  pc,          \* where main() is
  index,       \* the loop variable of send_recieve and print_probes_output
  ttl, alive, icmp_route, networkIp,                       \* fields of data
  sendpack, retpack, sendTime, recieved, resIps, resDns, probeTimes,
  sent,        \* sent[j]: datagram sendto took for probe j of this hop, or NULL
  line,        \* line[j]: what has been printed for probe j of this hop
  rcvq,        \* the socket's receive queue
  interrupted  \* history: a signal was handled after main set data.alive

prog == <<pc, index>>
packets == <<sendpack, sent, sendTime>>
replies == <<retpack, recieved, probeTimes>>
names == <<resIps, resDns>>
vars == <<prog, ttl, alive, icmp_route, networkIp, packets, replies, names,
          line, rcvq, interrupted>>

Nulls == [j \in Probes |-> NULL]

\* Control points: before the loop, inside it, and after the process ended.
Running == {"construct", "loop", "send", "recv", "print", "free"}
InHop == {"send", "recv", "print", "free"}
Ended == {"done", "exit1", "killed", "segv"}

\* What the program prints for a probe: nothing yet, a star, a bare time, or a
\* name, an address and a time.
Blank == [kind |-> "blank", name |-> NULL, ip |-> NULL, ms |-> <<0, 0>>]
Star == [kind |-> "star", name |-> NULL, ip |-> NULL, ms |-> <<0, 0>>]
TimeOnly(ms) == [kind |-> "time", name |-> NULL, ip |-> NULL, ms |-> ms]
Route(name, ip, ms) == [kind |-> "route", name |-> name, ip |-> ip, ms |-> ms]
BlankLine == [j \in Probes |-> Blank]

-----------------------------------------------------------------------------
(* Packets *)

\* A probe as construct_packet builds it.  sequence is set in ICMP mode only,
\* the ports in UDP mode only; the fields of the other header are left 0.
construct_packet(j) ==
  [ttl |-> ttl % 256, daddr |-> networkIp,
   source |-> IF icmp_route THEN 0 ELSE (UDP_PORT_S + j) % 65536,
   dest |-> IF icmp_route THEN 0 ELSE (UDP_PORT_D + j) % 65536,
   sequence |-> IF icmp_route THEN ttl ELSE 0]

\* Mutated: the ttl is left as constructed.
update_packet_old_ttl(j) ==
  [ttl |-> sendpack[j].ttl, daddr |-> sendpack[j].daddr,
   source |-> (UDP_PORT_S + j + (ttl - 1) * 3) % 65536,
   dest |-> (UDP_PORT_D + j + (ttl - 1) * 3) % 65536,
   sequence |-> sendpack[j].sequence]

\* update_packets rewrites the ttl and, in UDP mode, both ports.  The ICMP
\* header, its sequence and checksum included, stays as constructed.
update_packet(j) ==
  [ttl |-> ttl % 256, daddr |-> sendpack[j].daddr,
   source |-> IF icmp_route THEN sendpack[j].source
              ELSE (UDP_PORT_S + j + (ttl - 1) * 3) % 65536,
   dest |-> IF icmp_route THEN sendpack[j].dest
            ELSE (UDP_PORT_D + j + (ttl - 1) * 3) % 65536,
   sequence |-> sendpack[j].sequence]

-----------------------------------------------------------------------------
(* main() before the loop.  data is a zero-initialised global. *)

Init ==
  /\ pc = "parsed" /\ index = 0
  /\ ttl = 0 /\ alive = FALSE /\ icmp_route \in BOOLEAN /\ networkIp = Dest
  /\ sendpack = Nulls /\ sent = Nulls /\ sendTime = [j \in Probes |-> 0]
  /\ retpack = Nulls /\ recieved = [j \in Probes |-> FALSE]
  /\ probeTimes = [j \in Probes |-> <<0, 0>>]
  /\ resIps = Nulls /\ resDns = Nulls
  /\ line = BlankLine /\ rcvq = <<>> /\ interrupted = FALSE

set_signals ==
  /\ pc = "parsed" /\ pc' = "signals"
  /\ UNCHANGED <<index, ttl, alive, icmp_route, networkIp, packets, replies,
                 names, line, rcvq, interrupted>>

\* create_socket leaves the process with exit(1) when socket() fails.
init_data ==
  /\ pc = "signals" /\ ttl' = 1
  /\ pc' \in {"head", "exit1"}
  /\ UNCHANGED <<index, alive, icmp_route, networkIp, packets, replies, names,
                 line, rcvq, interrupted>>

\* print_head, then data.alive = true, whatever a signal did to it before.
start ==
  /\ pc = "head" /\ pc' = "construct" /\ alive' = TRUE
  /\ UNCHANGED <<index, ttl, icmp_route, networkIp, packets, replies, names,
                 line, rcvq, interrupted>>

construct_packets ==
  /\ pc = "construct" /\ pc' = "loop"
  /\ sendpack' = [j \in Probes |-> construct_packet(j)]
  /\ UNCHANGED <<index, ttl, alive, icmp_route, networkIp, sent, sendTime,
                 replies, names, line, rcvq, interrupted>>

-----------------------------------------------------------------------------
(* One hop: while (data.ttl <= MAX_HOPS && data.alive) { ... } *)

\* One turn of a loop over the probes: the next probe, or out to the next phase.
NextProbe(again, after) ==
  /\ pc' = IF index = PROBENB - 1 THEN after ELSE again
  /\ index' = IF index = PROBENB - 1 THEN 0 ELSE index + 1

\* Mutated: one hop too many; no look at alive.
LoopTest_off_by_one == ttl <= MAX_HOPS + 1 /\ alive
LoopTest_blind == ttl <= MAX_HOPS

LoopTest == ttl <= MAX_HOPS /\ alive

\* The loop test, update_packets, and the head of send_recieve: the flags are
\* cleared and the ttl opens a new line.
begin_hop ==
  /\ pc = "loop" /\ LoopTest
  /\ pc' = "send" /\ index' = 0
  /\ sendpack' = IF ttl # 1 THEN [j \in Probes |-> update_packet(j)] ELSE sendpack
  /\ recieved' = [j \in Probes |-> FALSE]
  /\ line' = BlankLine /\ sent' = Nulls
  /\ UNCHANGED <<ttl, alive, icmp_route, networkIp, sendTime, retpack,
                 probeTimes, names, rcvq, interrupted>>

\* sendto takes the packet, or fails and is only reported; either way the time
\* is stamped and the program goes on to wait for a reply.
send_packet ==
  /\ pc = "send" /\ pc' = "recv"
  /\ sent' \in {sent, [sent EXCEPT ![index] = [pkt |-> sendpack[index], to |-> networkIp]]}
  /\ sendTime' = [sendTime EXCEPT ![index] = ttl]
  /\ UNCHANGED <<index, ttl, alive, icmp_route, networkIp, sendpack, replies,
                 names, line, rcvq, interrupted>>

\* Mutated: the echo reply test without the mode, one without the type, and an
\* assignment that overrides an earlier stop.
StillAlive_any_mode(m) == alive /\ m.type # ICMP_ECHOREPLY
StillAlive_any_type(m) == alive /\ ~icmp_route
StillAlive_assigned(m) == ~(icmp_route /\ m.type = ICMP_ECHOREPLY)

\* In ICMP mode an echo reply, whoever sent it, ends the trace.
StillAlive(m) == alive /\ ~(icmp_route /\ m.type = ICMP_ECHOREPLY)

\* recvfrom returns the packet at the head of the queue, and its source
\* address into data.networkIp.  The packet is taken for the reply to this
\* probe without a look at what it answers.
recieve_packet ==
  /\ pc = "recv" /\ rcvq # <<>>
  /\ LET m == Head(rcvq) IN
       /\ networkIp' = m.saddr
       /\ retpack' = [retpack EXCEPT ![index] = m]
       /\ alive' = StillAlive(m)
  /\ probeTimes' = [probeTimes EXCEPT ![index] = <<sendTime[index], ttl>>]
  /\ recieved' = [recieved EXCEPT ![index] = TRUE]
  /\ rcvq' = Tail(rcvq)
  /\ NextProbe("send", "print")
  /\ UNCHANGED <<ttl, icmp_route, packets, names, line, interrupted>>

\* recvfrom fails: SO_RCVTIMEO ran out, or a signal interrupted the wait.
recieve_nothing ==
  /\ pc = "recv" /\ rcvq = <<>>
  /\ retpack' = [retpack EXCEPT ![index] = NULL]
  /\ recieved' = [recieved EXCEPT ![index] = FALSE]
  /\ NextProbe("send", "print")
  /\ UNCHANGED <<ttl, alive, icmp_route, networkIp, packets, probeTimes, names,
                 line, rcvq, interrupted>>

print_star ==
  /\ pc = "print" /\ ~recieved[index]
  /\ line' = [line EXCEPT ![index] = Star]
  /\ NextProbe("print", "free")
  /\ UNCHANGED <<ttl, alive, icmp_route, networkIp, packets, replies, names,
                 rcvq, interrupted>>

\* Mutated: the address is taken from networkIp.
get_address_network(dns) ==
  /\ resDns' = [resDns EXCEPT ![index] = IF dns # NULL THEN dns ELSE @]
  /\ resIps' = [resIps EXCEPT ![index] = networkIp]

\* get_address: dns is the name getnameinfo found, NULL when it found none.
get_address(dns) ==
  /\ resDns' = [resDns EXCEPT ![index] = IF dns # NULL THEN dns ELSE @]
  /\ resIps' = [resIps EXCEPT ![index] = retpack[index].saddr]

\* Mutated: the previous probe is taken to have an address.
Compares_unguarded == index # 0

\* print_route compares this probe's address with the one before it ...
ComparesWithPrevious == index # 0 /\ recieved[index - 1]
\* ... and reads through a null pointer if there is none to compare with.
Faults == \/ retpack[index] = NULL
          \/ ComparesWithPrevious /\ resIps[index - 1] = NULL

\* The address repeats: only the time is printed, and the function returns
\* before the comparison with the destination.
print_same(ip) ==
  /\ ComparesWithPrevious /\ ip = resIps[index - 1]
  /\ line' = [line EXCEPT ![index] = TimeOnly(probeTimes[index])]
  /\ UNCHANGED alive

\* Mutated: arrival is judged by networkIp.
print_new_network(ip) ==
  /\ ~(ComparesWithPrevious /\ ip = resIps[index - 1])
  /\ line' = [line EXCEPT ![index] = Route(resDns'[index], ip, probeTimes[index])]
  /\ alive' = (alive /\ ip # networkIp)

print_new(ip) ==
  /\ ~(ComparesWithPrevious /\ ip = resIps[index - 1])
  /\ line' = [line EXCEPT ![index] = Route(resDns'[index], ip, probeTimes[index])]
  /\ alive' = (alive /\ ip # Dest)

print_route ==
  /\ pc = "print" /\ recieved[index]
  /\ IF Faults
       THEN pc' = "segv" /\ UNCHANGED <<index, names, line, alive>>
       ELSE /\ \E dns \in {NULL, retpack[index].saddr} : get_address(dns)
            /\ print_same(resIps'[index]) \/ print_new(resIps'[index])
            /\ NextProbe("print", "free")
  /\ UNCHANGED <<ttl, icmp_route, networkIp, packets, replies, rcvq, interrupted>>

\* Mutated: the names, or the replies, are forgotten.
free_but_names == retpack' = Nulls /\ resIps' = Nulls /\ UNCHANGED resDns
free_but_replies == resIps' = Nulls /\ resDns' = Nulls /\ UNCHANGED retpack

free_probes_data ==
  /\ retpack' = Nulls /\ resIps' = Nulls /\ resDns' = Nulls

\* Mutated: the ttl is not incremented.
end_hop_same_ttl ==
  /\ pc = "free" /\ pc' = "loop"
  /\ free_probes_data
  /\ UNCHANGED <<index, ttl, alive, icmp_route, networkIp, packets, recieved,
                 probeTimes, line, rcvq, interrupted>>

\* The end of the loop body: free_probes_data(); data.ttl++.
end_hop ==
  /\ pc = "free" /\ pc' = "loop"
  /\ free_probes_data /\ ttl' = ttl + 1
  /\ UNCHANGED <<index, alive, icmp_route, networkIp, packets, recieved,
                 probeTimes, line, rcvq, interrupted>>

\* The loop test fails: free_probes_data(), free_sendpackets_data(), return.
\* networkIp is freed too; a freed pointer is NULL here.
finish ==
  /\ pc = "loop" /\ ~LoopTest
  /\ pc' = "done"
  /\ free_probes_data /\ sendpack' = Nulls /\ networkIp' = NULL
  /\ UNCHANGED <<index, ttl, alive, icmp_route, sent, sendTime, recieved,
                 probeTimes, line, rcvq, interrupted>>

-----------------------------------------------------------------------------
(* The environment *)

\* SIGINT or SIGALRM once set_signals has installed the handler.
kill_program ==
  /\ pc \notin Ended \cup {"parsed"}
  /\ alive' = FALSE
  /\ interrupted' = (interrupted \/ pc \in Running)
  /\ UNCHANGED <<prog, ttl, icmp_route, networkIp, packets, replies, names,
                 line, rcvq>>

\* Before that the default action ends the process.
default_signal ==
  /\ pc = "parsed" /\ pc' = "killed"
  /\ UNCHANGED <<index, ttl, alive, icmp_route, networkIp, packets, replies,
                 names, line, rcvq, interrupted>>

\* An ICMP packet reaches the host: a raw ICMP socket is given every one,
\* whoever it is meant for.
arrive(m) ==
  /\ pc \in Running \cup {"head"} /\ Len(rcvq) < RCVQ_MAX
  /\ rcvq' = Append(rcvq, m)
  /\ UNCHANGED <<prog, ttl, alive, icmp_route, networkIp, packets, replies,
                 names, line, interrupted>>

\* The process is gone.
ended == pc \in Ended /\ UNCHANGED vars

Program ==
  \/ set_signals \/ init_data \/ start \/ construct_packets
  \/ begin_hop \/ send_packet \/ recieve_packet \/ recieve_nothing
  \/ print_star \/ print_route \/ end_hop \/ finish

Environment == kill_program \/ default_signal \/ \E m \in Msgs : arrive(m)

Next == Program \/ Environment \/ ended

Spec == Init /\ [][Next]_vars

\* The process is scheduled, and every system call it makes returns: recvfrom
\* waits at most SO_RCVTIMEO, sendto and getnameinfo do not block for ever.
FairSpec == Spec /\ WF_vars(Program)

-----------------------------------------------------------------------------
(* Properties *)

Stamps == (0..MAX_HOPS) \X (0..MAX_HOPS)
Packets == [ttl : Nat, daddr : Addrs, source : Nat, dest : Nat, sequence : Nat]
Tokens == [kind : {"blank", "star", "time", "route"}, name : Addrs \cup {NULL},
           ip : Addrs \cup {NULL}, ms : Stamps]

\* Every variable has its type.
TypeOK ==
  /\ pc \in Running \cup Ended \cup {"parsed", "signals", "head"}
  /\ index \in Probes
  /\ ttl \in 0..MAX_HOPS+1
  /\ alive \in BOOLEAN /\ icmp_route \in BOOLEAN /\ interrupted \in BOOLEAN
  /\ networkIp \in Addrs \cup {NULL}
  /\ sendpack \in [Probes -> Packets \cup {NULL}]
  /\ sent \in [Probes -> [pkt : Packets, to : Addrs] \cup {NULL}]
  /\ sendTime \in [Probes -> 0..MAX_HOPS]
  /\ retpack \in [Probes -> Msgs \cup {NULL}]
  /\ recieved \in [Probes -> BOOLEAN]
  /\ probeTimes \in [Probes -> Stamps]
  /\ resIps \in [Probes -> Addrs \cup {NULL}]
  /\ resDns \in [Probes -> Addrs \cup {NULL}]
  /\ line \in [Probes -> Tokens]
  /\ rcvq \in Seq(Msgs)

\* print_route never reads through a null pointer, whatever mix of replies
\* and timeouts the hop had: the strcmp of output.c:101 always has an address
\* on both sides (the comment at output.c:97 fears it has not).
NoSegv == pc # "segv"

\* Every datagram of a hop is addressed to the destination in its IP header
\* and carries the hop's ttl, though update_packets runs from the second hop
\* on only and recvfrom keeps overwriting networkIp; in UDP mode its ports
\* tell which probe of which hop it is.
ProbesOfHop ==
  pc \in InHop =>
    \A j \in Probes : sent[j] # NULL =>
      /\ sent[j].pkt.ttl = ttl /\ sent[j].pkt.daddr = Dest
      /\ ~icmp_route =>
           /\ sent[j].pkt.source = sent[j].pkt.dest
           /\ (sent[j].pkt.dest - UDP_PORT_D) % PROBENB = j
           /\ (sent[j].pkt.dest - UDP_PORT_D) \div PROBENB = ttl - 1

\* The probes print_probe_data has printed in this hop.
Printed == {j \in Probes : line[j].kind # "blank"}

\* A reader of the line takes address a for probe j: the last address printed
\* at or before j, with nothing but bare times in between.
ReadsAs(j, a) ==
  \E k \in 0..j : /\ line[k].kind = "route" /\ line[k].ip = a
                  /\ \A l \in k+1..j : line[l].kind = "time"

\* Leaving out a repeated address loses nothing: what a reader of the hop line
\* takes for each probe is the source of the packet recieved for that probe,
\* and a star stands exactly where nothing was recieved.
LineReadsBack ==
  pc \in {"print", "free"} =>
    \A j \in Printed :
      IF recieved[j] THEN ReadsAs(j, retpack[j].saddr) ELSE line[j].kind = "star"

\* Nothing on the line is left over from an earlier hop: a name belongs to the
\* address printed beside it and a time was measured within this hop.
LineIsFresh ==
  pc \in {"print", "free"} =>
    \A j \in Printed :
      /\ line[j].kind = "route" => line[j].name \in {NULL, line[j].ip}
      /\ line[j].kind # "star" => line[j].ms = <<ttl, ttl>>

\* The addresses a reader finds on the current hop line.
Shown == {a \in Addrs : \E j \in Printed : ReadsAs(j, a)}

\* Once the destination is on a line the trace is over: although print_route
\* returns early for a repeated address, no hop starts after it was shown.
ArrivalStops == pc \in Running /\ Dest \in Shown => ~alive

\* A trace that ends before MAX_HOPS without a signal has the destination on
\* its last line.
StopsAtDest ==
  pc = "done" /\ ttl <= MAX_HOPS /\ ~interrupted => Dest \in Shown

\* In UDP mode that is so.
StopsAtDestUdp == ~icmp_route => StopsAtDest

\* Every datagram is handed to sendto with the destination's socket address.
SentToDest == \A j \in Probes : sent[j] # NULL => sent[j].to = Dest

\* A stop is never taken back once the loop can see it, whoever asked for it:
\* the signal handler, recieve_packet or print_route.
StopIsFinal == [][(pc \in Running /\ ~alive) => ~(alive')]_vars

\* A pointer that holds a block is only overwritten by the functions that free
\* the block, so nothing leaks, however the hop went.
NoLeak ==
  [][\A j \in Probes :
       /\ retpack[j] # NULL /\ retpack'[j] # retpack[j] => pc' \in {"loop", "done"}
       /\ resIps[j] # NULL /\ resIps'[j] # resIps[j] => pc' \in {"loop", "done"}
       /\ resDns[j] # NULL /\ resDns'[j] # resDns[j] => pc' \in {"loop", "done"}]_vars

\* The process ends, however much ICMP traffic arrives and however often it is
\* interrupted.
Termination == <>(pc \in Ended)

=============================================================================
