------------------------------ MODULE Parsing ------------------------------
(***************************************************************************)
(* parse_dest of parsing.c: from the command line to the fields of data    *)
(* the trace starts from, or to one of the exits.  An argument is a record *)
(* of what the code can tell about its text: the option it spells, whether *)
(* getaddrinfo resolves it, whether it is all digits, and the number those *)
(* digits spell.                                                           *)
(***************************************************************************)
EXTENDS Integers

CONSTANTS
  Args,       \* [option, resolves, digits, value]
  ARGC_MAX,   \* largest argc, the program's name counted
  INT_RANGE   \* number of values of a C int (2^32)

MAX_PACKET_SIZE == 65000
HEADERS == 28    \* IP header and UDP or ICMP header

Options == {"icmp", "help", "none"}
ASSUME ArgsAssumption ==
  \A a \in Args : /\ a.option \in Options /\ a.resolves \in BOOLEAN
                  /\ a.digits \in BOOLEAN /\ a.value \in Nat
ASSUME ArgcAssumption == ARGC_MAX \in Nat
\* An int tells every acceptable length from a negative number.
ASSUME IntAssumption == INT_RANGE \in Nat /\ INT_RANGE > 2 * MAX_PACKET_SIZE

VARIABLES
  pc,                             \* where parse_dest is
  argc, argv,                     \* argv[0] is not looked at and left out
  icmp_route, icmp_route_index,   \* fields of data
  totalSize, payloadSize,
  dest,                           \* position of the argument given to test_dest, or 0
  packetlen                       \* position of the one given to test_packetlen, or 0

vars == <<pc, argc, argv, icmp_route, icmp_route_index, totalSize, payloadSize, dest, packetlen>>

\* ft_atoi of a string of digits: accumulated in a long long, returned as an int.
ft_atoi(value) ==
  LET r == value % INT_RANGE IN IF 2 * r < INT_RANGE THEN r ELSE r - INT_RANGE

Init ==
  /\ pc = "parse" /\ argc \in 1..ARGC_MAX /\ argv \in [1..argc-1 -> Args]
  /\ icmp_route = FALSE /\ icmp_route_index = 0
  /\ totalSize = 0 /\ payloadSize = 0 /\ dest = 0 /\ packetlen = 0

\* check_icmp_traceroute: the first -I or --icmp decides; 0 is returned, and
\* data left alone, when there is none.
Icmp == {i \in 1..argc-1 : argv[i].option = "icmp"}
check_icmp_traceroute ==
  IF Icmp = {} THEN UNCHANGED <<icmp_route, icmp_route_index>>
  ELSE /\ icmp_route' = TRUE
       /\ icmp_route_index' = CHOOSE i \in Icmp : \A k \in Icmp : i <= k

print_usage ==
  /\ pc = "parse"
  /\ \/ argc = 2 /\ argv[1].option = "help"
     \/ argc = 4 /\ Icmp = {}
     \/ argc \notin 2..4
  /\ pc' = "usage"
  /\ UNCHANGED <<argc, argv, icmp_route, icmp_route_index, totalSize, payloadSize, dest, packetlen>>

\* The three accepted shapes of a command line: which argument is the host and
\* which, if any, the packet length.
parse_2 ==
  /\ pc = "parse" /\ argc = 2 /\ argv[1].option # "help"
  /\ dest' = 1 /\ packetlen' = 0
  /\ UNCHANGED <<icmp_route, icmp_route_index>>

parse_3 ==
  /\ pc = "parse" /\ argc = 3
  /\ check_icmp_traceroute
  /\ IF Icmp # {}
       THEN dest' = (IF icmp_route_index' = 1 THEN 2 ELSE 1) /\ packetlen' = 0
       ELSE dest' = 1 /\ packetlen' = 2

\* Mutated: a flag in the middle is taken for the host.
parse_4_off_by_one ==
  /\ pc = "parse" /\ argc = 4 /\ Icmp # {}
  /\ check_icmp_traceroute
  /\ dest' = IF icmp_route_index' > 2 THEN 1 ELSE 2
  /\ packetlen' = IF icmp_route_index' <= 2 THEN 3 ELSE 2

parse_4 ==
  /\ pc = "parse" /\ argc = 4 /\ Icmp # {}
  /\ check_icmp_traceroute
  /\ dest' = IF icmp_route_index' >= 2 THEN 1 ELSE 2
  /\ packetlen' = IF icmp_route_index' <= 2 THEN 3 ELSE 2

parse_dest ==
  /\ parse_2 \/ parse_3 \/ parse_4
  /\ pc' = "dest"
  /\ UNCHANGED <<argc, argv, totalSize, payloadSize>>

\* test_dest leaves with exit(0) when the host does not resolve.
test_dest ==
  /\ pc = "dest"
  /\ IF argv[dest].resolves
       THEN /\ totalSize' = 60 /\ payloadSize' = totalSize' - HEADERS
            /\ pc' = IF packetlen = 0 THEN "parsed" ELSE "packetlen"
       ELSE pc' = "exit" /\ UNCHANGED <<totalSize, payloadSize>>
  /\ UNCHANGED <<argc, argv, icmp_route, icmp_route_index, dest, packetlen>>

\* Mutated: no upper bound; no minimum; the length taken for the payload's.
Refused_unbounded(arg, len) == ~arg.digits \/ len < 0
Raised_not(len) == len
Raised_payload(len) == len + HEADERS

\* What test_packetlen does not accept, and the minimum it raises to.
Refused(arg, len) == ~arg.digits \/ len < 0 \/ len > MAX_PACKET_SIZE
Raised(len) == IF len < HEADERS THEN HEADERS ELSE len

\* test_packetlen leaves with exit(0) for what is not a number or too big, and
\* raises what is too small.
test_packetlen ==
  /\ pc = "packetlen"
  /\ LET arg == argv[packetlen]
         len == ft_atoi(arg.value)
     IN IF Refused(arg, len)
          THEN pc' = "exit" /\ UNCHANGED <<totalSize, payloadSize>>
          ELSE /\ totalSize' = Raised(len)
               /\ payloadSize' = totalSize' - HEADERS
               /\ pc' = "parsed"
  /\ UNCHANGED <<argc, argv, icmp_route, icmp_route_index, dest, packetlen>>

Ended == {"parsed", "usage", "exit"}
ended == pc \in Ended /\ UNCHANGED vars

Next == print_usage \/ parse_dest \/ test_dest \/ test_packetlen \/ ended

Spec == Init /\ [][Next]_vars

-----------------------------------------------------------------------------
(* Properties *)

\* Every variable has its type.
TypeOK ==
  /\ pc \in {"parse", "dest", "packetlen"} \cup Ended
  /\ argc \in 1..ARGC_MAX /\ argv \in [1..argc-1 -> Args]
  /\ icmp_route \in BOOLEAN /\ icmp_route_index \in 0..argc-1
  /\ totalSize \in Nat /\ payloadSize \in Nat
  /\ dest \in 0..argc-1 /\ packetlen \in 0..argc-1

\* Whatever was given as a length, and whatever int it wrapped to, the packet
\* has room for its headers and its last byte, fits the receive buffer, and the
\* payload is what the headers leave: construct_packet writes within its block.
SizesOK ==
  pc = "parsed" => /\ HEADERS <= totalSize /\ totalSize <= MAX_PACKET_SIZE
                   /\ payloadSize = totalSize - HEADERS

\* The flag may stand at any place: every argument has exactly one of the
\* roles flag, host and length, and the flag's argument is a flag.
RolesPartition ==
  pc \in {"dest", "packetlen", "parsed"} =>
    /\ \A i \in 1..argc-1 : i \in {icmp_route_index, dest, packetlen}
    /\ dest # icmp_route_index /\ dest # packetlen
    /\ icmp_route_index = packetlen => icmp_route_index = 0
    /\ icmp_route => argv[icmp_route_index].option = "icmp"

\* A length an int can hold is used as given, or raised to the minimum.
LengthHonoured ==
  pc = "parsed" /\ packetlen # 0 /\ 2 * argv[packetlen].value < INT_RANGE =>
    totalSize = IF argv[packetlen].value < HEADERS THEN HEADERS ELSE argv[packetlen].value

=============================================================================
