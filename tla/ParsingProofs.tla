---------------------------- MODULE ParsingProofs ----------------------------
(***************************************************************************)
(* Proofs about Parsing for every set of arguments, every length of the    *)
(* command line and every width of an int that holds 2 * MAX_PACKET_SIZE.  *)
(***************************************************************************)
EXTENDS Parsing, TLAPS

\* Every argument has its role, from the moment parse_dest has chosen.
Roles ==
  /\ \A i \in 1..argc-1 : i = icmp_route_index \/ i = dest \/ i = packetlen
  /\ dest \in 1..argc-1 /\ dest # icmp_route_index /\ dest # packetlen
  /\ icmp_route_index = packetlen => icmp_route_index = 0
  /\ icmp_route => argv[icmp_route_index].option = "icmp"

RolesInv ==
  /\ pc = "parse" => icmp_route = FALSE /\ icmp_route_index = 0
  /\ pc \in {"dest", "packetlen", "parsed"} => Roles
  /\ pc = "packetlen" => packetlen # 0

SizesInv ==
  /\ SizesOK /\ LengthHonoured
  /\ pc = "packetlen" => totalSize = 60 /\ payloadSize = 32

Inv == TypeOK /\ RolesInv /\ SizesInv

\* check_icmp_traceroute finds the first flag.
LEMMA FirstFlag ==
  ASSUME argc \in 3..4, Icmp # {}, check_icmp_traceroute
  PROVE  /\ icmp_route' = TRUE
         /\ icmp_route_index' \in 1..argc-1
         /\ argv[icmp_route_index'].option = "icmp"
<1> DEFINE First(i) == \A k \in Icmp : i <= k
<1>1. Icmp \subseteq {1, 2, 3}
  BY DEF Icmp
<1>2. \E i \in Icmp : First(i)
  <2>1. CASE 1 \in Icmp
    BY <1>1, <2>1
  <2>2. CASE 1 \notin Icmp /\ 2 \in Icmp
    BY <1>1, <2>2
  <2>3. CASE 1 \notin Icmp /\ 2 \notin Icmp
    <3>1. PICK i \in Icmp : TRUE
      OBVIOUS
    <3> QED
      BY <1>1, <2>3, <3>1
  <2> QED
    BY <2>1, <2>2, <2>3
<1>3. icmp_route_index' = CHOOSE i \in Icmp : First(i)
  BY DEF check_icmp_traceroute
<1>4. icmp_route_index' \in Icmp
  BY <1>2, <1>3
<1> QED
  BY <1>4 DEF Icmp, check_icmp_traceroute

\* What ft_atoi returns is an int, and the number itself when an int holds it.
LEMMA AtoiInt ==
  ASSUME NEW v \in Nat
  PROVE  /\ ft_atoi(v) \in Int
         /\ 2 * v < INT_RANGE => ft_atoi(v) = v
<1>1. INT_RANGE \in Nat /\ INT_RANGE > 0
  BY IntAssumption DEF MAX_PACKET_SIZE
<1>2. v % INT_RANGE \in Int
  BY <1>1
<1>3. 2 * v < INT_RANGE => v % INT_RANGE = v
  BY <1>1
<1> QED
  BY <1>1, <1>2, <1>3 DEF ft_atoi

LEMMA InitInv == Init => Inv
<1> SUFFICES ASSUME Init PROVE Inv
  OBVIOUS
<1>3. /\ pc = "parse" /\ icmp_route = FALSE /\ icmp_route_index = 0
      /\ totalSize = 0 /\ payloadSize = 0 /\ dest = 0 /\ packetlen = 0
      /\ argc \in 1..ARGC_MAX /\ argv \in [1..argc-1 -> Args]
  BY DEF Init
<1>4. TypeOK
  <2>1. argc \in Nat /\ 0 \in 0..argc-1
    BY <1>3, ArgcAssumption
  <2>2. pc \in {"parse", "dest", "packetlen"} \cup Ended
    BY <1>3
  <2>3. icmp_route \in BOOLEAN
    BY <1>3
  <2>4. icmp_route_index \in 0..argc-1 /\ dest \in 0..argc-1 /\ packetlen \in 0..argc-1
    BY <1>3, <2>1
  <2>5. totalSize \in Nat /\ payloadSize \in Nat
    BY <1>3
  <2> QED
    BY <1>3, <2>2, <2>3, <2>4, <2>5, Zenon DEF TypeOK
<1>5. RolesInv /\ SizesInv
  BY <1>3 DEF RolesInv, SizesInv, SizesOK, LengthHonoured
<1> QED
  BY <1>4, <1>5 DEF Inv

LEMMA StepInv == Inv /\ [Next]_vars => Inv'
<1> SUFFICES ASSUME Inv, [Next]_vars PROVE Inv'
  OBVIOUS
<1> USE DEF Inv
<1>1. CASE print_usage
  BY <1>1 DEF print_usage, TypeOK, RolesInv, SizesInv, SizesOK, LengthHonoured, Ended
<1>2. CASE parse_dest
  <2>1. pc = "parse" /\ pc' = "dest" /\ UNCHANGED <<argc, argv, totalSize, payloadSize>>
    BY <1>2 DEF parse_dest, parse_2, parse_3, parse_4
  <2>2. SizesInv'
    BY <2>1 DEF SizesInv, SizesOK, LengthHonoured
  <2>3. icmp_route = FALSE /\ icmp_route_index = 0 /\ argc \in Nat
    BY <2>1, ArgcAssumption DEF RolesInv, TypeOK
  <2>4. /\ Roles' /\ icmp_route' \in BOOLEAN
        /\ icmp_route_index' \in 0..argc-1 /\ packetlen' \in 0..argc-1
    <3>1. CASE parse_2
      <4>1. /\ dest' = 1 /\ packetlen' = 0 /\ icmp_route' = FALSE /\ icmp_route_index' = 0
            /\ argc = 2 /\ argc' = 2
        BY <3>1, <2>1, <2>3 DEF parse_2
      <4>2. 1..argc-1 = {1} /\ 0..argc-1 = {0, 1}
        BY <4>1
      <4>3. Roles'
        BY <4>1, <4>2, <2>1 DEF Roles
      <4> QED
        BY <4>1, <4>2, <4>3
    <3>2. CASE parse_3 /\ Icmp = {}
      <4>1. /\ dest' = 1 /\ packetlen' = 2 /\ icmp_route' = FALSE /\ icmp_route_index' = 0
            /\ argc = 3 /\ argc' = 3
        BY <3>2, <2>1, <2>3 DEF parse_3, check_icmp_traceroute
      <4>2. 1..argc-1 = {1, 2} /\ 0..argc-1 = {0, 1, 2}
        BY <4>1
      <4>3. Roles'
        BY <4>1, <4>2, <2>1 DEF Roles
      <4> QED
        BY <4>1, <4>2, <4>3
    <3>3. CASE parse_3 /\ Icmp # {}
      <4>0. argc = 3 /\ argc \in 3..4 /\ Icmp # {} /\ check_icmp_traceroute
        BY <3>3 DEF parse_3
      <4>a. /\ icmp_route' = TRUE /\ icmp_route_index' \in 1..argc-1
            /\ argv[icmp_route_index'].option = "icmp"
        BY <4>0, FirstFlag, Zenon
      <4>1. /\ icmp_route' = TRUE /\ icmp_route_index' \in 1..2
            /\ argv[icmp_route_index'].option = "icmp"
        BY <4>0, <4>a
      <4> QED
        BY <3>3, <4>1, <2>1 DEF parse_3, Roles
    <3>4. CASE parse_4
      <4>0. argc = 4 /\ argc \in 3..4 /\ Icmp # {} /\ check_icmp_traceroute
        BY <3>4 DEF parse_4
      <4>a. /\ icmp_route' = TRUE /\ icmp_route_index' \in 1..argc-1
            /\ argv[icmp_route_index'].option = "icmp"
        BY <4>0, FirstFlag, Zenon
      <4>1. /\ icmp_route' = TRUE /\ icmp_route_index' \in 1..3
            /\ argv[icmp_route_index'].option = "icmp"
        BY <4>0, <4>a
      <4> QED
        BY <3>4, <4>1, <2>1 DEF parse_4, Roles
    <3> QED
      BY <1>2, <3>1, <3>2, <3>3, <3>4 DEF parse_dest
  <2>5. TypeOK'
    BY <2>1, <2>4 DEF TypeOK, Roles
  <2>6. RolesInv'
    BY <2>1, <2>4 DEF RolesInv
  <2> QED
    BY <2>2, <2>5, <2>6
<1>3. CASE test_dest
  <2>1. TypeOK'
    BY <1>3 DEF test_dest, TypeOK, Ended, HEADERS
  <2>2. RolesInv'
    BY <1>3 DEF test_dest, RolesInv, Roles
  <2>3. SizesInv'
    BY <1>3 DEF test_dest, SizesInv, SizesOK, LengthHonoured, HEADERS, MAX_PACKET_SIZE
  <2> QED
    BY <2>1, <2>2, <2>3
<1>4. CASE test_packetlen
  <2> DEFINE arg == argv[packetlen]
             len == ft_atoi(arg.value)
             bad == ~arg.digits \/ len < 0 \/ len > MAX_PACKET_SIZE
  <2>1. packetlen \in 1..argc-1 /\ arg \in Args /\ arg.value \in Nat
    BY <1>4, ArgsAssumption DEF test_packetlen, TypeOK, RolesInv
  <2>2. len \in Int /\ (2 * arg.value < INT_RANGE => len = arg.value)
    BY <2>1, AtoiInt
  <2>3. CASE bad
    BY <1>4, <2>3 DEF test_packetlen, Refused, TypeOK, RolesInv, SizesInv, SizesOK, LengthHonoured, Ended
  <2>4. CASE ~bad
    <3>1. len >= 0 /\ len <= MAX_PACKET_SIZE
      BY <2>2, <2>4 DEF MAX_PACKET_SIZE
    <3>2. /\ totalSize' = IF len < HEADERS THEN HEADERS ELSE len
          /\ payloadSize' = totalSize' - HEADERS /\ pc' = "parsed"
          /\ UNCHANGED <<argc, argv, icmp_route, icmp_route_index, dest, packetlen>>
      BY <1>4, <2>4 DEF test_packetlen, Refused, Raised
    <3> HIDE DEF len
    <3>3. totalSize' \in Nat /\ payloadSize' \in Nat
      BY <2>2, <3>1, <3>2 DEF HEADERS
    <3>4. TypeOK'
      BY <3>2, <3>3 DEF TypeOK, Ended
    <3>5. RolesInv'
      BY <3>2, <1>4 DEF RolesInv, Roles, test_packetlen
    <3>6. SizesOK'
      BY <2>2, <3>1, <3>2 DEF SizesOK, HEADERS, MAX_PACKET_SIZE
    <3>7. LengthHonoured'
      BY <2>2, <3>2 DEF LengthHonoured
    <3> QED
      BY <3>2, <3>4, <3>5, <3>6, <3>7 DEF SizesInv
  <2> QED
    BY <2>3, <2>4
<1>5. CASE UNCHANGED vars
  BY <1>5 DEF vars, TypeOK, RolesInv, Roles, SizesInv, SizesOK, LengthHonoured
<1> QED
  BY <1>1, <1>2, <1>3, <1>4, <1>5 DEF Next, ended

LEMMA Invariance == Spec => []Inv
BY InitInv, StepInv, PTL DEF Spec

\* Every state of the parser is well typed, for every command line.
THEOREM ParsingTypeCorrect == Spec => []TypeOK
BY Invariance, PTL DEF Inv

\* The packet size the trace starts from is between the two headers and the
\* receive buffer, whatever number was given and whatever int it wrapped to.
THEOREM SizesCorrect == Spec => []SizesOK
BY Invariance, PTL DEF Inv, SizesInv

\* Flag, host and length are told apart wherever the flag stands.
THEOREM RolesCorrect == Spec => []RolesPartition
<1>1. Inv => RolesPartition
  BY DEF Inv, RolesInv, Roles, RolesPartition
<1> QED
  BY <1>1, Invariance, PTL

\* A length that fits an int is the size of the packet, or the minimum is.
THEOREM LengthCorrect == Spec => []LengthHonoured
BY Invariance, PTL DEF Inv, SizesInv
=============================================================================
