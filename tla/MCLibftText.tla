---------------------------- MODULE MCLibftText ----------------------------
(* Calls of LibftStrings on short texts of two letters and a blank, and of    *)
(* LibftNumbers on every int of ten bits, decimals and dumps.                 *)
EXTENDS LibftNumbers

CONSTANTS x, y

MCLetters == {x, y, MINUS, PLUS, DOT} \cup 0..9
Texts(S, n) == UNION {[1..m -> S] : m \in 0..n}

MCCalls ==
  [f : {"strsplit"}, s : Texts({x, y, BLANK}, 5), c : {x, BLANK, NUL}]
  \cup [f : {"strtrim"}, s : Texts({x, y, BLANK}, 5)]
  \cup [f : {"strstr"}, s : Texts({x, y}, 5), nd : Texts({x, y}, 3)]
  \cup [f : {"strnstr"}, s : Texts({x, y}, 4), nd : Texts({x, y}, 3), n : 0..5]

MCNumberCalls ==
  [f : {"itoa", "putnbr", "sqrt"}, nb : INT_MIN..INT_MAX]
  \cup [f : {"atoi"}, nb : INT_MIN..INT_MAX, before : {<<>>, <<BLANK, BLANK>>},
        after : {<<>>, <<x, 7>>, <<DOT, 1>>}]
  \cup [f : {"atoi"}, nb : {0, 7, INT_MAX}, before : {<<PLUS>>, <<BLANK, PLUS>>}, after : {<<BLANK, 1>>}]
  \cup [f : {"atolf"}, before : {<<MINUS>> \o w : w \in Texts({0, 4}, 2)} \cup Texts({0, 4}, 2),
        after : Texts({0, 9}, 2)]
  \cup [f : {"print_memory"}, base : {2, 8, 16},
        octets : {[k \in 1..n |-> (q * k) % 256] : n \in {0, 1, 4, 5, 9, 18}, q \in {37, 255}}]
  \cup [f : {"print_memory_hexa"},
        octets : {[k \in 1..n |-> (q * k) % 256] : n \in {0, 1, 16, 17, 18, 33}, q \in {37, 255}}]
=============================================================================
