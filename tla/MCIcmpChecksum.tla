--------------------------- MODULE MCIcmpChecksum ---------------------------
(* Every message of four to eight two-bit octets with an empty checksum, and *)
(* the longest ones, even and odd, of one octet repeated.                   *)
EXTENDS IcmpChecksum

CONSTANT MAXLEN

LONGEST == 2 * WORD - 1

MCMessages ==
  {m \in UNION {[1..n -> Octets] : n \in 4..MAXLEN} : m[3] = 0 /\ m[4] = 0}
  \cup {[i \in 1..n |-> IF i \in {3, 4} THEN 0 ELSE v] : n \in LONGEST-1..LONGEST, v \in Octets}
=============================================================================
