---------------------------- MODULE IcmpChecksum ----------------------------
(***************************************************************************)
(* checksum (send.c) over an ICMP message, one word of the loop per step,  *)
(* and the store of its result.  An octet has OCTET values (256), a word   *)
(* OCTET^2, an unsigned int OCTET^4; the machine is little-endian.         *)
(***************************************************************************)
EXTENDS Integers, Sequences

CONSTANTS OCTET, Messages

WORD == OCTET * OCTET
Octets == 0..OCTET-1

ASSUME OctetAssumption == OCTET \in Nat /\ OCTET > 1

\* A message has its header, the checksum still 0, and its length is such that
\* a total length fits a word (65000 is the most test_packetlen accepts).
ASSUME MessagesAssumption ==
  \A m \in Messages : /\ m \in Seq(Octets) /\ Len(m) >= 4 /\ Len(m) < WORD * 2
                      /\ m[3] = 0 /\ m[4] = 0

VARIABLES
  header,   \* the message, header and payload
  buf,      \* the octets read, the pointer's offset
  len,      \* the octets left
  sum,      \* an unsigned int
  pc        \* "loop", "fold", "done"

vars == <<header, buf, len, sum, pc>>

Init == header \in Messages /\ buf = 0 /\ len = Len(header) /\ sum = 0 /\ pc = "loop"

\* *(unsigned short *) buf
Word == header[buf + 1] + OCTET * header[buf + 2]

\* The sum kept in an unsigned short.
UInt_short(n) == n % WORD

UInt(n) == n % (WORD * WORD)

add_word ==
  /\ pc = "loop" /\ len > 1
  /\ sum' = UInt(sum + Word) /\ buf' = buf + 2 /\ len' = len - 2
  /\ UNCHANGED <<header, pc>>

\* The loop's end when the octet of an odd length is forgotten.
last_octet_lost ==
  /\ pc = "loop" /\ len <= 1
  /\ sum' = sum /\ pc' = "fold" /\ UNCHANGED <<header, buf, len>>

\* The loop's end, with the octet of an odd length.
last_octet ==
  /\ pc = "loop" /\ len <= 1
  /\ sum' = IF len = 1 THEN UInt(sum + header[buf + 1]) ELSE sum
  /\ pc' = "fold" /\ UNCHANGED <<header, buf, len>>

\* Folding without the second carry.
Folded_once(s) == (s \div WORD) + (s % WORD)

Folded(s) == LET t == (s \div WORD) + (s % WORD) IN t + (t \div WORD)

\* The complement kept in an unsigned int.
Complement_wide(s) == WORD * WORD - 1 - s

Complement(s) == WORD - 1 - (s % WORD)

\* The result goes to header->checksum in the order of the machine.
store ==
  /\ pc = "fold" /\ sum' = Folded(sum) /\ pc' = "done"
  /\ header' = [header EXCEPT ![3] = Complement(sum') % OCTET,
                              ![4] = Complement(sum') \div OCTET]
  /\ UNCHANGED <<buf, len>>

done == pc = "done" /\ UNCHANGED vars

Next == add_word \/ last_octet \/ store \/ done
Spec == Init /\ [][Next]_vars

-----------------------------------------------------------------------------
(* Properties *)

TypeOK ==
  /\ header \in Seq(Octets) /\ pc \in {"loop", "fold", "done"}
  /\ sum \in 0..WORD * WORD - 1
  /\ buf \in Nat /\ len \in Nat /\ buf + len = Len(header)

\* The words summed without a bound up to octet i, in the order of the machine or
\* in that of the network: of a word the octet at an even place, or at an odd one,
\* counts OCTET times; an odd last octet is padded with 0.
Host == 0
Network == 1
Weight(m, i, order) == IF i % 2 = order THEN OCTET * m[i] ELSE m[i]
SumsUpTo(m, order) ==
  LET upto[i \in 0..Len(m)] == IF i = 0 THEN 0 ELSE upto[i - 1] + Weight(m, i, order)
  IN upto
NetworkSum(m) == SumsUpTo(m, Network)[Len(m)]

\* The sum of the octets read so far, as no type bounds it, fits an unsigned int
\* and is what the code holds, to the longest packet: no addition has wrapped and
\* no carry is lost before the folding.
SumFits ==
  pc \in {"loop", "fold"} =>
    LET all == SumsUpTo(header, Host)[IF pc = "loop" THEN buf ELSE Len(header)]
    IN all < WORD * WORD /\ sum = all

\* The sum of the words and the checksum is a multiple of WORD - 1: none of the
\* carries that folding drops is lost.
FoldKeepsCarries == [][pc = "fold" => (sum + Complement(sum')) % (WORD - 1) = 0]_vars

\* The receiver of the message accepts it: the words and the checksum, summed
\* with end-around carry, give all ones, though the sender summed them in its
\* own byte order.
ChecksumVerifies ==
  pc = "done" => LET total == NetworkSum(header) IN total # 0 /\ total % (WORD - 1) = 0
=============================================================================
