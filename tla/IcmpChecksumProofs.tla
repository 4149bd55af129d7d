------------------------- MODULE IcmpChecksumProofs -------------------------
(***************************************************************************)
(* Proofs about IcmpChecksum for every size of octet and every message.    *)
(***************************************************************************)
EXTENDS IcmpChecksum, TLAPS, WellFoundedInduction

-----------------------------------------------------------------------------
(* Arithmetic *)

LEMMA Times ==
  ASSUME NEW a \in Nat, NEW b \in Nat, NEW c \in Nat, a <= b
  PROVE  a * c <= b * c /\ a * c \in Nat
OBVIOUS

LEMMA ModMultiple ==
  ASSUME NEW m \in Nat, m > 0, NEW k \in Int
  PROVE  (k * m) % m = 0
<1> DEFINE n == k * m
           d == n \div m
           e == n % m
<1>1. n \in Int
  OBVIOUS
<1> HIDE DEF n
<1>2. d \in Int /\ e \in 0..m-1 /\ n = m * d + e
  BY <1>1
<1> SUFFICES e = 0
  BY DEF n
<1> HIDE DEF d, e
<1>3. CASE d = k
  BY <1>2, <1>3 DEF n
<1>4. CASE d < k
  <2>1. (d + 1) * m <= k * m
    BY <1>2, <1>4
  <2> QED
    BY <1>2, <2>1 DEF n
<1>5. CASE d > k
  <2>1. (k + 1) * m <= d * m
    BY <1>2, <1>5
  <2> QED
    BY <1>2, <2>1 DEF n
<1> QED
  BY <1>2, <1>3, <1>4, <1>5

LEMMA WordType == WORD \in Nat /\ WORD >= 4 /\ WORD * WORD \in Nat /\ WORD * WORD >= WORD
<1>1. \A a \in Nat : a > 1 => a * a \in Nat /\ a * a >= 2 * a
  OBVIOUS
<1> QED
  BY <1>1, OctetAssumption DEF WORD

\* Quotient and remainder of a sum by the word.
LEMMA DivMod ==
  ASSUME NEW s \in Nat, s < WORD * WORD
  PROVE  /\ s \div WORD \in 0..WORD-1 /\ s % WORD \in 0..WORD-1
         /\ s = WORD * (s \div WORD) + (s % WORD)
<1> DEFINE q == s \div WORD
           r == s % WORD
<1>1. WORD \in Nat /\ WORD >= 4
  BY WordType
<1>2. q \in Nat /\ r \in 0..WORD-1 /\ s = WORD * q + r
  BY <1>1
<1> HIDE DEF q, r
<1>3. ASSUME q >= WORD PROVE FALSE
  <2>1. WORD * WORD <= q * WORD
    BY <1>1, <1>2, <1>3, Times
  <2>2. WORD * WORD <= s
    BY <1>1, <1>2, <2>1
  <2>3. WORD * WORD \in Nat /\ s < WORD * WORD
    BY WordType
  <2> QED
    BY <2>2, <2>3
<1>4. q \in 0..WORD-1
  BY <1>1, <1>2, <1>3
<1> QED
  BY <1>2, <1>4 DEF q, r

\* Folding twice and complementing gives what is missing to a multiple of
\* WORD - 1.
LEMMA FoldComplement ==
  ASSUME NEW s \in Nat, s < WORD * WORD
  PROVE  /\ Folded(s) \in Nat /\ Folded(s) < 2 * WORD
         /\ Complement(Folded(s)) \in 0..WORD-1
         /\ (s + Complement(Folded(s))) % (WORD - 1) = 0
<1> DEFINE q == s \div WORD
           r == s % WORD
           t == q + r
           c == t \div WORD
           u == t + c
<1>0. WORD \in Nat /\ WORD >= 4
  BY WordType
<1>1. q \in 0..WORD-1 /\ r \in 0..WORD-1 /\ s = WORD * q + r
  BY DivMod
<1>2. Folded(s) = u /\ Complement(u) = WORD - 1 - (u % WORD)
  BY DEF Folded, Complement
<1> HIDE DEF q, r
<1>3. t \in 0..2 * WORD - 2
  BY <1>0, <1>1
<1>4. CASE t < WORD
  <2>1. c = 0 /\ u = t /\ u % WORD = t
    BY <1>0, <1>3, <1>4
  <2> DEFINE k == q + 1
             m == WORD - 1
  <2>2. s + Complement(u) = k * m
    BY <1>0, <1>1, <1>2, <2>1
  <2>3. (k * m) % m = 0
    <3>1. k \in Nat /\ m \in Nat /\ m > 0
      BY <1>0, <1>1
    <3> HIDE DEF k, m
    <3> QED
      BY <3>1, ModMultiple
  <2>4. Complement(u) \in 0..WORD-1 /\ u \in Nat /\ u < 2 * WORD
    <3>1. Complement(u) = WORD - 1 - t
      BY <1>2, <2>1
    <3>2. WORD - 1 - t \in 0..WORD-1 /\ t \in Nat /\ t < 2 * WORD
      BY <1>0, <1>3, <1>4
    <3> QED
      BY <2>1, <3>1, <3>2
  <2> QED
    BY <1>2, <2>2, <2>3, <2>4
<1>5. CASE t >= WORD
  <2>1. c = 1
    BY <1>0, <1>3, <1>5
  <2>2. u = t + 1
    BY <2>1
  <2>3. u % WORD = t + 1 - WORD
    BY <1>0, <1>3, <1>5, <2>2
  <2> DEFINE k == q + 2
             m == WORD - 1
  <2>4. s + Complement(u) = k * m
    BY <1>0, <1>1, <1>2, <2>3
  <2>5. (k * m) % m = 0
    <3>1. k \in Nat /\ m \in Nat /\ m > 0
      BY <1>0, <1>1
    <3> HIDE DEF k, m
    <3> QED
      BY <3>1, ModMultiple
  <2>6. Complement(u) \in 0..WORD-1 /\ u \in Nat /\ u < 2 * WORD
    BY <1>0, <1>2, <1>3, <1>5, <2>2, <2>3
  <2> QED
    BY <1>2, <2>4, <2>5, <2>6
<1> QED
  BY <1>0, <1>3, <1>4, <1>5

-----------------------------------------------------------------------------
(* The invariant: the loop runs over the message as it was given, and the   *)
(* sum of n words stays below n times the largest.                         *)

SumBound == pc = "loop" => 2 * sum <= buf * (WORD - 1)

IInv ==
  /\ TypeOK /\ SumBound
  /\ Len(header) >= 4 /\ Len(header) < 2 * WORD

LEMMA InitI == Init => IInv
<1> SUFFICES ASSUME Init PROVE IInv
  OBVIOUS
<1>1. /\ header \in Seq(Octets) /\ Len(header) \in Nat
      /\ Len(header) >= 4 /\ Len(header) < 2 * WORD
  BY MessagesAssumption, WordType DEF Init
<1>2. 0 \in 0..WORD * WORD - 1
  BY WordType
<1> QED
  BY <1>1, <1>2, WordType DEF Init, IInv, TypeOK, SumBound

\* A word added keeps the bound on the sum, which keeps it from wrapping.
LEMMA AddFits ==
  ASSUME NEW s \in Nat, NEW b \in Nat, NEW w \in 0..WORD-1,
         2 * s <= b * (WORD - 1), b + 1 <= 2 * WORD - 1
  PROVE  UInt(s + w) = s + w /\ s + w < WORD * WORD
         /\ 2 * (s + w) <= (b + 2) * (WORD - 1)
<1>0. WORD \in Nat /\ WORD >= 4 /\ WORD * WORD \in Nat
  BY WordType
<1> DEFINE m == WORD - 1
<1>1. (b + 2) * m = b * m + 2 * m
  BY <1>0
<1>2. 2 * (s + w) <= (b + 2) * m
  <2>1. 2 * (s + w) <= b * m + 2 * m
    BY <1>0
  <2> QED
    BY <1>1, <2>1
<1>3. (b + 2) * m <= (2 * WORD) * m
  <2>1. m \in Nat /\ b + 2 <= 2 * WORD /\ 2 * WORD \in Nat /\ b + 2 \in Nat
    BY <1>0
  <2> HIDE DEF m
  <2> QED
    BY <2>1, Times
<1>4. (2 * WORD) * m = 2 * (WORD * WORD) - 2 * WORD
  BY <1>0
<1>5. s + w < WORD * WORD
  <2> DEFINE W2 == WORD * WORD
             x == (b + 2) * m
             y == (2 * WORD) * m
  <2>1. x <= y /\ y = 2 * W2 - 2 * WORD /\ 2 * (s + w) <= x /\ x \in Int /\ y \in Int /\ W2 \in Nat
    BY <1>0, <1>2, <1>3, <1>4
  <2> HIDE DEF W2, x, y
  <2>2. s + w < W2
    BY <1>0, <2>1
  <2> QED
    BY <2>2 DEF W2
<1>6. UInt(s + w) = s + w
  <2> DEFINE W2 == WORD * WORD
  <2>1. W2 \in Nat /\ s + w \in Nat /\ s + w < W2
    BY <1>0, <1>5
  <2> HIDE DEF W2
  <2>2. (s + w) % W2 = s + w
    BY <2>1
  <2> QED
    BY <2>2 DEF UInt, W2
<1> QED
  BY <1>2, <1>5, <1>6

LEMMA WordRange ==
  ASSUME NEW a \in Octets, NEW b \in Octets
  PROVE  a + OCTET * b \in 0..WORD-1 /\ a \in 0..WORD-1
<1>1. OCTET \in Nat /\ OCTET >= 2 /\ a \in Nat /\ b \in Nat /\ a <= OCTET - 1 /\ b + 1 <= OCTET
  BY OctetAssumption DEF Octets
<1>2. OCTET * (b + 1) <= OCTET * OCTET
  BY <1>1, Times
<1>3. OCTET * (b + 1) = OCTET * b + OCTET /\ OCTET * b \in Nat
  BY <1>1
<1> QED
  BY <1>1, <1>2, <1>3 DEF WORD

LEMMA OctetsOfWord ==
  ASSUME NEW c \in 0..WORD-1
  PROVE  c % OCTET \in Octets /\ c \div OCTET \in Octets
<1> DEFINE q == c \div OCTET
           r == c % OCTET
<1>1. OCTET \in Nat /\ OCTET >= 2
  BY OctetAssumption
<1>2. c \in Nat /\ c < OCTET * OCTET
  BY WordType DEF WORD
<1>3. q \in Nat /\ r \in 0..OCTET-1 /\ c = OCTET * q + r
  BY <1>1, <1>2
<1> HIDE DEF q, r
<1>4. ASSUME q >= OCTET PROVE FALSE
  <2>1. OCTET * OCTET <= q * OCTET
    BY <1>1, <1>3, <1>4, Times
  <2> QED
    BY <1>1, <1>2, <1>3, <2>1
<1>5. q \in 0..OCTET-1
  BY <1>1, <1>3, <1>4
<1> QED
  BY <1>3, <1>5 DEF q, r, Octets

LEMMA StepI == IInv /\ [Next]_vars => IInv'
<1> SUFFICES ASSUME IInv, [Next]_vars PROVE IInv'
  OBVIOUS
<1>0. /\ header \in Seq(Octets) /\ Len(header) \in Nat
      /\ Len(header) >= 4 /\ Len(header) < 2 * WORD
      /\ sum \in Nat /\ sum < WORD * WORD
      /\ buf \in Nat /\ len \in Nat /\ buf + len = Len(header)
      /\ WORD \in Nat /\ WORD >= 4 /\ WORD * WORD \in Nat /\ WORD * WORD >= 2 * WORD
  <2>1. WORD * WORD >= 2 * WORD
    BY WordType
  <2> QED
    BY <2>1, WordType DEF IInv, TypeOK
<1>1. CASE add_word
  <2>1. /\ pc = "loop" /\ len > 1 /\ sum' = UInt(sum + Word)
        /\ buf' = buf + 2 /\ len' = len - 2 /\ header' = header /\ pc' = pc
    BY <1>1 DEF add_word
  <2>2. header[buf + 1] \in Octets /\ header[buf + 2] \in Octets
    BY <1>0, <2>1
  <2>3. Word \in 0..WORD-1
    BY <2>2, WordRange DEF Word
  <2>4. 2 * sum <= buf * (WORD - 1) /\ buf + 1 <= 2 * WORD - 1
    BY <1>0, <2>1 DEF IInv, SumBound
  <2>5. /\ sum' = sum + Word /\ sum + Word < WORD * WORD
        /\ 2 * (sum + Word) <= (buf + 2) * (WORD - 1)
    BY <1>0, <2>1, <2>3, <2>4, AddFits
  <2>6. sum' \in 0..WORD * WORD - 1
    <3> DEFINE W2 == WORD * WORD
    <3>1. W2 \in Nat /\ sum' < W2 /\ sum' \in Nat
      BY <1>0, <2>3, <2>5
    <3> HIDE DEF W2
    <3>2. sum' \in 0..W2 - 1
      BY <3>1
    <3> QED
      BY <3>2 DEF W2
  <2>7. TypeOK'
    BY <1>0, <2>1, <2>6 DEF TypeOK
  <2>8. SumBound'
    BY <2>1, <2>5 DEF SumBound
  <2> QED
    BY <1>0, <2>1, <2>7, <2>8 DEF IInv
<1>2. CASE last_octet
  <2>1. pc = "loop" /\ len <= 1 /\ pc' = "fold" /\ UNCHANGED <<header, buf, len>>
    BY <1>2 DEF last_octet
  <2>2. sum' \in Nat /\ sum' < WORD * WORD
    <3>1. CASE len = 1
      <4>1. header[buf + 1] \in Octets
        BY <1>0, <3>1
      <4>2. header[buf + 1] \in 0..WORD-1
        BY <4>1, WordRange
      <4>3. 2 * sum <= buf * (WORD - 1) /\ buf + 1 <= 2 * WORD - 1
        BY <1>0, <2>1, <3>1 DEF IInv, SumBound
      <4>4. sum' = sum + header[buf + 1] /\ sum + header[buf + 1] < WORD * WORD
        BY <1>0, <1>2, <3>1, <4>2, <4>3, AddFits DEF last_octet
      <4> QED
        BY <1>0, <4>2, <4>4
    <3>2. CASE len # 1
      BY <1>0, <1>2, <3>2 DEF last_octet
    <3> QED
      BY <3>1, <3>2
  <2>3. sum' \in 0..WORD * WORD - 1
    <3> DEFINE W2 == WORD * WORD
    <3>1. W2 \in Nat /\ sum' < W2 /\ sum' \in Nat
      BY <1>0, <2>2
    <3> HIDE DEF W2
    <3>2. sum' \in 0..W2 - 1
      BY <3>1
    <3> QED
      BY <3>2 DEF W2
  <2> QED
    BY <1>0, <2>1, <2>3 DEF IInv, TypeOK, SumBound
<1>3. CASE store
  <2> DEFINE c == Complement(Folded(sum))
             lo == c % OCTET
             hi == c \div OCTET
  <2>1. pc' = "done" /\ sum' = Folded(sum) /\ UNCHANGED <<buf, len>>
    BY <1>3 DEF store
  <2>2. Folded(sum) \in Nat /\ Folded(sum) < 2 * WORD /\ c \in 0..WORD-1
    BY <1>0, FoldComplement
  <2>3. lo \in Octets /\ hi \in Octets
    <3> HIDE DEF c
    <3> QED
      BY <2>2, OctetsOfWord
  <2>4. header' = [header EXCEPT ![3] = lo, ![4] = hi]
    BY <1>3, <2>1 DEF store
  <2> HIDE DEF lo, hi, c
  <2>5. header' \in Seq(Octets) /\ Len(header') = Len(header)
    BY <1>0, <2>3, <2>4
  <2>6. sum' \in 0..WORD * WORD - 1
    <3> DEFINE W2 == WORD * WORD
    <3>1. W2 \in Nat /\ sum' < W2 /\ sum' \in Nat
      BY <1>0, <2>1, <2>2
    <3> HIDE DEF W2
    <3>2. sum' \in 0..W2 - 1
      BY <3>1
    <3> QED
      BY <3>2 DEF W2
  <2> QED
    BY <1>0, <2>1, <2>5, <2>6 DEF IInv, TypeOK, SumBound
<1>4. CASE UNCHANGED vars
  BY <1>4 DEF IInv, TypeOK, SumBound, vars
<1> QED
  BY <1>1, <1>2, <1>3, <1>4 DEF Next, done

LEMMA Invariant == Spec => []IInv
BY InitI, StepI, PTL DEF Spec

LEMMA StepCarries ==
  IInv /\ [Next]_vars => [pc = "fold" => (sum + Complement(sum')) % (WORD - 1) = 0]_vars
<1> SUFFICES ASSUME IInv, Next, pc = "fold", ~UNCHANGED vars
             PROVE  (sum + Complement(sum')) % (WORD - 1) = 0
  BY DEF vars
<1>1. store
  BY DEF Next, add_word, last_octet, done
<1>2. sum \in Nat /\ sum < WORD * WORD
  BY WordType DEF IInv, TypeOK
<1>3. sum' = Folded(sum)
  BY <1>1 DEF store
<1> QED
  BY <1>2, <1>3, FoldComplement

-----------------------------------------------------------------------------
(* Theorems *)

\* The reads stay inside the message and the stored checksum is two octets.
THEOREM ChecksumTypeCorrect == Spec => []TypeOK
<1>1. IInv => TypeOK
  BY DEF IInv
<1> QED
  BY <1>1, Invariant, PTL

\* Two foldings are enough: the words and the checksum sum to a multiple of
\* WORD - 1, whatever the message.
THEOREM FoldKeepsCarriesCorrect == Spec => FoldKeepsCarries
BY Invariant, StepCarries, PTL DEF Spec, FoldKeepsCarries

-----------------------------------------------------------------------------
(* The receiver's sum.  A set of naturals has a least member, which is what *)
(* induction comes down to here.                                           *)

LEMMA LeastNat ==
  ASSUME NEW T, T \subseteq Nat, T # {}
  PROVE  \E n \in T : \A k \in T : n <= k
<1> DEFINE R == {p \in Nat \X Nat : p[1] < p[2]}
<1>1. IsWellFoundedOn(R, Nat)
  BY NatLessThanWellFounded DEF OpToRel
<1>2. PICK n \in T : \A k \in T : <<k, n>> \notin R
  <2> HIDE DEF R
  <2> QED
    BY <1>1, WFMin, Zenon
<1>3. ASSUME NEW k \in T PROVE n <= k
  <2>1. <<k, n>> \in Nat \X Nat /\ ~(<<k, n>>[1] < <<k, n>>[2])
    BY <1>2
  <2> QED
    BY <2>1
<1> QED
  BY <1>3

\* SumsUpTo is the function its recursion describes.
LEMMA SumsDef ==
  ASSUME NEW m \in Seq(Octets), NEW order
  PROVE  SumsUpTo(m, order) = [i \in 0..Len(m) |-> IF i = 0 THEN 0 ELSE SumsUpTo(m, order)[i - 1] + Weight(m, i, order)]
<1> DEFINE Sums(f, n) == f = [i \in 0..n |-> IF i = 0 THEN 0 ELSE f[i - 1] + Weight(m, i, order)]
           T == {n \in Nat : ~ \E f : Sums(f, n)}
<1>1. T = {}
  <2> SUFFICES ASSUME T # {} PROVE FALSE
    OBVIOUS
  <2>1. PICK n \in T : \A k \in T : n <= k
    <3>1. T \subseteq Nat
      OBVIOUS
    <3> HIDE DEF T
    <3> QED
      BY <3>1, LeastNat
  <2>2. n # 0
    <3>1. Sums([i \in 0..0 |-> 0], 0)
      OBVIOUS
    <3> QED
      BY <3>1
  <2>3. n - 1 \in Nat /\ n - 1 \notin T
    <3>1. T \subseteq Nat
      OBVIOUS
    <3> HIDE DEF T
    <3> QED
      BY <2>1, <2>2, <3>1
  <2>4. PICK f : Sums(f, n - 1)
    BY <2>3
  <2> DEFINE h == [i \in 0..n |-> IF i = n THEN f[n - 1] + Weight(m, n, order) ELSE f[i]]
  <2>5. ASSUME NEW i \in 0..n
        PROVE  h[i] = IF i = 0 THEN 0 ELSE h[i - 1] + Weight(m, i, order)
    <3>1. CASE i = n
      BY <2>2, <2>3, <3>1
    <3>2. CASE i # n
      <4>1. i \in 0..n-1 /\ (i # 0 => i - 1 \in 0..n /\ i - 1 # n)
        BY <2>3, <3>2
      <4>2. f[i] = IF i = 0 THEN 0 ELSE f[i - 1] + Weight(m, i, order)
        BY <2>4, <4>1
      <4> QED
        BY <3>2, <4>1, <4>2
    <3> QED
      BY <3>1, <3>2
  <2>6. Sums(h, n)
    BY <2>5
  <2> QED
    BY <2>1, <2>6
<1>2. \E f : Sums(f, Len(m))
  BY <1>1
<1>3. SumsUpTo(m, order) = CHOOSE f : Sums(f, Len(m))
  BY DEF SumsUpTo
<1> HIDE DEF Sums
<1>4. Sums(SumsUpTo(m, order), Len(m))
  BY <1>2, <1>3
<1> QED
  BY <1>4 DEF Sums

LEMMA SumsStep ==
  ASSUME NEW m \in Seq(Octets), NEW order
  PROVE  /\ SumsUpTo(m, order)[0] = 0
         /\ \A i \in 1..Len(m) : SumsUpTo(m, order)[i] = SumsUpTo(m, order)[i - 1] + Weight(m, i, order)
<1> DEFINE S == SumsUpTo(m, order)
<1>1. S = [i \in 0..Len(m) |-> IF i = 0 THEN 0 ELSE S[i - 1] + Weight(m, i, order)]
  BY SumsDef
<1>2. Len(m) \in Nat
  OBVIOUS
<1> HIDE DEF S
<1>3. S[0] = 0 /\ \A i \in 1..Len(m) : S[i] = S[i - 1] + Weight(m, i, order)
  BY <1>1, <1>2
<1> QED
  BY <1>3 DEF S

LEMMA WeightNat ==
  ASSUME NEW m \in Seq(Octets), NEW order, NEW i \in 1..Len(m)
  PROVE  Weight(m, i, order) \in Nat
<1>1. m[i] \in Nat /\ OCTET \in Nat
  BY OctetAssumption DEF Octets
<1> QED
  BY <1>1 DEF Weight

LEMMA SumsNat ==
  ASSUME NEW m \in Seq(Octets), NEW order
  PROVE  \A i \in 0..Len(m) : SumsUpTo(m, order)[i] \in Nat
<1> DEFINE S == SumsUpTo(m, order)
           T == {i \in 0..Len(m) : S[i] \notin Nat}
<1> SUFFICES ASSUME T # {} PROVE FALSE
  OBVIOUS
<1>1. PICK n \in T : \A k \in T : n <= k
  <2>1. T \subseteq Nat
    OBVIOUS
  <2> HIDE DEF T
  <2> QED
    BY <2>1, LeastNat
<1>2. n \in 0..Len(m) /\ Len(m) \in Nat /\ n # 0
  BY SumsStep
<1>3. n \in 1..Len(m) /\ n - 1 \in 0..Len(m) /\ ~(n <= n - 1)
  BY <1>2
<1>4. S[n - 1] \in Nat
  BY <1>1, <1>3
<1>5. S[n] = S[n - 1] + Weight(m, n, order)
  BY <1>3, SumsStep
<1>6. S[n] \in Nat
  BY <1>3, <1>4, <1>5, WeightNat
<1> QED
  BY <1>1, <1>6

\* What storing two octets in the empty checksum field adds to the sum.
LEMMA StoreSum ==
  ASSUME NEW m \in Seq(Octets), Len(m) >= 4, m[3] = 0, m[4] = 0,
         NEW lo \in Octets, NEW hi \in Octets,
         NEW h, h = [m EXCEPT ![3] = lo, ![4] = hi]
  PROVE  NetworkSum(h) = NetworkSum(m) + OCTET * lo + hi
<1> DEFINE S == SumsUpTo(m, Network)
           H == SumsUpTo(h, Network)
           Added(i) == IF i < 3 THEN 0 ELSE IF i = 3 THEN OCTET * lo ELSE OCTET * lo + hi
           T == {i \in 0..Len(m) : H[i] # S[i] + Added(i)}
<1>1. /\ h \in Seq(Octets) /\ Len(h) = Len(m) /\ Len(m) \in Nat
      /\ h[3] = lo /\ h[4] = hi /\ \A i \in 1..Len(m) : i # 3 /\ i # 4 => h[i] = m[i]
  OBVIOUS
<1>2. OCTET \in Nat /\ lo \in Nat /\ hi \in Nat /\ OCTET * lo \in Nat /\ OCTET * 0 = 0
  BY OctetAssumption DEF Octets
<1>3. \A i \in 0..Len(m) : S[i] \in Nat
  BY SumsNat
<1>4. \A i \in 1..Len(m) : S[i] = S[i - 1] + Weight(m, i, Network) /\ H[i] = H[i - 1] + Weight(h, i, Network)
  BY <1>1, SumsStep
<1>5. S[0] = 0 /\ H[0] = 0
  BY <1>1, SumsStep
<1>6. Weight(h, 3, Network) = OCTET * lo /\ Weight(h, 4, Network) = hi /\ Weight(m, 3, Network) = 0 /\ Weight(m, 4, Network) = 0
  BY <1>1, <1>2 DEF Weight, Network
<1>7. \A i \in 1..Len(m) : i # 3 /\ i # 4 => Weight(h, i, Network) = Weight(m, i, Network)
  BY <1>1 DEF Weight, Network
<1>8. \A i \in 1..Len(m) : Weight(m, i, Network) \in Nat
  BY WeightNat
<1>9. T = {}
  <2> SUFFICES ASSUME T # {} PROVE FALSE
    OBVIOUS
  <2>1. PICK n \in T : \A k \in T : n <= k
    <3>1. T \subseteq Nat
      OBVIOUS
    <3> HIDE DEF T
    <3> QED
      BY <3>1, LeastNat
  <2>2. n # 0 /\ n \in 0..Len(m)
    BY <1>5
  <2>3. n \in 1..Len(m) /\ n - 1 \in 0..Len(m) /\ ~(n <= n - 1)
    BY <1>1, <2>2
  <2>4. H[n - 1] = S[n - 1] + Added(n - 1)
    BY <2>1, <2>3
  <2>5. S[n - 1] \in Nat /\ Weight(m, n, Network) \in Nat
    BY <1>3, <1>8, <2>3
  <2>6. H[n] = H[n - 1] + Weight(h, n, Network) /\ S[n] = S[n - 1] + Weight(m, n, Network)
    BY <1>4, <2>3
  <2>7. H[n] = S[n] + Added(n)
    <3> DEFINE x == S[n - 1]
               w == Weight(m, n, Network)
               p == OCTET * lo
    <3>0. x \in Nat /\ w \in Nat /\ p \in Nat /\ hi \in Nat /\ n \in Nat /\ S[n] = x + w
      BY <1>1, <1>2, <2>3, <2>5, <2>6
    <3>1. CASE n # 3 /\ n # 4
      <4>1. Added(n - 1) = Added(n) /\ Added(n) \in Nat
        BY <3>0, <3>1
      <4>2. H[n] = (x + Added(n)) + w
        BY <1>7, <2>3, <2>4, <2>6, <3>1, <4>1
      <4> HIDE DEF S, H, T, Added, x, w, p
      <4> QED
        BY <3>0, <4>1, <4>2
    <3>2. CASE n = 3
      <4>1. H[n] = (x + 0) + p /\ S[n] = x + 0 /\ Added(n) = p
        BY <1>6, <2>4, <2>6, <3>2
      <4> HIDE DEF S, H, T, Added, x, w, p
      <4> QED
        BY <3>0, <4>1
    <3>3. CASE n = 4
      <4>1. H[n] = (x + p) + hi /\ S[n] = x + 0 /\ Added(n) = p + hi
        BY <1>6, <2>4, <2>6, <3>3
      <4> HIDE DEF S, H, T, Added, x, w, p
      <4> QED
        BY <3>0, <4>1
    <3> QED
      BY <3>1, <3>2, <3>3
  <2> QED
    BY <2>1, <2>7
<1>10. Len(m) \in 0..Len(m) /\ ~(Len(m) < 3) /\ Len(m) # 3
  BY <1>1
<1>11. H[Len(m)] = S[Len(m)] + (OCTET * lo + hi)
  BY <1>9, <1>10
<1>12. S[Len(m)] \in Nat
  BY <1>3, <1>10
<1> HIDE DEF S, H
<1>13. H[Len(m)] = S[Len(m)] + OCTET * lo + hi
  BY <1>2, <1>11, <1>12
<1> QED
  BY <1>1, <1>13 DEF NetworkSum, S, H

\* n, summed in network order, and s, summed in the order of the machine, agree
\* up to k times WORD - 1; lo and hi are the checksum of s; a sum is accepted.
AgreeBy(k, n, s) == OCTET * n = s + k * (WORD - 1)
IsChecksum(lo, hi, s) == lo + OCTET * hi = Complement(Folded(s))
Accepted(total) == total # 0 /\ total % (WORD - 1) = 0

\* Two octets more, on both sides: what the machine adds to the low end of a
\* word counts OCTET times in network order, and WORD is 1 modulo WORD - 1.
LEMMA AgreeStep ==
  ASSUME NEW s \in Nat, NEW n \in Nat, NEW k \in Nat, NEW a \in Nat, NEW b \in Nat,
         AgreeBy(k, n, s)
  PROVE  AgreeBy(k + a, n + OCTET * a + b, s + a + OCTET * b)
<1>1. OCTET \in Nat /\ WORD \in Nat
  BY OctetAssumption, WordType
<1>2. OCTET * (n + OCTET * a + b) = OCTET * n + WORD * a + OCTET * b
  BY <1>1 DEF WORD
<1>3. (k + a) * (WORD - 1) = k * (WORD - 1) + WORD * a - a
  BY <1>1
<1> DEFINE p == OCTET * n
           q == k * (WORD - 1)
           x == WORD * a
           y == OCTET * b
<1>4. p \in Int /\ q \in Int /\ x \in Int /\ y \in Int /\ p = s + q
  BY <1>1 DEF AgreeBy
<1> HIDE DEF p, q, x, y
<1>5. p + x + y = (s + a + y) + (q + x - a)
  BY <1>4
<1> QED
  BY <1>2, <1>3, <1>5 DEF p, q, x, y, AgreeBy

\* So the sum with the checksum in it is a multiple of WORD - 1, and not 0.
LEMMA Verifies ==
  ASSUME NEW s \in Nat, s < WORD * WORD, NEW n \in Nat, NEW k \in Nat,
         AgreeBy(k, n, s), NEW lo \in Nat, NEW hi \in Nat, IsChecksum(lo, hi, s)
  PROVE  Accepted(n + OCTET * lo + hi)
<1> DEFINE c == lo + OCTET * hi
           m == WORD - 1
           q == (s + c) \div m
           total == n + OCTET * lo + hi
<1>0. OCTET \in Nat /\ OCTET > 1 /\ WORD \in Nat /\ WORD >= 4
  BY OctetAssumption, WordType
<1>1. c \in 0..WORD-1 /\ (s + c) % (WORD - 1) = 0
  BY FoldComplement DEF IsChecksum
<1>2. q \in Int /\ s + c = q * m
  <2>1. m \in Nat /\ m > 0 /\ s + c \in Nat /\ (s + c) % m = 0
    BY <1>0, <1>1
  <2> HIDE DEF m, c
  <2> QED
    BY <2>1
<1>3. total \in Nat /\ k + lo \in Nat
  BY <1>0
<1>4. OCTET * total = (s + c) + (k + lo) * m
  <2>1. OCTET * total = (s + lo + OCTET * hi) + (k + lo) * m
    <3>1. AgreeBy(k + lo, n + OCTET * lo + hi, s + lo + OCTET * hi)
      BY AgreeStep
    <3> QED
      BY <3>1 DEF AgreeBy
  <2> DEFINE y == OCTET * hi
  <2>2. y \in Nat
    BY <1>0
  <2> HIDE DEF y
  <2>3. s + lo + y = s + (lo + y)
    BY <2>2
  <2> QED
    BY <2>1, <2>3 DEF y
<1>5. total % m = 0
  <2> HIDE DEF total, c, q
  <2> DEFINE e == q + k + lo
             z == OCTET * e - total
  <2>1. m \in Int /\ e \in Int
    BY <1>0, <1>2
  <2>2. OCTET * total = e * m
    <3>1. e * m = q * m + (k + lo) * m
      BY <1>2, <2>1
    <3> HIDE DEF m
    <3> QED
      BY <1>2, <1>3, <1>4, <2>1, <3>1
  <2>3. WORD * total = OCTET * (e * m)
    <3>1. WORD * total = OCTET * (OCTET * total)
      BY <1>0, <1>3 DEF WORD
    <3> QED
      BY <2>2, <3>1
  <2>4. OCTET * (e * m) = (OCTET * e) * m
    <3> HIDE DEF e, m
    <3> QED
      BY <1>0, <2>1
  <2>5. WORD * total = m * total + total
    BY <1>0, <1>3
  <2>6. total = (OCTET * e) * m - m * total
    <3> DEFINE x == WORD * total
               y == m * total
               w == (OCTET * e) * m
    <3>1. x = w /\ x = y + total /\ y \in Int
      BY <1>3, <2>1, <2>3, <2>4, <2>5
    <3> HIDE DEF x, y, w
    <3>2. total = w - y
      BY <1>3, <3>1
    <3> QED
      BY <3>2 DEF w, y
  <2>7. z \in Int /\ z * m = (OCTET * e) * m - m * total
    <3>1. OCTET * e \in Int
      BY <1>0, <2>1
    <3> DEFINE x == OCTET * e
    <3> HIDE DEF e, m, x
    <3>2. x - total \in Int /\ (x - total) * m = x * m - m * total
      BY <1>3, <2>1, <3>1 DEF x
    <3> QED
      BY <3>2 DEF x
  <2>8. total = z * m /\ m \in Nat /\ m > 0
    BY <1>0, <2>6, <2>7
  <2> HIDE DEF z, m
  <2> QED
    BY <2>7, <2>8, ModMultiple
<1>6. total # 0
  <2> SUFFICES ASSUME total = 0 PROVE FALSE
    OBVIOUS
  <2>1. n = 0 /\ hi = 0 /\ OCTET * lo = 0 /\ lo = 0
    <3>1. OCTET * lo \in Nat /\ (lo # 0 => OCTET * lo # 0)
      BY <1>0
    <3> QED
      BY <1>3, <3>1
  <2>2. s = 0 /\ c = 0
    <3>1. OCTET * n = 0 /\ OCTET * hi = 0 /\ k * m \in Nat
      BY <1>0, <2>1
    <3> QED
      BY <2>1, <3>1 DEF AgreeBy
  <2>3. Complement(Folded(0)) = WORD - 1
    BY <1>0 DEF Complement, Folded
  <2> QED
    BY <1>0, <2>2, <2>3 DEF IsChecksum
<1> QED
  BY <1>5, <1>6 DEF Accepted

-----------------------------------------------------------------------------
(* The words added so far agree with the receiver's, up to WORD - 1. *)

Agree(n) == \E k \in Nat : AgreeBy(k, SumsUpTo(header, Network)[n], sum)
AgreeInv ==
  /\ pc \in {"loop", "fold"} => header[3] = 0 /\ header[4] = 0
  /\ pc = "loop" => buf % 2 = 0 /\ Agree(buf)
  /\ pc = "fold" => Agree(Len(header))
  /\ ChecksumVerifies

LEMMA InitAgree == Init => AgreeInv
<1> SUFFICES ASSUME Init PROVE AgreeInv
  OBVIOUS
<1>1. header \in Seq(Octets) /\ header[3] = 0 /\ header[4] = 0 /\ pc = "loop" /\ buf = 0 /\ sum = 0
  BY MessagesAssumption DEF Init
<1>2. SumsUpTo(header, Network)[0] = 0
  BY <1>1, SumsStep
<1>3. OCTET * 0 = 0 + 0 * (WORD - 1)
  BY OctetAssumption, WordType
<1> QED
  BY <1>1, <1>2, <1>3 DEF AgreeInv, Agree, AgreeBy, ChecksumVerifies

LEMMA StepAgree ==
  ASSUME IInv, AgreeInv, [Next]_vars
  PROVE  AgreeInv'
<1>0. /\ header \in Seq(Octets) /\ Len(header) \in Nat /\ Len(header) >= 4
      /\ sum \in Nat /\ sum < WORD * WORD
      /\ buf \in Nat /\ len \in Nat /\ buf + len = Len(header)
      /\ OCTET \in Nat /\ OCTET > 1 /\ WORD \in Nat
  BY WordType, OctetAssumption DEF IInv, TypeOK
<1> DEFINE S == SumsUpTo(header, Network)
<1>1. CASE add_word
  <2> DEFINE a == header[buf + 1]
             b == header[buf + 2]
  <2>1. /\ pc = "loop" /\ len > 1 /\ sum' = UInt(sum + Word) /\ pc' = pc
        /\ buf' = buf + 2 /\ header' = header
    BY <1>1 DEF add_word
  <2>2. a \in Octets /\ b \in Octets /\ buf + 1 \in 1..Len(header) /\ buf + 2 \in 1..Len(header)
    BY <1>0, <2>1
  <2>3. sum' = sum + a + OCTET * b /\ a \in Nat /\ b \in Nat
    <3>1. Word \in 0..WORD-1 /\ Word = a + OCTET * b
      BY <2>2, WordRange DEF Word
    <3>2. 2 * sum <= buf * (WORD - 1) /\ buf + 1 <= 2 * WORD - 1
      BY <1>0, <2>1 DEF IInv, SumBound
    <3>3. sum' = sum + Word
      BY <1>0, <2>1, <3>1, <3>2, AddFits
    <3>4. a \in Nat /\ b \in Nat /\ OCTET * b \in Nat
      BY <1>0, <2>2 DEF Octets
    <3> DEFINE y == OCTET * b
    <3> HIDE DEF y, a
    <3>5. sum' = sum + (a + y) /\ y \in Nat
      BY <3>1, <3>3, <3>4 DEF y
    <3>6. sum' = sum + a + y
      BY <1>0, <3>4, <3>5
    <3> QED
      BY <3>4, <3>6 DEF y
  <2>4. S[buf + 2] = S[buf] + OCTET * a + b /\ S[buf] \in Nat
    <3>1. S[buf + 1] = S[buf] + Weight(header, buf + 1, Network) /\ S[buf + 2] = S[buf + 1] + Weight(header, buf + 2, Network)
      <4>1. (buf + 1) - 1 = buf /\ (buf + 2) - 1 = buf + 1
        BY <1>0
      <4>2. \A i \in 1..Len(header) : S[i] = S[i - 1] + Weight(header, i, Network)
        BY <1>0, SumsStep
      <4> HIDE DEF S
      <4> QED
        BY <2>2, <4>1, <4>2
    <3>2. (buf + 1) % 2 = 1 /\ (buf + 2) % 2 = 0
      BY <1>0, <2>1 DEF AgreeInv
    <3>3. Weight(header, buf + 1, Network) = OCTET * a /\ Weight(header, buf + 2, Network) = b
      BY <3>2 DEF Weight, Network
    <3>4. S[buf] \in Nat
      BY <1>0, <2>1, SumsNat
    <3> QED
      BY <3>1, <3>3, <3>4
  <2>5. PICK k \in Nat : AgreeBy(k, S[buf], sum)
    BY <2>1 DEF AgreeInv, Agree
  <2>6. AgreeBy(k + a, S[buf + 2], sum') /\ k + a \in Nat
    <3> DEFINE n == S[buf]
    <3>1. sum \in Nat /\ n \in Nat /\ k \in Nat /\ a \in Nat /\ b \in Nat /\ AgreeBy(k, n, sum)
      BY <1>0, <2>3, <2>4, <2>5
    <3> HIDE DEF a, b, n
    <3>2. AgreeBy(k + a, n + OCTET * a + b, sum + a + OCTET * b) /\ k + a \in Nat
      BY <3>1, AgreeStep
    <3> QED
      BY <2>3, <2>4, <3>2 DEF n
  <2>7. Agree(buf)'
    BY <2>1, <2>6 DEF Agree, AgreeBy
  <2>8. buf' % 2 = 0
    BY <1>0, <2>1 DEF AgreeInv
  <2> QED
    BY <2>1, <2>7, <2>8 DEF AgreeInv, ChecksumVerifies
<1>2. CASE last_octet
  <2>1. /\ pc = "loop" /\ len <= 1 /\ pc' = "fold" /\ header' = header
        /\ sum' = IF len = 1 THEN UInt(sum + header[buf + 1]) ELSE sum
    BY <1>2 DEF last_octet
  <2>2. PICK k \in Nat : AgreeBy(k, S[buf], sum)
    BY <2>1 DEF AgreeInv, Agree
  <2>3. Agree(Len(header))'
    <3>1. CASE len # 1
      <4>1. buf = Len(header') /\ sum' = sum
        BY <1>0, <2>1, <3>1
      <4>2. AgreeBy(k, SumsUpTo(header', Network)[Len(header')], sum')
        BY <2>1, <2>2, <4>1
      <4> QED
        BY <4>2 DEF Agree, AgreeBy
    <3>2. CASE len = 1
      <4> DEFINE a == header[buf + 1]
      <4>1. a \in Octets /\ buf + 1 = Len(header) /\ buf + 1 \in 1..Len(header) /\ buf \in 0..Len(header)
        BY <1>0, <3>2
      <4>2. a \in Nat /\ a \in 0..WORD-1
        BY <4>1, WordRange DEF Octets
      <4>3. sum' = sum + a
        <5>1. 2 * sum <= buf * (WORD - 1) /\ buf + 1 <= 2 * WORD - 1
          BY <1>0, <2>1, <3>2 DEF IInv, SumBound
        <5> QED
          BY <1>0, <2>1, <3>2, <4>2, <5>1, AddFits
      <4>4. S[buf] \in Nat /\ S[buf + 1] = S[buf] + OCTET * a
        <5>1. (buf + 1) % 2 = 1 /\ (buf + 1) - 1 = buf
          BY <1>0, <2>1 DEF AgreeInv
        <5>2. S[buf + 1] = S[buf] + Weight(header, buf + 1, Network)
          BY <1>0, <4>1, <5>1, SumsStep
        <5>3. S[buf] \in Nat
          BY <1>0, <4>1, SumsNat
        <5> QED
          BY <5>1, <5>2, <5>3 DEF Weight, Network
      <4>5. AgreeBy(k + a, S[Len(header)], sum') /\ k + a \in Nat
        <5> DEFINE n == S[buf]
                   p == OCTET * a
                   z == OCTET * 0
        <5>1. sum \in Nat /\ n \in Nat /\ k \in Nat /\ a \in Nat /\ 0 \in Nat /\ AgreeBy(k, n, sum)
          BY <1>0, <2>2, <4>2, <4>4
        <5>2. p \in Nat /\ z = 0 /\ k + a \in Nat
          BY <1>0, <5>1
        <5> HIDE DEF a, n
        <5>3. AgreeBy(k + a, n + p + 0, sum + a + z)
          BY <5>1, AgreeStep
        <5>4. S[Len(header)] = n + p
          BY <4>1, <4>4 DEF n
        <5> HIDE DEF p, z
        <5>5. n + p + 0 = n + p /\ sum + a + z = sum + a
          BY <5>1, <5>2
        <5> QED
          BY <4>3, <5>2, <5>3, <5>4, <5>5
      <4> HIDE DEF a
      <4>6. AgreeBy(k + a, SumsUpTo(header', Network)[Len(header')], sum')
        BY <2>1, <4>5
      <4> QED
        BY <4>5, <4>6 DEF Agree, AgreeBy
    <3> QED
      BY <3>1, <3>2
  <2> QED
    BY <2>1, <2>3 DEF AgreeInv, ChecksumVerifies
<1>3. CASE store
  <2> DEFINE c == Complement(Folded(sum))
             lo == c % OCTET
             hi == c \div OCTET
             n == NetworkSum(header)
  <2>1. /\ pc = "fold" /\ pc' = "done" /\ sum' = Folded(sum)
        /\ header' = [header EXCEPT ![3] = c % OCTET, ![4] = c \div OCTET]
    BY <1>3 DEF store
  <2>2. c \in 0..WORD-1
    BY <1>0, FoldComplement
  <2>3. lo \in Octets /\ hi \in Octets
    <3> HIDE DEF c
    <3> QED
      BY <2>2, OctetsOfWord
  <2>4. lo \in Nat /\ hi \in Nat /\ IsChecksum(lo, hi, sum)
    <3>1. c \in Nat
      BY <1>0, <2>2
    <3>2. c = Complement(Folded(sum))
      OBVIOUS
    <3> HIDE DEF c
    <3>3. lo + OCTET * hi = c
      BY <1>0, <3>1
    <3> QED
      BY <1>0, <2>3, <3>2, <3>3 DEF Octets, IsChecksum
  <2>5. PICK k \in Nat : AgreeBy(k, n, sum)
    BY <2>1 DEF AgreeInv, Agree, NetworkSum
  <2>6. n \in Nat
    BY <1>0, SumsNat DEF NetworkSum
  <2>7. NetworkSum(header') = n + OCTET * lo + hi
    <3>1. header[3] = 0 /\ header[4] = 0
      BY <2>1 DEF AgreeInv
    <3> HIDE DEF c
    <3>2. header' = [header EXCEPT ![3] = lo, ![4] = hi]
      BY <2>1
    <3> HIDE DEF lo, hi, n
    <3> QED
      BY <1>0, <2>3, <3>1, <3>2, StoreSum DEF n
  <2> HIDE DEF c, n, lo, hi
  <2>8. Accepted(n + OCTET * lo + hi)
    BY <1>0, <2>4, <2>5, <2>6, Verifies
  <2>9. ChecksumVerifies'
    BY <2>7, <2>8 DEF ChecksumVerifies, Accepted
  <2> QED
    BY <2>1, <2>9 DEF AgreeInv
<1>4. CASE UNCHANGED vars
  BY <1>4 DEF AgreeInv, Agree, AgreeBy, ChecksumVerifies, vars
<1> QED
  BY <1>1, <1>2, <1>3, <1>4 DEF Next, done

-----------------------------------------------------------------------------
(* The words added so far are those of the message, none of them reduced.   *)

HostInv ==
  /\ pc = "loop" => buf % 2 = 0 /\ sum = SumsUpTo(header, Host)[buf]
  /\ pc = "fold" => sum = SumsUpTo(header, Host)[Len(header)]

LEMMA InitHost == Init => HostInv
<1> SUFFICES ASSUME Init PROVE HostInv
  OBVIOUS
<1>1. header \in Seq(Octets) /\ pc = "loop" /\ buf = 0 /\ sum = 0
  BY MessagesAssumption DEF Init
<1>2. SumsUpTo(header, Host)[0] = 0
  BY <1>1, SumsStep
<1> QED
  BY <1>1, <1>2 DEF HostInv

LEMMA StepHost ==
  ASSUME IInv, HostInv, [Next]_vars
  PROVE  HostInv'
<1> DEFINE S == SumsUpTo(header, Host)
<1>0. /\ header \in Seq(Octets) /\ Len(header) \in Nat /\ sum \in Nat
      /\ buf \in Nat /\ len \in Nat /\ buf + len = Len(header) /\ OCTET \in Nat
      /\ WORD \in Nat /\ sum < WORD * WORD
  BY WordType, OctetAssumption DEF IInv, TypeOK
<1>1. CASE add_word
  <2> DEFINE a == header[buf + 1]
             b == OCTET * header[buf + 2]
  <2>1. /\ pc = "loop" /\ len > 1 /\ sum' = UInt(sum + Word) /\ pc' = pc
        /\ buf' = buf + 2 /\ header' = header
    BY <1>1 DEF add_word
  <2>2. /\ header[buf + 1] \in Octets /\ header[buf + 2] \in Octets
        /\ buf + 1 \in 1..Len(header) /\ buf + 2 \in 1..Len(header)
    BY <1>0, <2>1
  <2>3. Word \in 0..WORD-1 /\ Word = a + b /\ a \in Nat /\ b \in Nat
    <3>1. Word \in 0..WORD-1 /\ Word = a + b
      BY <2>2, WordRange DEF Word
    <3>2. a \in Nat /\ header[buf + 2] \in Nat
      BY <1>0, <2>2 DEF Octets
    <3> QED
      BY <1>0, <3>1, <3>2
  <2>4. sum' = sum + Word
    <3>1. 2 * sum <= buf * (WORD - 1) /\ buf + 1 <= 2 * WORD - 1
      BY <1>0, <2>1 DEF IInv, SumBound
    <3> QED
      BY <1>0, <2>1, <2>3, <3>1, AddFits
  <2>5. (buf + 1) % 2 = 1 /\ (buf + 2) % 2 = 0 /\ (buf + 1) - 1 = buf /\ (buf + 2) - 1 = buf + 1
    BY <1>0, <2>1 DEF HostInv
  <2>6. Weight(header, buf + 1, Host) = a /\ Weight(header, buf + 2, Host) = b
    BY <2>5 DEF Weight, Host
  <2>7. \A i \in 1..Len(header) : S[i] = S[i - 1] + Weight(header, i, Host)
    BY <1>0, SumsStep
  <2>8. sum = S[buf]
    BY <2>1 DEF HostInv
  <2> HIDE DEF S, a, b
  <2>9. S[buf + 1] = sum + a /\ S[buf + 2] = (sum + a) + b
    BY <2>2, <2>5, <2>6, <2>7, <2>8
  <2>10. sum' = S[buf + 2]
    BY <1>0, <2>3, <2>4, <2>9
  <2> QED
    BY <2>1, <2>5, <2>10 DEF HostInv, S
<1>2. CASE last_octet
  <2>1. /\ pc = "loop" /\ len <= 1 /\ pc' = "fold" /\ header' = header
        /\ sum' = IF len = 1 THEN UInt(sum + header[buf + 1]) ELSE sum
    BY <1>2 DEF last_octet
  <2>2. sum = S[buf] /\ buf % 2 = 0
    BY <2>1 DEF HostInv
  <2>3. CASE len # 1
    <3>1. buf = Len(header)
      BY <1>0, <2>1, <2>3
    <3> QED
      BY <2>1, <2>2, <2>3, <3>1 DEF HostInv
  <2>4. CASE len = 1
    <3> DEFINE a == header[buf + 1]
    <3>1. /\ a \in Octets /\ buf + 1 = Len(header) /\ buf + 1 \in 1..Len(header)
          /\ (buf + 1) % 2 = 1 /\ (buf + 1) - 1 = buf
      BY <1>0, <2>2, <2>4
    <3>2. sum' = sum + a
      <4>1. 2 * sum <= buf * (WORD - 1) /\ buf + 1 <= 2 * WORD - 1
        BY <1>0, <2>1, <2>4 DEF IInv, SumBound
      <4>2. a \in 0..WORD-1
        BY <3>1, WordRange
      <4> QED
        BY <1>0, <2>1, <2>4, <4>1, <4>2, AddFits
    <3>3. S[buf + 1] = S[(buf + 1) - 1] + Weight(header, buf + 1, Host)
      <4>1. \A i \in 1..Len(header) : S[i] = S[i - 1] + Weight(header, i, Host)
        BY <1>0, SumsStep
      <4> HIDE DEF S
      <4> QED
        BY <3>1, <4>1
    <3>4. Weight(header, buf + 1, Host) = a
      BY <3>1 DEF Weight, Host
    <3>5. sum' = S[Len(header)]
      BY <2>2, <3>1, <3>2, <3>3, <3>4
    <3> QED
      BY <2>1, <3>5 DEF HostInv
  <2> QED
    BY <2>3, <2>4
<1>3. CASE store
  BY <1>3 DEF store, HostInv
<1>4. CASE UNCHANGED vars
  BY <1>4 DEF HostInv, vars
<1> QED
  BY <1>1, <1>2, <1>3, <1>4 DEF Next, done

\* The sum of no message that fits a packet overflows the unsigned int: what the
\* code holds is the sum itself, with all its carries, whatever the octets, and
\* that sum is below the limit of the type.
THEOREM SumFitsCorrect == Spec => []SumFits
<1>1. IInv /\ HostInv => SumFits
  <2> SUFFICES ASSUME IInv, HostInv, pc \in {"loop", "fold"} PROVE SumFits
    BY DEF SumFits
  <2>1. sum = SumsUpTo(header, Host)[IF pc = "loop" THEN buf ELSE Len(header)]
    BY DEF HostInv
  <2>2. sum < WORD * WORD
    BY WordType DEF IInv, TypeOK
  <2> QED
    BY <2>1, <2>2 DEF SumFits
<1>2. IInv /\ HostInv /\ [Next]_vars => HostInv'
  BY StepHost
<1> QED
  BY <1>1, <1>2, InitHost, Invariant, PTL DEF Spec

\* The receiver accepts the message: the checksum computed in the order of the
\* machine verifies in network order, whatever the length, odd ones included,
\* and the octets.
THEOREM ChecksumVerifiesCorrect == Spec => []ChecksumVerifies
<1>1. AgreeInv => ChecksumVerifies
  BY DEF AgreeInv
<1>2. IInv /\ AgreeInv /\ [Next]_vars => AgreeInv'
  BY StepAgree
<1> QED
  BY <1>1, <1>2, InitAgree, Invariant, PTL DEF Spec

=============================================================================
