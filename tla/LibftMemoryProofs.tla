------------------------- MODULE LibftMemoryProofs -------------------------
(***************************************************************************)
(* Proofs about LibftMemory for every size of memory, every contents of    *)
(* it, every call that keeps its contract and every f given to the maps.   *)
(***************************************************************************)
EXTENDS LibftMemory, TLAPS, WellFoundedInduction

-----------------------------------------------------------------------------
(* The invariant: memory is what it was with part of the promised image    *)
(* written over it, and the counters say which part.                       *)

\* Memory o with the offsets W of what q promises written.
Mixed(q, o, W) ==
  [a \in Cells |-> IF a - Base(q, o) \in W THEN Image(q, o)[a - Base(q, o)] ELSE o[a]]

\* The offsets written so far.
Written ==
  IF call.f \in CatFs THEN 0..j-1
  ELSE IF call.f \in LookFs \cup {"memchr", "memcmp"} THEN {}
  ELSE IF call.f = "memmove" /\ ~Forwards THEN rest..call.n-1
  ELSE 0..i-1

Alike(q, o, x) == \A k \in 0..x-1 : o[q.d + k] = o[q.s + k]
Unsought(q, o, x) == \A k \in 0..x-1 : o[q.s + k] # ToChar(q.c)

\* How far the counters are, and what the turns of the loop before found.
At(q, o, x, y) ==
  LET s == TextLen(o, q.s)
      d == TextLen(o, q.d)
  IN /\ q.f \in {"memset", "bzero", "memalloc", "memcpy", "memmove"} => x <= q.n
     /\ q.f = "strnew" => x <= q.n + 1
     /\ q.f \in {"memccpy", "memchr"} => x <= q.n /\ Unsought(q, o, x)
     /\ q.f = "memcmp" => x <= q.n /\ Alike(q, o, x)
     /\ q.f \in {"strcmp", "strequ", "strncmp", "strnequ"} => x <= s /\ x <= d /\ Alike(q, o, x)
     /\ q.f \in {"strncmp", "strnequ"} => x = 0 \/ x < q.n
     /\ q.f \in {"strcpy", "strmap", "strmapi"} => x <= s
     /\ q.f = "strchr" => x <= s /\ Unsought(q, o, x)
     /\ q.f = "strrchr" => /\ x <= s /\ y <= x + 1 /\ (y > 0 => x = s)
                           /\ \A k \in x-y+1..x : o[q.s + k] # q.c
     /\ q.f = "strncpy" => x <= q.n /\ y = Least(x, s)
     /\ q.f \in CatFs => (y = 0 /\ x <= d) \/ (x = d + y /\ y <= Appended(q, o))
     /\ q.f = "strjoin" => x <= s + TextLen(o, q.t)
     /\ q.f = "strndup" => x <= q.n /\ x <= s
     /\ q.f \in {"striter", "striteri", "strclr"} => x <= d

\* The offsets W of the image are of octets that are promised, and in memory.
Promised(q, o, W) ==
  W \subseteq DOMAIN Image(q, o) /\ \A k \in W : k \in Int /\ Base(q, o) + k \in Cells

\* The part of the image that is written, all of it at the return.
Done == IF ret = NONE THEN Written ELSE DOMAIN Image(call, old)

IInv ==
  /\ call \in Calls /\ old \in Memories /\ Contract(call, old)
  /\ i \in Nat /\ j \in Nat
  /\ Promised(call, old, Done) /\ mem = Mixed(call, old, Done)
  /\ ret = NONE => At(call, old, i, j)
  /\ FindsOctet /\ ComparesUnsigned

\* What the lengths that are counted down are worth at the head of the loop.
CountFs == {"memset", "bzero", "memalloc", "memcpy", "memccpy", "memchr", "memcmp", "strndup"}

Counted ==
  /\ call.f \in CountFs => i <= call.n /\ rest = call.n - i
  /\ call.f = "memmove" /\ Forwards => i <= call.n /\ rest = call.n - i
  /\ call.f = "memmove" /\ ~Forwards => rest \in 0..call.n /\ (call.n # 0 => rest # 0)
  /\ call.f = "strncat" => j <= call.n /\ rest = call.n - j
  /\ call.f = "strnew" => /\ i <= call.n + 1
                          /\ rest = IF i <= call.n THEN call.n - i ELSE UINT - 1

CInv == ret = NONE => Counted

-----------------------------------------------------------------------------
(* Calls, texts and octets *)

LEMMA CallType ==
  ASSUME NEW q \in Calls
  PROVE  /\ q.f \in MemFs \cup CopyFs \cup MapFs \cup LookFs
         /\ q.d \in Cells /\ q.s \in Cells /\ q.t \in Cells
         /\ q.n \in 0..SIZE /\ q.c \in -HALF..2*HALF-1
BY CallsAssumption

LEMMA MemoryType == ASSUME NEW o \in Memories PROVE o \in [Cells -> Char]
BY MemoriesAssumption

\* The length of a text, and the only place of its NUL up to there.
LEMMA TextLenIs ==
  ASSUME NEW m, NEW a \in Nat, IsText(m, a)
  PROVE  /\ TextLen(m, a) \in Nat
         /\ \A k \in 0..TextLen(m, a) : a + k \in Cells /\ (m[a + k] = NUL <=> k = TextLen(m, a))
<1>1. TextLen(m, a) \in Cells /\ IsLen(m, a, TextLen(m, a))
  BY DEF IsText, TextLen
<1> QED
  BY <1>1, SizeAssumption DEF IsLen, Cells

\* No cell further on ends the text.
LEMMA TextLenUnique ==
  ASSUME NEW m, NEW a \in Nat, NEW k \in Cells, IsLen(m, a, k)
  PROVE  TextLen(m, a) = k
<1>1. TextLen(m, a) \in Cells /\ IsLen(m, a, TextLen(m, a))
  BY DEF TextLen
<1>2. \A x \in Nat, y \in Nat : x < y => x \in 0..y-1
  OBVIOUS
<1> QED
  BY <1>1, <1>2, SizeAssumption DEF IsLen, Cells

\* Two chars are the same when their octets are.
LEMMA UnsignedInjective ==
  ASSUME NEW x \in Char, NEW y \in Char
  PROVE  /\ Unsigned(x) \in Int /\ (Unsigned(x) = Unsigned(y) <=> x = y)
         /\ (Unsigned(x) - Unsigned(y) = 0 <=> x = y)
BY SizeAssumption DEF Char, Unsigned

LEMMA ToCharType ==
  ASSUME NEW x \in -HALF..2*HALF-1
  PROVE  ToChar(x) \in Char /\ (ToChar(x) = 0 <=> x = 0) /\ (x \in Char => ToChar(x) = x)
BY SizeAssumption DEF Char, ToChar

\* Every set of naturals with a member has a least one.
LEMMA LeastNat ==
  ASSUME NEW T, T \subseteq Nat, NEW m \in T
  PROVE  \E k \in T : \A n \in T : k <= n
<1>1. IsWellFoundedOn(OpToRel(<, Nat), Nat)
  BY NatLessThanWellFounded
<1>2. PICK k \in T : \A n \in T : ~(<<n, k>> \in OpToRel(<, Nat))
  BY <1>1, WFMin
<1>3. ASSUME NEW n \in T PROVE k <= n
  <2>1. n \in Nat /\ k \in Nat
    OBVIOUS
  <2>2. ~(<<n, k>> \in OpToRel(<, Nat))
    BY <1>2, <1>3
  <2>3. <<n, k>> \in Nat \X Nat /\ ~(<<n, k>>[1] < <<n, k>>[2])
    BY <2>1, <2>2 DEF OpToRel
  <2> QED
    BY <2>1, <2>3
<1> QED
  BY <1>2, <1>3

\* FirstSought is the first match in 0..n-1, or n.
LEMMA FirstSoughtIs ==
  ASSUME NEW q, NEW m, NEW n \in Nat, NEW k \in 0..n,
         Unsought(q, m, k), k < n => m[q.s + k] = ToChar(q.c)
  PROVE  FirstSought(q, m, n) = k
<1> DEFINE Hit(x) == m[q.s + x] = ToChar(q.c)
           First(x) == Hit(x) /\ \A y \in 0..x-1 : ~Hit(y)
<1>1. FirstSought(q, m, n) = IF \E x \in 0..n-1 : Hit(x) THEN CHOOSE x \in 0..n-1 : First(x) ELSE n
  BY DEF FirstSought
<1>2. \A y \in 0..k-1 : ~Hit(y)
  BY DEF Unsought
<1>3. k < n => Hit(k)
  OBVIOUS
<1> HIDE DEF Hit
<1>4. CASE k = n
  BY <1>1, <1>2, <1>4
<1>5. CASE k < n
  <2>1. k \in 0..n-1 /\ First(k)
    BY <1>2, <1>3, <1>5
  <2>2. (CHOOSE x \in 0..n-1 : First(x)) \in 0..n-1 /\ First(CHOOSE x \in 0..n-1 : First(x))
    BY <2>1
  <2>3. \A x \in 0..n-1 : First(x) => x = k
    <3> SUFFICES ASSUME NEW x \in 0..n-1, First(x) PROVE x = k
      OBVIOUS
    <3>1. ~(x < k) /\ ~(k < x)
      BY <2>1
    <3> QED
      BY <3>1
  <2> QED
    BY <1>1, <1>3, <1>5, <2>1, <2>2, <2>3
<1> QED
  BY <1>4, <1>5

\* There is one.
LEMMA FirstSoughtExists ==
  ASSUME NEW q, NEW m, NEW n \in Nat
  PROVE  \E k \in 0..n : /\ FirstSought(q, m, n) = k /\ Unsought(q, m, k)
                         /\ k < n => m[q.s + k] = ToChar(q.c)
<1> DEFINE T == {x \in 0..n : x < n => m[q.s + x] = ToChar(q.c)}
<1>1. T \subseteq Nat /\ n \in T
  OBVIOUS
<1>2. PICK k \in T : \A x \in T : k <= x
  <2> HIDE DEF T
  <2> QED
    BY <1>1, LeastNat
<1>3. k \in 0..n /\ (k < n => m[q.s + k] = ToChar(q.c))
  BY <1>2
<1>4. Unsought(q, m, k)
  <2> SUFFICES ASSUME NEW x \in 0..k-1, m[q.s + x] = ToChar(q.c) PROVE FALSE
    BY DEF Unsought
  <2>1. x \in T
    BY <1>3
  <2> QED
    BY <1>2, <1>3, <2>1
<1>5. FirstSought(q, m, n) = k
  BY <1>3, <1>4, FirstSoughtIs
<1> QED
  BY <1>3, <1>4, <1>5

-----------------------------------------------------------------------------
(* What a turn of a loop does to the invariant, whatever the function *)

\* No functions but these promise an answer.
Answers == {"memchr", "memccpy", "strchr", "strrchr",
            "memcmp", "strcmp", "strncmp", "strequ", "strnequ"}

LEMMA NoAnswer ==
  ASSUME UNCHANGED call, call.f \notin Answers
  PROVE  FindsOctet' /\ ComparesUnsigned'
BY DEF FindsOctet, ComparesUnsigned, Answers

LEMMA Types ==
  ASSUME IInv
  PROVE  /\ call.f \in MemFs \cup CopyFs \cup MapFs \cup LookFs
         /\ call.d \in Cells /\ call.s \in Cells /\ call.t \in Cells
         /\ call.n \in 0..SIZE /\ call.c \in -HALF..2*HALF-1
         /\ old \in [Cells -> Char] /\ SIZE \in Nat /\ i \in Nat /\ j \in Nat
         /\ \A a \in Cells : a \in Nat
         /\ Contract(call, old)
         /\ ret = NONE => At(call, old, i, j) /\ mem = Mixed(call, old, Written)
BY CallType, MemoryType, SizeAssumption DEF IInv, Cells, Done

\* Above 0 the decrement does not wrap,
LEMMA DownIs ==
  ASSUME rest \in 0..SIZE, rest # 0
  PROVE  Down = rest - 1
BY SizeAssumption DEF Down

\* and the size of strnew is at its wrap after one octet more than its length.
LEMMA StrnewEnds ==
  ASSUME IInv, CInv, ret = NONE, call.f = "strnew"
  PROVE  i <= call.n + 1 /\ ((rest + 1) % UINT # 0 <=> i < call.n + 1)
<1>1. i \in Nat /\ call.n \in Nat /\ call.d \in Nat /\ call.d + (call.n + 1) <= SIZE /\ SIZE \in Nat
  BY Types DEF Contract, Fits
<1>2. i <= call.n + 1 /\ rest = IF i <= call.n THEN call.n - i ELSE UINT - 1
  BY DEF CInv, Counted
<1>3. UINT \in Nat /\ call.n + 1 < UINT
  BY <1>1, SizeAssumption
<1>4. CASE i <= call.n
  <2>1. rest + 1 \in 1..UINT-1
    BY <1>1, <1>2, <1>3, <1>4
  <2>2. (rest + 1) % UINT = rest + 1
    BY <1>3, <2>1
  <2> QED
    BY <1>1, <1>4, <2>1, <2>2
<1>5. CASE i = call.n + 1
  <2>1. rest + 1 = UINT /\ UINT % UINT = 0
    BY <1>1, <1>2, <1>3, <1>5
  <2> QED
    BY <1>5, <2>1
<1> QED
  BY <1>1, <1>2, <1>4, <1>5

\* Octet k of the image is written in its place.
Puts(k) ==
  /\ k \in Int /\ k \in DOMAIN Image(call, old) /\ Base(call, old) + k \in Cells
  /\ mem' = [mem EXCEPT ![Base(call, old) + k] = Image(call, old)[k]]

LEMMA PutMixed ==
  ASSUME NEW k, Puts(k), Base(call, old) \in Int,
         mem = Mixed(call, old, Written)
  PROVE  mem' = Mixed(call, old, Written \cup {k})
<1> DEFINE b == Base(call, old)
           g == Image(call, old)
           W == Written
<1>1. mem = [a \in Cells |-> IF a - b \in W THEN g[a - b] ELSE old[a]]
  BY DEF Mixed
<1>2. b \in Int /\ k \in Int /\ mem' = [mem EXCEPT ![b + k] = g[k]]
  BY DEF Puts
<1> HIDE DEF b, g, W
<1>3. \A a \in Cells : (a = b + k) <=> (a - b = k)
  BY <1>2 DEF Cells
<1>4. mem' = [a \in Cells |-> IF a - b \in W \cup {k} THEN g[a - b] ELSE old[a]]
  BY <1>1, <1>2, <1>3
<1> QED
  BY <1>4 DEF Mixed, b, g, W

\* A cell outside of what is written is as it was.
Unwritten(a) == a \in Cells /\ a - Base(call, old) \notin Written

LEMMA Kept ==
  ASSUME IInv, ret = NONE, NEW a, Unwritten(a)
  PROVE  mem[a] = old[a]
BY DEF Mixed, IInv, Unwritten, Done

\* What is promised of the octets written before and of this one.
LEMMA PutPromised ==
  ASSUME NEW k, Puts(k), Promised(call, old, Written)
  PROVE  Promised(call, old, Written \cup {k})
BY DEF Promised, Puts

LEMMA Before ==
  ASSUME IInv, ret = NONE
  PROVE  /\ Promised(call, old, Written)
         /\ mem = Mixed(call, old, Written)
BY DEF IInv, Done

LEMMA Wrote ==
  ASSUME IInv, ret = NONE, NEW k, Puts(k), Base(call, old) \in Int,
         UNCHANGED <<call, old, ret>>, i' \in Nat, j' \in Nat,
         Written' = Written \cup {k},
         At(call, old, i', j')
  PROVE  IInv'
<1>1. /\ mem' = Mixed(call, old, Written')
      /\ Promised(call, old, Written')
  BY Before, PutMixed, PutPromised
<1>2. FindsOctet' /\ ComparesUnsigned'
  BY DEF FindsOctet, ComparesUnsigned
<1>3. Done' = Written' /\ At(call, old, i, j)'
  BY DEF Done
<1>4. Promised(call, old, Done)' /\ mem' = Mixed(call, old, Done)'
  BY <1>1, <1>3
<1> QED
  BY <1>2, <1>3, <1>4 DEF IInv

LEMMA Skipped ==
  ASSUME IInv, ret = NONE, UNCHANGED <<call, old, mem, ret>>, i' \in Nat, j' \in Nat,
         Written' = Written,
         At(call, old, i', j')
  PROVE  IInv'
<1>1. FindsOctet' /\ ComparesUnsigned'
  BY DEF FindsOctet, ComparesUnsigned
<1>2. Done' = Written /\ At(call, old, i, j)'
  BY DEF Done
<1>3. Promised(call, old, Done)' /\ mem' = Mixed(call, old, Done)'
  BY <1>2, Before
<1> QED
  BY <1>1, <1>2, <1>3 DEF IInv

\* A return: what is left of the image is what memory held already.
LEMMA Left ==
  ASSUME IInv, ret = NONE, ret' # NONE, UNCHANGED <<call, old, mem, i, j>>,
         Base(call, old) \in Int,
         \A k \in DOMAIN Image(call, old) \ Written :
            /\ k \in Int /\ Base(call, old) + k \in Cells
            /\ old[Base(call, old) + k] = Image(call, old)[k],
         FindsOctet', ComparesUnsigned'
  PROVE  IInv'
<1> DEFINE b == Base(call, old)
           g == Image(call, old)
           W == Written
           D == DOMAIN Image(call, old)
<1>1. /\ mem = [a \in Cells |-> IF a - b \in W THEN g[a - b] ELSE old[a]]
      /\ W \subseteq D /\ \A k \in W : k \in Int /\ b + k \in Cells
  BY Before DEF Mixed, Promised
<1>2. b \in Int /\ \A k \in D \ W : k \in Int /\ b + k \in Cells /\ old[b + k] = g[k]
  OBVIOUS
<1> HIDE DEF b, g, W, D
<1>3. \A a \in Cells : b + (a - b) = a
  BY <1>2 DEF Cells
<1>4. mem = [a \in Cells |-> IF a - b \in D THEN g[a - b] ELSE old[a]]
  BY <1>1, <1>2, <1>3
<1>5. \A k \in D : k \in Int /\ b + k \in Cells
  BY <1>1, <1>2
<1>6. mem = Mixed(call, old, D) /\ Promised(call, old, D)
  BY <1>4, <1>5 DEF Mixed, Promised, b, g, D
<1>7. Done' = D
  BY DEF Done, D
<1>8. Promised(call, old, Done)' /\ mem' = Mixed(call, old, Done)'
  BY <1>6, <1>7
<1> QED
  BY <1>8 DEF IInv

\* A return when all of the image is written.
LEMMA AllWritten ==
  ASSUME IInv, ret = NONE, ret' # NONE, UNCHANGED <<call, old, mem, i, j>>,
         Base(call, old) \in Int,
         DOMAIN Image(call, old) = Written,
         FindsOctet', ComparesUnsigned'
  PROVE  IInv'
BY Left

\* A return that writes the last octet.
LEMMA WroteLast ==
  ASSUME IInv, ret = NONE, ret' # NONE, NEW k, Puts(k), Base(call, old) \in Int,
         UNCHANGED <<call, old, i, j>>,
         DOMAIN Image(call, old) = Written \cup {k},
         FindsOctet', ComparesUnsigned'
  PROVE  IInv'
<1>1. /\ mem' = Mixed(call, old, DOMAIN Image(call, old))
      /\ Promised(call, old, DOMAIN Image(call, old))
  BY Before, PutMixed, PutPromised
<1>2. Done' = DOMAIN Image(call, old)
  BY DEF Done
<1>3. Promised(call, old, Done)' /\ mem' = Mixed(call, old, Done)'
  BY <1>1, <1>2
<1> QED
  BY <1>3 DEF IInv

-----------------------------------------------------------------------------
(* The functions that write one octet after the other from call.d on *)

StraightFs == {"memset", "bzero", "memalloc", "strnew", "memcpy", "memccpy", "strcpy", "strncpy",
               "strjoin", "strndup", "strmap", "strmapi", "striter", "striteri", "strclr"}

LEMMA Straight ==
  ASSUME IInv, call.f \in StraightFs
  PROVE  /\ Base(call, old) = call.d /\ call.d \in Nat /\ i \in Nat /\ j \in Nat
         /\ Written = 0..i-1 /\ (UNCHANGED call => Written' = 0..i'-1)
<1>1. call.d \in Nat /\ i \in Nat /\ j \in Nat
  BY Types
<1>2. Base(call, old) = call.d
  BY DEF Base, CatFs, StraightFs
<1>3. Written = 0..i-1 /\ (UNCHANGED call => Written' = 0..i'-1)
  BY DEF Written, CatFs, LookFs, StraightFs
<1> QED
  BY <1>1, <1>2, <1>3

\* What is not written yet is as it was.
LEMMA StraightKept ==
  ASSUME IInv, ret = NONE, call.f \in StraightFs, NEW a \in Cells,
         a < call.d \/ a >= call.d + i
  PROVE  mem[a] = old[a]
<1>1. /\ Base(call, old) = call.d /\ Written = 0..i-1
      /\ call.d \in Nat /\ i \in Nat /\ a \in Int
  BY Straight, Types
<1>2. Unwritten(a)
  BY <1>1 DEF Unwritten
<1> QED
  BY <1>2, Kept

\* One octet more,
LEMMA Onwards ==
  ASSUME IInv, ret = NONE, call.f \in StraightFs, call.d + i \in Cells,
         i \in DOMAIN Image(call, old), Put(call.d + i, Image(call, old)[i]),
         i' = i + 1, j' \in Nat, UNCHANGED <<call, old, ret>>,
         At(call, old, i + 1, j')
  PROVE  IInv'
<1>1. Base(call, old) = call.d /\ call.d \in Nat /\ i \in Nat /\ j \in Nat /\ i' \in Nat
  BY Straight
<1>2. Puts(i)
  BY <1>1 DEF Puts, Put
<1>3. Written' = Written \cup {i}
  <2>1. Written' = 0..i'-1 /\ Written = 0..i-1
    BY <1>1, Straight
  <2> QED
    BY <1>1, <2>1
<1>4. At(call, old, i', j')
  OBVIOUS
<1> QED
  BY <1>1, <1>2, <1>3, <1>4, Wrote

\* the last octet and the return,
LEMMA OnwardsLast ==
  ASSUME IInv, ret = NONE, call.f \in StraightFs, call.d + i \in Cells,
         Put(call.d + i, Image(call, old)[i]),
         ret' # NONE, UNCHANGED <<call, old, i, j>>,
         DOMAIN Image(call, old) = 0..i,
         FindsOctet', ComparesUnsigned'
  PROVE  IInv'
<1>1. Base(call, old) = call.d /\ call.d \in Nat /\ i \in Nat /\ j \in Nat
  BY Straight
<1>2. Puts(i)
  <2>1. i \in DOMAIN Image(call, old)
    BY <1>1
  <2> QED
    BY <1>1, <2>1 DEF Puts, Put
<1>3. DOMAIN Image(call, old) = Written \cup {i}
  <2>1. Written = 0..i-1
    BY <1>1, Straight
  <2> QED
    BY <1>1, <2>1
<1> QED
  BY <1>1, <1>2, <1>3, WroteLast

\* and a return with every octet written.
LEMMA OnwardsDone ==
  ASSUME IInv, ret = NONE, call.f \in StraightFs,
         ret' # NONE, UNCHANGED <<call, old, mem, i, j>>,
         DOMAIN Image(call, old) = 0..i-1,
         FindsOctet', ComparesUnsigned'
  PROVE  IInv'
<1>1. Base(call, old) = call.d /\ call.d \in Nat /\ i \in Nat /\ j \in Nat
  BY Straight
<1>2. DOMAIN Image(call, old) = Written
  BY <1>1, Straight
<1> QED
  BY <1>1, <1>2, AllWritten

LEMMA Fills ==
  ASSUME IInv, CInv, ft_memset \/ ft_bzero \/ ft_memalloc \/ ft_strnew
  PROVE  IInv'
<1> DEFINE n == IF call.f = "strnew" THEN call.n + 1 ELSE call.n
           v == IF call.f = "memset" THEN ToChar(call.c) ELSE NUL
<1>1. /\ call.f \in {"memset", "bzero", "memalloc", "strnew"} /\ ret = NONE
      /\ Fill(IF call.f = "strnew" THEN (rest + 1) % UINT # 0 ELSE rest # 0, v)
  BY DEF ft_memset, ft_bzero, ft_memalloc, ft_strnew, Runs, Fill, NUL
<1>2. /\ n \in Nat /\ call.n \in Nat /\ i \in Nat /\ j \in Nat
      /\ call.d \in Nat /\ SIZE \in Nat /\ call.d # NONE
  BY <1>1, Types, NullAssumption
<1>3. call.f \in StraightFs /\ call.f \notin Answers
  BY <1>1 DEF StraightFs, Answers
<1>4. /\ DOMAIN Image(call, old) = 0..n-1
      /\ \A k \in 0..n-1 : Image(call, old)[k] = v
  <2>1. CASE call.f = "memset"
    <3>1. n = call.n /\ v = ToChar(call.c)
      BY <2>1
    <3>2. Image(call, old) = [k \in 0..call.n-1 |-> ToChar(call.c)]
      BY <2>1 DEF Image, CatFs, NUL
    <3> HIDE DEF n, v
    <3> QED
      BY <1>2, <3>1, <3>2
  <2>2. CASE call.f \in {"bzero", "memalloc"}
    <3>1. n = call.n /\ v = NUL
      BY <2>2
    <3>2. Image(call, old) = [k \in 0..call.n-1 |-> NUL]
      BY <2>2 DEF Image, CatFs, NUL
    <3> HIDE DEF n, v
    <3> QED
      BY <1>2, <3>1, <3>2
  <2>3. CASE call.f = "strnew"
    <3>1. n = call.n + 1 /\ v = NUL
      BY <2>3
    <3>2. Image(call, old) = [k \in 0..call.n |-> NUL]
      BY <2>3 DEF Image, CatFs, NUL
    <3> HIDE DEF n, v
    <3> QED
      BY <1>2, <3>1, <3>2
  <2> QED
    BY <1>1, <2>1, <2>2, <2>3
<1>5. \A k \in 0..n-1 : call.d + k \in Cells
  <2>1. Contract(call, old)
    BY Types
  <2>2. call.d + n <= SIZE
    BY <1>1, <2>1 DEF Contract, Fits
  <2> HIDE DEF n
  <2> QED
    BY <1>2, <2>2 DEF Cells
<1>6. ASSUME NEW x \in Nat, NEW y \in Nat, x <= n PROVE At(call, old, x, y)
  BY <1>1, <1>2, <1>6 DEF At, CatFs
<1>7. i <= n /\ ((IF call.f = "strnew" THEN (rest + 1) % UINT # 0 ELSE rest # 0) <=> i < n)
  <2>1. CASE call.f = "strnew"
    BY <1>1, <2>1, StrnewEnds
  <2>2. CASE call.f # "strnew"
    BY <1>1, <1>2, <2>2 DEF CInv, Counted, CountFs
  <2> QED
    BY <2>1, <2>2
<1> HIDE DEF n, v
<1>8. CASE i < n /\ Put(dst + i, v) /\ Turn(0)
  <2>1. UNCHANGED <<call, old, ret>> /\ i' = i + 1 /\ j' = j
    BY <1>8, <1>2 DEF Turn
  <2>2. /\ call.d + i \in Cells
        /\ i \in DOMAIN Image(call, old) /\ Image(call, old)[i] = v
    BY <1>2, <1>4, <1>5, <1>8
  <2>3. At(call, old, i + 1, j')
    BY <1>2, <1>6, <1>8, <2>1
  <2> QED
    BY <1>1, <1>2, <1>3, <1>8, <2>1, <2>2, <2>3, Onwards DEF dst
<1>9. CASE i = n /\ Return(dst)
  <2>1. UNCHANGED <<call, old, mem, i, j>> /\ ret' # NONE
    BY <1>2, <1>9 DEF Return, dst
  <2> QED
    BY <1>1, <1>3, <1>4, <1>9, <2>1, NoAnswer, OnwardsDone
<1> QED
  BY <1>1, <1>2, <1>7, <1>8, <1>9 DEF Fill

LEMMA Rewrites ==
  ASSUME IInv, ft_striter \/ ft_striteri \/ ft_strclr
  PROVE  IInv'
<1> DEFINE n == TextLen(old, call.d)
<1>1. call.f \in {"striter", "striteri", "strclr"} /\ ret = NONE
  BY DEF ft_striter, ft_striteri, ft_strclr, Runs
<1>2. /\ i \in Nat /\ j \in Nat /\ call.d \in Nat /\ call.d # NONE
      /\ At(call, old, i, j) /\ Contract(call, old)
  BY <1>1, Types, NullAssumption
<1>3. call.f \in StraightFs /\ call.f \notin Answers
  BY <1>1 DEF StraightFs, Answers
<1>4. n \in Nat /\ \A k \in 0..n : call.d + k \in Cells
  <2>1. IsText(old, call.d)
    BY <1>1, <1>2 DEF Contract
  <2> QED
    BY <1>2, <2>1, TextLenIs
<1>5. i <= n
  BY <1>1, <1>2 DEF At
<1>6. ASSUME NEW x \in Nat, NEW y \in Nat, x <= n PROVE At(call, old, x, y)
  BY <1>1, <1>6 DEF At, CatFs
<1>7. i < n => mem[call.d + i] = old[call.d + i]
  <2> SUFFICES ASSUME i < n PROVE mem[call.d + i] = old[call.d + i]
    OBVIOUS
  <2>1. call.d + i \in Cells
    BY <1>2, <1>4
  <2> DEFINE a == call.d + i
  <2>2. a \in Cells /\ a >= call.d + i
    BY <1>2, <2>1
  <2> HIDE DEF a
  <2>3. mem[a] = old[a]
    BY <1>1, <1>3, <2>2, StraightKept
  <2> QED
    BY <2>3 DEF a
<1> DEFINE v == CASE call.f = "striter" -> F[old[call.d + i]]
                  [] call.f = "striteri" -> FI[i][old[call.d + i]]
                  [] OTHER -> NUL
<1>8. DOMAIN Image(call, old) = 0..n-1 /\ (i < n => Image(call, old)[i] = v)
  <2> DEFINE g == Image(call, old)
  <2>1. CASE call.f = "striter"
    <3>1. g = [k \in 0..n-1 |-> F[old[call.d + k]]]
      BY <2>1 DEF Image, CatFs, NUL
    <3>2. v = F[old[call.d + i]]
      BY <2>1
    <3> HIDE DEF n, v, g
    <3>3. DOMAIN g = 0..n-1 /\ (i < n => g[i] = v)
      BY <1>2, <1>4, <3>1, <3>2
    <3> QED
      BY <3>3 DEF g
  <2>2. CASE call.f = "striteri"
    <3>1. g = [k \in 0..n-1 |-> FI[k][old[call.d + k]]]
      BY <2>2 DEF Image, CatFs, NUL
    <3>2. v = FI[i][old[call.d + i]]
      BY <2>2
    <3> HIDE DEF n, v, g
    <3>3. DOMAIN g = 0..n-1 /\ (i < n => g[i] = v)
      BY <1>2, <1>4, <3>1, <3>2
    <3> QED
      BY <3>3 DEF g
  <2>3. CASE call.f = "strclr"
    <3>1. g = [k \in 0..n-1 |-> NUL]
      BY <2>3 DEF Image, CatFs, NUL
    <3>2. v = NUL
      BY <2>3
    <3> HIDE DEF n, v, g
    <3>3. DOMAIN g = 0..n-1 /\ (i < n => g[i] = v)
      BY <1>2, <1>4, <3>1, <3>2
    <3> QED
      BY <3>3 DEF g
  <2> QED
    BY <1>1, <2>1, <2>2, <2>3
<1>9. Rewrite(v)
  <2>1. CASE call.f = "striter"
    BY <1>7, <2>1 DEF ft_striter, ft_striteri, ft_strclr, Runs, Rewrite, dst
  <2>2. CASE call.f = "striteri"
    BY <1>7, <2>2 DEF ft_striter, ft_striteri, ft_strclr, Runs, Rewrite, dst
  <2>3. CASE call.f = "strclr"
    BY <2>3 DEF ft_striter, ft_striteri, ft_strclr, Runs
  <2> QED
    BY <1>1, <2>1, <2>2, <2>3
<1> HIDE DEF n, v
<1>10. CASE i < n /\ Put(dst + i, v) /\ Up(1, 0)
  <2>1. UNCHANGED <<call, old, ret>> /\ i' = i + 1 /\ j' = j
    BY <1>10, <1>2 DEF Up
  <2>2. /\ call.d + i \in Cells
        /\ i \in DOMAIN Image(call, old) /\ Image(call, old)[i] = v
    BY <1>2, <1>4, <1>8, <1>10
  <2>3. At(call, old, i + 1, j')
    BY <1>2, <1>4, <1>6, <1>10, <2>1
  <2> QED
    BY <1>1, <1>2, <1>3, <1>10, <2>1, <2>2, <2>3, Onwards DEF dst
<1>11. CASE i = n /\ Return(dst)
  <2>1. UNCHANGED <<call, old, mem, i, j>> /\ ret' # NONE
    BY <1>2, <1>11 DEF Return, dst
  <2> QED
    BY <1>1, <1>3, <1>8, <1>11, <2>1, NoAnswer, OnwardsDone
<1> QED
  BY <1>9, <1>10, <1>11 DEF Rewrite, n, dst

LEMMA Maps ==
  ASSUME IInv, ft_strcpy \/ ft_strmap \/ ft_strmapi
  PROVE  IInv'
<1> DEFINE n == TextLen(old, call.s)
           c == call.s + i
<1>1. call.f \in {"strcpy", "strmap", "strmapi"} /\ ret = NONE
  BY DEF ft_strcpy, ft_strmap, ft_strmapi, Runs
<1>2. /\ i \in Nat /\ j \in Nat /\ call.d \in Nat /\ call.d # NONE /\ call.s \in Nat
      /\ At(call, old, i, j) /\ Contract(call, old) /\ SIZE \in Nat
  BY <1>1, Types, NullAssumption
<1>3. call.f \in StraightFs /\ call.f \notin Answers
  BY <1>1 DEF StraightFs, Answers
<1>4. n \in Nat /\ \A k \in 0..n : call.s + k \in Cells /\ (old[call.s + k] = NUL <=> k = n)
  <2>1. IsText(old, call.s)
    BY <1>1, <1>2 DEF Contract, CopyFs
  <2> QED
    BY <1>2, <2>1, TextLenIs
<1>5. i <= n
  BY <1>1, <1>2 DEF At
<1>6. ASSUME NEW x \in Nat, NEW y \in Nat, x <= n PROVE At(call, old, x, y)
  BY <1>1, <1>6 DEF At, CatFs
<1>7. Apart(call.d, n + 1, call.s, n + 1)
  BY <1>1, <1>2 DEF Contract
<1>8. c \in Cells /\ mem[c] = old[c] /\ (old[c] = NUL <=> i = n) /\ call.d + i \in Cells
  <2>1. c \in Cells /\ (old[c] = NUL <=> i = n)
    BY <1>2, <1>4, <1>5
  <2>2. c < call.d \/ c >= call.d + i
    BY <1>2, <1>4, <1>5, <1>7 DEF Apart
  <2>3. call.d + i \in Cells
    BY <1>2, <1>4, <1>5, <1>7 DEF Apart, Fits, Cells
  <2> HIDE DEF c
  <2>4. mem[c] = old[c]
    BY <1>1, <1>3, <2>1, <2>2, StraightKept
  <2> QED
    BY <2>1, <2>3, <2>4
<1> DEFINE v == CASE call.f = "strcpy" -> old[c]
                  [] call.f = "strmap" -> F[old[c]]
                  [] OTHER -> FI[i][old[c]]
<1>9. DOMAIN Image(call, old) = 0..n /\ Image(call, old)[i] = IF i < n THEN v ELSE NUL
  <2> DEFINE g == Image(call, old)
  <2>1. CASE call.f = "strcpy"
    <3>1. g = [k \in 0..n |-> TextAt(old, call.s, k)]
      BY <2>1 DEF Image, CatFs, NUL
    <3>2. v = old[c] /\ TextAt(old, call.s, i) = IF i < n THEN old[c] ELSE NUL
      BY <2>1 DEF TextAt
    <3> HIDE DEF n, v, g, c
    <3>3. DOMAIN g = 0..n /\ g[i] = IF i < n THEN v ELSE NUL
      BY <1>2, <1>4, <1>5, <3>1, <3>2
    <3> QED
      BY <3>3 DEF g
  <2>2. CASE call.f = "strmap"
    <3>1. g = [k \in 0..n |-> IF k < n THEN F[old[call.s + k]] ELSE NUL]
      BY <2>2 DEF Image, CatFs, NUL
    <3>2. v = F[old[call.s + i]]
      BY <2>2
    <3> HIDE DEF n, v, g, c
    <3>3. DOMAIN g = 0..n /\ g[i] = IF i < n THEN v ELSE NUL
      BY <1>2, <1>4, <1>5, <3>1, <3>2
    <3> QED
      BY <3>3 DEF g
  <2>3. CASE call.f = "strmapi"
    <3>1. g = [k \in 0..n |-> IF k < n THEN FI[k][old[call.s + k]] ELSE NUL]
      BY <2>3 DEF Image, CatFs, NUL
    <3>2. v = FI[i][old[call.s + i]]
      BY <2>3
    <3> HIDE DEF n, v, g, c
    <3>3. DOMAIN g = 0..n /\ g[i] = IF i < n THEN v ELSE NUL
      BY <1>2, <1>4, <1>5, <3>1, <3>2
    <3> QED
      BY <3>3 DEF g
  <2> QED
    BY <1>1, <2>1, <2>2, <2>3
<1>10. \/ i # n /\ Put(call.d + i, v) /\ i' = i + 1 /\ j' \in Nat /\ UNCHANGED <<call, old, ret>>
       \/ i = n /\ PutReturn(call.d + i, NUL, call.d)
  <2>1. CASE call.f = "strcpy"
    <3>1. v = mem[src + i]
      BY <1>8, <2>1 DEF src
    <3> HIDE DEF v
    <3>2. ft_strcpy
      BY <2>1 DEF ft_strmap, ft_strmapi, Runs
    <3> QED
      BY <1>2, <1>8, <3>1, <3>2 DEF ft_strcpy, dst, src, Up
  <2>2. CASE call.f = "strmap"
    <3>1. v = F[mem[src + i]]
      BY <1>8, <2>2 DEF src
    <3> HIDE DEF v
    <3>2. Map(F)
      BY <2>2 DEF ft_strcpy, ft_strmap, ft_strmapi, Runs
    <3> QED
      BY <1>2, <1>8, <3>1, <3>2 DEF Map, dst, src, Up
  <2>3. CASE call.f = "strmapi"
    <3>1. v = FI[i][mem[src + i]]
      BY <1>8, <2>3 DEF src
    <3> HIDE DEF v
    <3>2. Map(FI[i])
      BY <2>3 DEF ft_strcpy, ft_strmap, ft_strmapi, Runs
    <3> QED
      BY <1>2, <1>8, <3>1, <3>2 DEF Map, dst, src, Up
  <2> QED
    BY <1>1, <2>1, <2>2, <2>3
<1> HIDE DEF n, v, c
<1>11. CASE i # n /\ Put(call.d + i, v) /\ i' = i + 1 /\ j' \in Nat /\ UNCHANGED <<call, old, ret>>
  <2>1. i \in DOMAIN Image(call, old) /\ Image(call, old)[i] = v
    BY <1>2, <1>4, <1>5, <1>9, <1>11
  <2>2. At(call, old, i + 1, j')
    BY <1>2, <1>4, <1>5, <1>6, <1>11
  <2> QED
    BY <1>1, <1>3, <1>8, <1>11, <2>1, <2>2, Onwards
<1>12. CASE i = n /\ PutReturn(call.d + i, NUL, call.d)
  <2>1. UNCHANGED <<call, old, i, j>> /\ ret' # NONE /\ Put(call.d + i, NUL)
    BY <1>2, <1>12 DEF PutReturn
  <2>2. Image(call, old)[i] = NUL /\ DOMAIN Image(call, old) = 0..i
    BY <1>4, <1>9, <1>12
  <2> QED
    BY <1>1, <1>3, <1>8, <2>1, <2>2, NoAnswer, OnwardsLast
<1> QED
  BY <1>10, <1>11, <1>12

LEMMA Memcpy ==
  ASSUME IInv, CInv, ft_memcpy
  PROVE  IInv'
<1> DEFINE n == call.n
           c == call.s + i
<1>1. call.f = "memcpy" /\ ret = NONE
  BY DEF ft_memcpy, Runs
<1>2. /\ i \in Nat /\ j \in Nat /\ n \in Nat /\ call.d \in Nat /\ call.d # NONE /\ call.s \in Nat
      /\ At(call, old, i, j) /\ Contract(call, old) /\ SIZE \in Nat
  BY <1>1, Types, NullAssumption
<1>3. call.f \in StraightFs /\ call.f \notin Answers
  BY <1>1 DEF StraightFs, Answers
<1>4. i <= n /\ (rest # 0 <=> i < n)
  BY <1>1, <1>2 DEF CInv, Counted, CountFs
<1>5. ASSUME NEW x \in Nat, NEW y \in Nat, x <= n PROVE At(call, old, x, y)
  BY <1>1, <1>5 DEF At, CatFs
<1>6. Apart(call.d, n, call.s, n)
  BY <1>1, <1>2 DEF Contract
<1>7. Image(call, old) = [k \in 0..n-1 |-> old[call.s + k]]
  BY <1>1 DEF Image, CatFs, NUL
<1>8. i < n => c \in Cells /\ mem[c] = old[c] /\ call.d + i \in Cells
                /\ i \in DOMAIN Image(call, old) /\ Image(call, old)[i] = old[c]
  <2> SUFFICES ASSUME i < n
               PROVE  c \in Cells /\ mem[c] = old[c] /\ call.d + i \in Cells
                      /\ i \in DOMAIN Image(call, old) /\ Image(call, old)[i] = old[c]
    OBVIOUS
  <2>1. c \in Cells /\ call.d + i \in Cells /\ (c < call.d \/ c >= call.d + i)
    BY <1>2, <1>6 DEF Apart, Fits, Cells
  <2>2. i \in DOMAIN Image(call, old) /\ Image(call, old)[i] = old[c]
    BY <1>2, <1>7
  <2> HIDE DEF c
  <2>3. mem[c] = old[c]
    BY <1>1, <1>3, <2>1, StraightKept
  <2> QED
    BY <2>1, <2>2, <2>3
<1>9. CASE i < n /\ Copy
  <2>1. /\ UNCHANGED <<call, old, ret>> /\ i' = i + 1 /\ j' = j
        /\ Put(call.d + i, mem[c])
    BY <1>2, <1>9 DEF Copy, Turn, dst, src
  <2>2. At(call, old, i + 1, j')
    BY <1>2, <1>5, <1>9, <2>1
  <2> QED
    BY <1>1, <1>2, <1>3, <1>8, <1>9, <2>1, <2>2, Onwards
<1>10. CASE i = n /\ Return(dst)
  <2>1. UNCHANGED <<call, old, mem, i, j>> /\ ret' # NONE
    BY <1>2, <1>10 DEF Return, dst
  <2>2. DOMAIN Image(call, old) = 0..i-1
    BY <1>7, <1>10
  <2> QED
    BY <1>1, <1>3, <2>1, <2>2, NoAnswer, OnwardsDone
<1> QED
  BY <1>2, <1>4, <1>9, <1>10 DEF ft_memcpy, CopyForwards

\* Whichever way memmove goes, what it has still to read is not overwritten.
LEMMA Memmove ==
  ASSUME IInv, CInv, ft_memmove
  PROVE  IInv'
<1> DEFINE n == call.n
           k == IF Forwards THEN i ELSE rest - 1
           c == call.s + k
<1>1. call.f = "memmove" /\ ret = NONE
  BY DEF ft_memmove, Runs
<1>2. /\ i \in Nat /\ j \in Nat /\ n \in Nat /\ call.d \in Nat /\ call.d # NONE /\ call.s \in Nat
      /\ At(call, old, i, j) /\ Contract(call, old) /\ SIZE \in Nat
  BY <1>1, Types, NullAssumption
<1>3. call.f \notin Answers /\ Base(call, old) = call.d
  BY <1>1 DEF Answers, Base, CatFs
<1>4. /\ Forwards => i <= n /\ rest = n - i
      /\ ~Forwards => rest \in 0..n /\ (n # 0 => rest # 0)
      /\ Forwards <=> call.d < call.s
  BY <1>1, <1>2 DEF CInv, Counted, Forwards, dst, src
<1>5. ASSUME NEW x \in Nat, NEW y \in Nat, x <= n PROVE At(call, old, x, y)
  BY <1>1, <1>5 DEF At, CatFs
<1>6. call.d + n <= SIZE /\ call.s + n <= SIZE
  BY <1>1, <1>2 DEF Contract, Fits
<1>7. Image(call, old) = [x \in 0..n-1 |-> old[call.s + x]]
  BY <1>1 DEF Image, CatFs, NUL
<1>8. /\ Written = IF Forwards THEN 0..i-1 ELSE rest..n-1
      /\ UNCHANGED call => Written' = IF Forwards THEN 0..i'-1 ELSE rest'..n-1
  BY <1>1 DEF Written, CatFs, LookFs, Forwards, dst, src
\* The octet of this turn, and that it is still as it was in the source,
<1>9. ASSUME k \in 0..n-1
      PROVE  /\ call.d + k \in Cells /\ c \in Cells /\ k \in DOMAIN Image(call, old)
             /\ mem[c] = Image(call, old)[k]
  <2>1. c \in Cells /\ call.d + k \in Cells
    BY <1>2, <1>6, <1>9 DEF Cells
  <2>2. Unwritten(c)
    <3>1. c - call.d \notin Written
      BY <1>2, <1>4, <1>8, <1>9
    <3> QED
      BY <1>3, <2>1, <3>1 DEF Unwritten
  <2>3. mem[c] = old[c]
    <3> HIDE DEF c
    <3> QED
      BY <1>1, <2>2, Kept
  <2>4. Image(call, old)[k] = old[c]
    <3>1. \A x \in 0..n-1 : Image(call, old)[x] = old[call.s + x]
      BY <1>7
    <3> HIDE DEF k, n
    <3> QED
      BY <1>9, <3>1
  <2>5. k \in DOMAIN Image(call, old)
    <3>1. DOMAIN Image(call, old) = 0..n-1
      BY <1>7
    <3> HIDE DEF k, n
    <3> QED
      BY <1>9, <3>1
  <2> QED
    BY <2>1, <2>3, <2>4, <2>5
<1>10. ASSUME k \in 0..n-1, Put(call.d + k, mem[c]) PROVE Puts(k)
  <2>1. k \in Int /\ Base(call, old) + k = call.d + k
    BY <1>2, <1>3, <1>10
  <2>2. /\ call.d + k \in Cells /\ k \in DOMAIN Image(call, old)
        /\ mem[c] = Image(call, old)[k]
    BY <1>9, <1>10
  <2> HIDE DEF k, c, n
  <2>3. mem' = [mem EXCEPT ![Base(call, old) + k] = Image(call, old)[k]]
    BY <1>10, <2>1, <2>2 DEF Put
  <2> QED
    BY <2>1, <2>2, <2>3 DEF Puts
\* forwards,
<1>11. CASE Forwards /\ i < n /\ Copy
  <2>1. /\ UNCHANGED <<call, old, ret>> /\ i' = i + 1 /\ j' = j /\ i' \in Nat /\ i' <= n
        /\ Put(call.d + k, mem[c]) /\ k = i /\ k \in 0..n-1
    BY <1>2, <1>11 DEF Copy, Turn, dst, src
  <2>2. Written' = Written \cup {k}
    BY <1>2, <1>8, <1>11, <2>1
  <2>3. At(call, old, i', j')
    BY <1>2, <1>5, <2>1
  <2> HIDE DEF k, c, n
  <2> QED
    BY <1>1, <1>2, <1>3, <1>10, <2>1, <2>2, <2>3, Wrote
<1>12. CASE Forwards /\ i = n /\ Return(dst)
  <2>1. UNCHANGED <<call, old, mem, i, j>> /\ ret' # NONE
    BY <1>2, <1>12 DEF Return, dst
  <2>2. DOMAIN Image(call, old) = Written
    BY <1>7, <1>8, <1>12
  <2> QED
    BY <1>1, <1>2, <1>3, <2>1, <2>2, NoAnswer, AllWritten
\* and backwards.
<1>13. CASE ~Forwards /\ n = 0 /\ Return(dst)
  <2>1. UNCHANGED <<call, old, mem, i, j>> /\ ret' # NONE
    BY <1>2, <1>13 DEF Return, dst
  <2>2. DOMAIN Image(call, old) = Written
    <3>1. DOMAIN Image(call, old) = 0..n-1 /\ Written = rest..n-1 /\ rest = 0
      BY <1>4, <1>7, <1>8, <1>13
    <3> QED
      BY <3>1
  <2> QED
    BY <1>1, <1>2, <1>3, <2>1, <2>2, NoAnswer, AllWritten
<1>14. CASE /\ ~Forwards /\ n # 0
            /\ Put(call.d + Down, mem[call.s + Down]) /\ rest' = Down
            /\ ret' = (IF Down = 0 THEN call.d ELSE NONE)
            /\ UNCHANGED <<call, old, i, j>>
  <2>1. Down = k /\ k \in 0..n-1 /\ rest \in Nat
    <3>1. rest \in 0..SIZE /\ rest # 0
      BY <1>2, <1>4, <1>14, Types
    <3> QED
      BY <1>2, <1>4, <1>14, <3>1, DownIs
  <2>2. Puts(k)
    BY <1>10, <1>14, <2>1
  <2>3. Written \cup {k} = k..n-1
    BY <1>2, <1>8, <1>14, <2>1
  <2>4. CASE Down = 0
    <3>1. ret' # NONE
      BY <1>2, <1>14, <2>4
    <3>2. DOMAIN Image(call, old) = Written \cup {k}
      BY <1>7, <2>1, <2>3, <2>4
    <3> HIDE DEF k, c, n
    <3> QED
      BY <1>1, <1>2, <1>3, <1>14, <2>2, <3>1, <3>2, NoAnswer, WroteLast
  <2>5. CASE Down # 0
    <3>1. Written' = Written \cup {k}
      BY <1>8, <1>14, <2>1, <2>3
    <3> HIDE DEF k, c, n
    <3>2. ret' = ret /\ i' \in Nat /\ j' \in Nat /\ At(call, old, i', j')
      BY <1>1, <1>2, <1>14, <2>5
    <3> QED
      BY <1>1, <1>2, <1>3, <1>14, <2>2, <3>1, <3>2, Wrote
  <2> QED
    BY <2>4, <2>5
<1>15. CASE Forwards
  <2>1. (rest # 0 /\ Copy) \/ (rest = 0 /\ Return(dst))
    BY <1>15 DEF ft_memmove, CopyForwards
  <2>2. rest # 0 <=> i < n
    BY <1>2, <1>4, <1>15
  <2> QED
    BY <1>2, <1>4, <1>11, <1>12, <1>15, <2>1, <2>2
<1> QED
  BY <1>13, <1>14, <1>15 DEF ft_memmove, CopyBackwards, len, dst, src

-----------------------------------------------------------------------------
(* The functions that add a text to another *)

LEMMA AppendedIs ==
  ASSUME IInv, call.f \in CatFs
  PROVE  LET s == TextLen(old, call.s)
             d == TextLen(old, call.d)
             a == Appended(call, old)
         IN /\ s \in Nat /\ d \in Nat /\ a \in 0..s
            /\ call.f = "strcat" => a = s
            /\ call.f = "strncat" => a = Least(call.n, s)
            /\ call.f = "strlcat" /\ call.n <= d => a = 0
            /\ call.f = "strlcat" /\ call.n > d => a = Least(call.n - 1 - d, s)
            /\ \A k \in 0..s : call.s + k \in Cells /\ (old[call.s + k] = NUL <=> k = s)
            /\ \A k \in 0..d : call.d + k \in Cells /\ (old[call.d + k] = NUL <=> k = d)
            /\ Apart(call.d, d + a + 1, call.s, s + 1)
<1> DEFINE s == TextLen(old, call.s)
           d == TextLen(old, call.d)
           a == Appended(call, old)
           left == call.n - 1 - d
<1>1. /\ call.d \in Nat /\ call.s \in Nat /\ call.n \in Nat /\ Contract(call, old)
      /\ SIZE \in Nat
  BY Types
<1>2. IsText(old, call.s) /\ IsText(old, call.d)
  BY <1>1 DEF Contract, CatFs, CopyFs
<1>3. /\ s \in Nat /\ d \in Nat
      /\ \A k \in 0..s : call.s + k \in Cells /\ (old[call.s + k] = NUL <=> k = s)
      /\ \A k \in 0..d : call.d + k \in Cells /\ (old[call.d + k] = NUL <=> k = d)
  BY <1>1, <1>2, TextLenIs
<1>4. /\ call.f = "strcat" => a = s
      /\ call.f = "strncat" => a = Least(call.n, s)
      /\ call.f = "strlcat" => a = Least(IF left < 0 THEN 0 ELSE left, s)
  BY DEF Appended
<1>5. /\ call.f = "strcat" => Apart(call.d, d + s + 1, call.s, s + 1)
      /\ call.f = "strncat" => Apart(call.d, d + Least(call.n, s) + 1, call.s, s + 1)
      /\ call.f = "strlcat" => Apart(call.d, IF call.n > d THEN call.n ELSE d + 1, call.s, s + 1)
  BY <1>1 DEF Contract
<1>6. call.f \in {"strcat", "strncat", "strlcat"}
  BY DEF CatFs
<1> HIDE DEF s, d, a
<1>7. CASE call.f = "strcat"
  BY <1>1, <1>3, <1>4, <1>5, <1>7 DEF s, d, a
<1>8. CASE call.f = "strncat"
  BY <1>1, <1>3, <1>4, <1>5, <1>8 DEF s, d, a, Least
<1>9. CASE call.f = "strlcat"
  <2>1. /\ call.n <= d => a = 0
        /\ call.n > d => a = Least(call.n - 1 - d, s)
        /\ a \in 0..s /\ (call.n > d => d + a + 1 <= call.n) /\ (call.n <= d => d + a + 1 = d + 1)
    BY <1>1, <1>3, <1>4, <1>9 DEF Least
  <2>2. Apart(call.d, d + a + 1, call.s, s + 1)
    BY <1>1, <1>3, <1>5, <1>9, <2>1 DEF Apart, Fits
  <2> QED
    BY <1>3, <1>9, <2>1, <2>2 DEF s, d, a
<1> QED
  BY <1>6, <1>7, <1>8, <1>9

LEMMA Cats ==
  ASSUME IInv, CInv, ft_strcat \/ ft_strncat \/ ft_strlcat
  PROVE  IInv'
<1> DEFINE s == TextLen(old, call.s)
           d == TextLen(old, call.d)
           a == Appended(call, old)
           room == CASE call.f = "strcat" -> TRUE
                     [] call.f = "strncat" -> j < call.n
                     [] OTHER -> i + 1 < call.n
           result == IF call.f = "strlcat" THEN d + s ELSE call.d
           Adds(r, x) ==
             IF j = 0 /\ mem[call.d + i] # NUL THEN Skip(1, 0)
             ELSE \/ /\ mem[call.s + j] # NUL /\ r /\ Put(call.d + i, mem[call.s + j])
                     /\ i' = i + 1 /\ j' = j + 1 /\ UNCHANGED <<call, old, ret>>
                  \/ (mem[call.s + j] = NUL \/ ~r) /\ PutReturn(call.d + i, NUL, x)
<1>1. call.f \in {"strcat", "strncat", "strlcat"} /\ call.f \in CatFs /\ ret = NONE
  BY DEF ft_strcat, ft_strncat, ft_strlcat, Runs, CatFs
<1>2. /\ i \in Nat /\ j \in Nat /\ call.d \in Nat /\ call.s \in Nat /\ call.n \in Nat
      /\ At(call, old, i, j)
  BY <1>1, Types
<1>3. call.f \notin Answers /\ Base(call, old) = call.d + d
  BY <1>1 DEF Answers, Base
<1>4. /\ s \in Nat /\ d \in Nat /\ a \in 0..s
      /\ call.f = "strcat" => a = s
      /\ call.f = "strncat" => a = Least(call.n, s)
      /\ call.f = "strlcat" /\ call.n <= d => a = 0
      /\ call.f = "strlcat" /\ call.n > d => a = Least(call.n - 1 - d, s)
      /\ \A k \in 0..s : call.s + k \in Cells /\ (old[call.s + k] = NUL <=> k = s)
      /\ \A k \in 0..d : call.d + k \in Cells /\ (old[call.d + k] = NUL <=> k = d)
      /\ Apart(call.d, d + a + 1, call.s, s + 1)
  BY <1>1, AppendedIs
<1>5. (j = 0 /\ i <= d) \/ (i = d + j /\ j <= a)
  BY <1>1, <1>2 DEF At
<1>6. ASSUME NEW x \in Nat, NEW y \in Nat, (y = 0 /\ x <= d) \/ (x = d + y /\ y <= a)
      PROVE  At(call, old, x, y)
  BY <1>1, <1>6 DEF At
<1>7. Written = 0..j-1 /\ (UNCHANGED call => Written' = 0..j'-1)
  BY <1>1 DEF Written
<1>8. /\ DOMAIN Image(call, old) = 0..a
      /\ \A k \in 0..a : Image(call, old)[k] = IF k < a THEN old[call.s + k] ELSE NUL
  <2>1. Image(call, old) = [k \in 0..a |-> IF k < a THEN old[call.s + k] ELSE NUL]
    BY <1>1 DEF Image, NUL
  <2> HIDE DEF a
  <2> QED
    BY <2>1
<1>9. /\ SIZE \in Nat /\ NONE \notin Int
  BY SizeAssumption, NullAssumption
<1>10. \/ call.f = "strlcat" /\ call.n < d /\ Return(call.n + s)
       \/ (call.f = "strlcat" => call.n >= d) /\ Adds(room, result)
  <2>1. CASE call.f = "strcat"
    BY <2>1 DEF ft_strcat, ft_strncat, ft_strlcat, Runs, dst, src, Concat, Up
  <2>2. CASE call.f = "strncat"
    <3>1. rest # 0 <=> j < call.n
      BY <1>1, <1>2, <2>2 DEF CInv, Counted
    <3>2. Concat(rest # 0, Turn(1), dst)
      BY <2>2 DEF ft_strcat, ft_strncat, ft_strlcat, Runs
    <3> QED
      BY <2>2, <3>1, <3>2 DEF Concat, Turn, dst, src
  <2>3. CASE call.f = "strlcat"
    <3>1. ft_strlcat
      BY <2>3 DEF ft_strcat, ft_strncat, Runs
    <3>2. \/ call.n < d /\ Return(call.n + s)
          \/ ~(call.n < d) /\ Adds(Room, d + s)
      BY <3>1 DEF ft_strlcat, dst, src, len, Concat, Up
    <3>3. room = Room /\ result = d + s
      BY <2>3 DEF Room, len
    <3>4. call.n >= d <=> ~(call.n < d)
      BY <1>2, <1>4
    <3> HIDE DEF s, d, a, room, result, Adds
    <3> QED
      BY <2>3, <3>2, <3>3, <3>4
  <2> QED
    BY <1>1, <2>1, <2>2, <2>3
<1>11. result \in Int
  BY <1>2, <1>4
<1>12. j <= s /\ call.s + j \in Cells /\ mem[call.s + j] = old[call.s + j] /\ (old[call.s + j] = NUL <=> j = s)
  <2> DEFINE c == call.s + j
  <2>1. j <= a /\ j <= s
    BY <1>2, <1>4, <1>5
  <2>2. c \in Cells /\ (old[c] = NUL <=> j = s)
    BY <1>2, <1>4, <2>1
  <2>3. Unwritten(c)
    <3>1. Written = 0..j-1
      BY <1>2, <1>7
    <3>2. c - (call.d + d) \notin 0..j-1
      BY <1>2, <1>4, <2>1 DEF Apart
    <3> QED
      BY <1>3, <2>2, <3>1, <3>2 DEF Unwritten
  <2>4. mem[c] = old[c]
    <3> HIDE DEF c
    <3> QED
      BY <1>1, <2>3, Kept
  <2> QED
    BY <2>1, <2>2, <2>4
<1> HIDE DEF s, d, a
<1>13. CASE call.f = "strlcat" /\ call.n < d /\ Return(call.n + s)
  <2>1. UNCHANGED <<call, old, mem, i, j>> /\ ret' # NONE
    BY <1>2, <1>4, <1>9, <1>13 DEF Return
  <2>2. a = 0 /\ j = 0 /\ Written = {}
    <3>1. a = 0
      BY <1>2, <1>4, <1>13
    <3>2. j = 0
      BY <1>2, <1>4, <1>5, <3>1
    <3>3. Written = 0..j-1
      BY <1>2, <1>7
    <3> QED
      BY <3>1, <3>2, <3>3
  <2>3. \A k \in DOMAIN Image(call, old) \ Written :
           /\ k \in Int /\ Base(call, old) + k \in Cells
           /\ old[Base(call, old) + k] = Image(call, old)[k]
    <3> SUFFICES ASSUME NEW k \in DOMAIN Image(call, old)
                 PROVE  /\ k \in Int /\ Base(call, old) + k \in Cells
                        /\ old[Base(call, old) + k] = Image(call, old)[k]
      OBVIOUS
    <3>1. k = 0 /\ Image(call, old)[k] = NUL
      BY <1>8, <2>2
    <3>2. Base(call, old) + k = call.d + d
      BY <1>2, <1>3, <1>4, <3>1 DEF d
    <3> QED
      BY <1>4, <3>1, <3>2
  <2>5. Base(call, old) \in Int
    BY <1>2, <1>3, <1>4 DEF d
  <2> QED
    BY <1>1, <1>3, <2>1, <2>3, <2>5, NoAnswer, Left
<1>14. CASE (call.f = "strlcat" => call.n >= d) /\ j = 0 /\ mem[call.d + i] # NUL /\ Skip(1, 0)
  <2> DEFINE c == call.d + i
  <2>1. /\ UNCHANGED <<call, old, mem, ret>> /\ i' = i + 1 /\ j' = j /\ i' \in Nat /\ j' \in Nat
    BY <1>2, <1>14 DEF Skip, Up
  <2>2. i <= d /\ c \in Cells /\ (old[c] = NUL <=> i = d)
    BY <1>2, <1>4, <1>5, <1>14
  <2>3. Unwritten(c)
    BY <1>2, <1>7, <1>14, <2>2 DEF Unwritten
  <2>4. mem[c] = old[c]
    <3> HIDE DEF c
    <3> QED
      BY <1>1, <2>3, Kept
  <2>5. At(call, old, i', j')
    BY <1>2, <1>4, <1>6, <1>14, <2>1, <2>2, <2>4
  <2>6. Written' = Written
    BY <1>2, <1>7, <2>1
  <2> QED
    BY <1>1, <2>1, <2>5, <2>6, Skipped
<1>15. ASSUME call.f = "strlcat" => call.n >= d, ~(j = 0 /\ mem[call.d + i] # NUL)
       PROVE  i = d + j /\ j <= a /\ (mem[call.s + j] # NUL /\ room <=> j < a)
  <2>1. i = d + j /\ j <= a
    <3> SUFFICES ASSUME j = 0, i < d PROVE FALSE
      BY <1>2, <1>4, <1>5
    <3> DEFINE c == call.d + i
    <3>1. c \in Cells /\ old[c] # NUL /\ mem[c] = NUL
      BY <1>2, <1>4, <1>15
    <3>2. Unwritten(c)
      BY <1>2, <1>7, <3>1 DEF Unwritten
    <3> HIDE DEF c
    <3> QED
      BY <1>1, <3>1, <3>2, Kept
  <2>2. CASE call.f = "strcat"
    BY <1>2, <1>4, <1>12, <2>1, <2>2
  <2>3. CASE call.f = "strncat"
    BY <1>2, <1>4, <1>12, <2>1, <2>3 DEF Least
  <2>4. CASE call.f = "strlcat"
    <3>1. room <=> i + 1 < call.n
      BY <2>4
    <3> HIDE DEF room
    <3>2. CASE call.n = d
      BY <1>2, <1>4, <1>12, <2>1, <2>4, <3>1, <3>2
    <3>3. CASE call.n > d
      BY <1>2, <1>4, <1>12, <2>1, <2>4, <3>1, <3>3 DEF Least
    <3> QED
      BY <1>2, <1>4, <1>15, <2>4, <3>2, <3>3
  <2> QED
    BY <1>1, <2>1, <2>2, <2>3, <2>4
<1>16. ASSUME i = d + j, j <= a PROVE Base(call, old) \in Int /\ Base(call, old) + j = call.d + i /\ call.d + i \in Cells
  BY <1>2, <1>3, <1>4, <1>9, <1>16 DEF Apart, Fits, Cells, d
<1> HIDE DEF room, result
<1>17. CASE /\ call.f = "strlcat" => call.n >= d
            /\ ~(j = 0 /\ mem[call.d + i] # NUL)
            /\ mem[call.s + j] # NUL /\ room /\ Put(call.d + i, mem[call.s + j])
            /\ i' = i + 1 /\ j' = j + 1 /\ UNCHANGED <<call, old, ret>>
  <2>1. i = d + j /\ j < a /\ j <= a
    BY <1>15, <1>17
  <2>2. /\ UNCHANGED <<call, old, ret>> /\ i' = i + 1 /\ j' = j + 1 /\ i' \in Nat /\ j' \in Nat
    BY <1>2, <1>17
  <2>3. Image(call, old)[j] = mem[call.s + j]
    BY <1>2, <1>4, <1>8, <1>12, <2>1
  <2>4. Puts(j)
    <3>1. Base(call, old) + j = call.d + i /\ call.d + i \in Cells
      BY <1>16, <2>1
    <3>2. mem' = [mem EXCEPT ![call.d + i] = Image(call, old)[j]]
      BY <1>17, <2>3 DEF Put
    <3>3. mem' = [mem EXCEPT ![Base(call, old) + j] = Image(call, old)[j]]
      BY <3>1, <3>2
    <3>4. j \in DOMAIN Image(call, old)
      BY <1>2, <1>4, <1>8, <2>1
    <3> QED
      BY <1>2, <3>1, <3>3, <3>4 DEF Puts
  <2>5. Written' = Written \cup {j}
    <3>1. Written' = 0..j'-1 /\ Written = 0..j-1
      BY <1>2, <1>7, <2>2
    <3> QED
      BY <1>2, <2>2, <3>1
  <2>6. At(call, old, i', j')
    BY <1>2, <1>4, <1>6, <2>1, <2>2
  <2>7. Base(call, old) \in Int
    BY <1>16, <2>1
  <2> QED
    BY <1>1, <2>2, <2>4, <2>5, <2>6, <2>7, Wrote
<1>18. CASE /\ call.f = "strlcat" => call.n >= d
            /\ ~(j = 0 /\ mem[call.d + i] # NUL)
            /\ mem[call.s + j] = NUL \/ ~room
            /\ PutReturn(call.d + i, NUL, result)
  <2>1. i = d + j /\ j = a /\ j <= a
    BY <1>2, <1>4, <1>15, <1>18
  <2>2. /\ UNCHANGED <<call, old, i, j>> /\ ret' # NONE /\ Put(call.d + i, NUL)
    BY <1>9, <1>11, <1>18 DEF PutReturn
  <2>3. Image(call, old)[j] = NUL
    BY <1>2, <1>4, <1>8, <2>1
  <2>4. Puts(j)
    <3>1. Base(call, old) + j = call.d + i /\ call.d + i \in Cells
      BY <1>16, <2>1
    <3>2. mem' = [mem EXCEPT ![call.d + i] = Image(call, old)[j]]
      BY <2>2, <2>3 DEF Put
    <3>3. mem' = [mem EXCEPT ![Base(call, old) + j] = Image(call, old)[j]]
      BY <3>1, <3>2
    <3>4. j \in DOMAIN Image(call, old)
      BY <1>2, <1>4, <1>8, <2>1
    <3> QED
      BY <1>2, <3>1, <3>3, <3>4 DEF Puts
  <2>5. DOMAIN Image(call, old) = Written \cup {j}
    <3>1. Written = 0..j-1
      BY <1>2, <1>7
    <3> QED
      BY <1>2, <1>8, <2>1, <3>1
  <2>6. Base(call, old) \in Int
    BY <1>16, <2>1
  <2> QED
    BY <1>1, <1>3, <2>2, <2>4, <2>5, <2>6, NoAnswer, WroteLast
<1> QED
  BY <1>10, <1>13, <1>14, <1>17, <1>18

-----------------------------------------------------------------------------
(* The copies that stop, pad or join *)

\* The text at a in the memory of the call, and its octets as they are now.
LEMMA TextKept ==
  ASSUME IInv, ret = NONE, call.f \in StraightFs, NEW a \in Nat, IsText(old, a),
         NEW b \in Nat, i <= b, Apart(call.d, b, a, TextLen(old, a) + 1)
  PROVE  /\ TextLen(old, a) \in Nat
         /\ \A k \in 0..TextLen(old, a) :
              /\ a + k \in Cells /\ mem[a + k] = old[a + k]
              /\ (old[a + k] = NUL <=> k = TextLen(old, a))
<1> DEFINE n == TextLen(old, a)
<1>1. n \in Nat /\ \A k \in 0..n : a + k \in Cells /\ (old[a + k] = NUL <=> k = n)
  BY TextLenIs
<1>2. call.d \in Nat /\ i \in Nat
  BY Types
<1>3. ASSUME NEW k \in 0..n PROVE mem[a + k] = old[a + k]
  <2> DEFINE c == a + k
  <2>1. c \in Cells
    BY <1>1
  <2>2. c < call.d \/ c >= call.d + i
    BY <1>1, <1>2 DEF Apart
  <2> HIDE DEF c
  <2>3. mem[c] = old[c]
    BY <2>1, <2>2, StraightKept
  <2> QED
    BY <2>3 DEF c
<1> QED
  BY <1>1, <1>3

LEMMA Strncpy ==
  ASSUME IInv, ft_strncpy
  PROVE  IInv'
<1> DEFINE n == call.n
           s == TextLen(old, call.s)
<1>1. call.f = "strncpy" /\ ret = NONE
  BY DEF ft_strncpy, Runs
<1>2. /\ i \in Nat /\ j \in Nat /\ n \in Nat /\ call.d \in Nat /\ call.d # NONE /\ call.s \in Nat
      /\ At(call, old, i, j) /\ Contract(call, old) /\ SIZE \in Nat
  BY <1>1, Types, NullAssumption
<1>3. call.f \in StraightFs /\ call.f \notin Answers
  BY <1>1 DEF StraightFs, Answers
<1>4. IsText(old, call.s) /\ Fits(call.d, n) /\ Apart(call.d, n, call.s, s + 1)
  BY <1>1, <1>2 DEF Contract, CopyFs
<1>5. i <= n /\ j = Least(i, s)
  BY <1>1, <1>2 DEF At
<1>6. ASSUME NEW x \in Nat, NEW y \in Nat, x <= n, y = Least(x, s) PROVE At(call, old, x, y)
  BY <1>1, <1>6 DEF At, CatFs
<1>7. /\ s \in Nat
      /\ \A k \in 0..s : /\ call.s + k \in Cells /\ mem[call.s + k] = old[call.s + k]
                         /\ (old[call.s + k] = NUL <=> k = s)
  BY <1>1, <1>2, <1>3, <1>4, <1>5, TextKept
<1>8. mem[call.s + j] = old[call.s + j] /\ (old[call.s + j] = NUL <=> j = s)
  BY <1>2, <1>5, <1>7 DEF Least
<1>9. /\ DOMAIN Image(call, old) = 0..n-1
      /\ \A k \in 0..n-1 : Image(call, old)[k] = IF k < s THEN old[call.s + k] ELSE NUL
  <2>1. Image(call, old) = [k \in 0..n-1 |-> TextAt(old, call.s, k)]
    BY <1>1 DEF Image, CatFs, NUL
  <2> QED
    BY <2>1 DEF TextAt
<1>10. i < n => call.d + i \in Cells
  BY <1>2, <1>4 DEF Fits, Cells
<1> HIDE DEF n, s
<1>11. CASE mem[call.s + j] # NUL /\ i < n /\ Put(call.d + i, mem[call.s + j]) /\ Up(1, 1)
  <2>1. UNCHANGED <<call, old, ret>> /\ i' = i + 1 /\ j' = j + 1 /\ j' \in Nat
    BY <1>2, <1>11 DEF Up
  <2>2. i = j /\ i < s
    BY <1>2, <1>5, <1>7, <1>8, <1>11 DEF Least
  <2>3. i \in DOMAIN Image(call, old) /\ Image(call, old)[i] = mem[call.s + j]
    BY <1>2, <1>8, <1>9, <1>11, <2>2
  <2>4. At(call, old, i + 1, j')
    BY <1>2, <1>6, <1>7, <1>11, <2>1, <2>2 DEF Least
  <2>5. Put(call.d + i, Image(call, old)[i])
    BY <1>11, <2>3
  <2> QED
    BY <1>1, <1>3, <1>10, <1>11, <2>1, <2>3, <2>4, <2>5, Onwards
<1>12. CASE mem[call.s + j] = NUL /\ i < n /\ Put(call.d + i, NUL) /\ Up(1, 0)
  <2>1. UNCHANGED <<call, old, ret>> /\ i' = i + 1 /\ j' = j /\ j' \in Nat
    BY <1>2, <1>12 DEF Up
  <2>2. j = s /\ s <= i
    BY <1>2, <1>5, <1>7, <1>8, <1>12 DEF Least
  <2>3. i \in DOMAIN Image(call, old) /\ Image(call, old)[i] = NUL
    BY <1>2, <1>7, <1>9, <1>12, <2>2
  <2>4. At(call, old, i + 1, j')
    BY <1>2, <1>6, <1>7, <1>12, <2>1, <2>2 DEF Least
  <2>5. Put(call.d + i, Image(call, old)[i])
    BY <1>12, <2>3
  <2> QED
    BY <1>1, <1>3, <1>10, <1>12, <2>1, <2>3, <2>4, <2>5, Onwards
<1>13. CASE ~(mem[call.s + j] = NUL /\ i < n) /\ (mem[call.s + j] = NUL \/ i >= n) /\ Return(call.d)
  <2>1. UNCHANGED <<call, old, mem, i, j>> /\ ret' # NONE
    BY <1>2, <1>13 DEF Return
  <2>2. i = n
    BY <1>2, <1>5, <1>13
  <2> QED
    BY <1>1, <1>3, <1>9, <2>1, <2>2, NoAnswer, OnwardsDone
<1> QED
  BY <1>11, <1>12, <1>13 DEF ft_strncpy, Pads, dst, src, len, n

LEMMA Strndup ==
  ASSUME IInv, CInv, ft_strndup
  PROVE  IInv'
<1> DEFINE n == call.n
           s == TextLen(old, call.s)
<1>1. call.f = "strndup" /\ ret = NONE
  BY DEF ft_strndup, Runs
<1>2. /\ i \in Nat /\ j \in Nat /\ n \in Nat /\ call.d \in Nat /\ call.d # NONE /\ call.s \in Nat
      /\ At(call, old, i, j) /\ Contract(call, old) /\ SIZE \in Nat
  BY <1>1, Types, NullAssumption
<1>3. call.f \in StraightFs /\ call.f \notin Answers
  BY <1>1 DEF StraightFs, Answers
<1>4. IsText(old, call.s) /\ Zeroed(old, call.d, n + 1) /\ Apart(call.d, n + 1, call.s, s + 1)
  BY <1>1, <1>2 DEF Contract, CopyFs
<1>5. i <= n /\ i <= s /\ (rest # 0 <=> i < n)
  BY <1>1, <1>2 DEF At, CInv, Counted, CountFs
<1>6. ASSUME NEW x \in Nat, NEW y \in Nat, x <= n, x <= s PROVE At(call, old, x, y)
  BY <1>1, <1>6 DEF At, CatFs
<1>7. /\ s \in Nat
      /\ \A k \in 0..s : /\ call.s + k \in Cells /\ mem[call.s + k] = old[call.s + k]
                         /\ (old[call.s + k] = NUL <=> k = s)
  BY <1>1, <1>2, <1>3, <1>4, <1>5, TextKept
<1>8. mem[call.s + i] = old[call.s + i] /\ (old[call.s + i] = NUL <=> i = s)
  BY <1>2, <1>5, <1>7
<1>9. /\ DOMAIN Image(call, old) = 0..n
      /\ \A k \in 0..n : Image(call, old)[k] = IF k < n /\ k < s THEN old[call.s + k] ELSE NUL
  <2>1. Image(call, old) = [k \in 0..n |-> IF k < n THEN TextAt(old, call.s, k) ELSE NUL]
    BY <1>1 DEF Image, CatFs, NUL
  <2> QED
    BY <2>1 DEF TextAt
<1> HIDE DEF n, s
<1>10. CASE i < n /\ mem[call.s + i] # NUL /\ Put(call.d + i, mem[call.s + i]) /\ Turn(0)
  <2>1. UNCHANGED <<call, old, ret>> /\ i' = i + 1 /\ j' = j /\ j' \in Nat
    BY <1>2, <1>10 DEF Turn
  <2>2. i < s /\ call.d + i \in Cells
    BY <1>2, <1>4, <1>5, <1>7, <1>8, <1>10 DEF Zeroed, Fits, Cells
  <2>3. i \in DOMAIN Image(call, old) /\ Image(call, old)[i] = mem[call.s + i]
    BY <1>2, <1>8, <1>9, <1>10, <2>2
  <2>4. At(call, old, i + 1, j')
    BY <1>2, <1>6, <1>7, <1>10, <2>1, <2>2
  <2>5. Put(call.d + i, Image(call, old)[i])
    BY <1>10, <2>3
  <2> QED
    BY <1>1, <1>3, <2>1, <2>2, <2>3, <2>4, <2>5, Onwards
<1>11. CASE (i = n \/ mem[call.s + i] = NUL) /\ Return(call.d)
  <2>1. UNCHANGED <<call, old, mem, i, j>> /\ ret' # NONE
    BY <1>2, <1>11 DEF Return
  <2>2. i = n \/ i = s
    BY <1>8, <1>11
  <2>3. Base(call, old) = call.d /\ Written = 0..i-1
    BY <1>2, <1>3, Straight
  <2>5. \A k \in DOMAIN Image(call, old) \ Written :
           /\ k \in Int /\ Base(call, old) + k \in Cells
           /\ old[Base(call, old) + k] = Image(call, old)[k]
    <3> SUFFICES ASSUME NEW k \in 0..n, k >= i
                 PROVE  call.d + k \in Cells /\ old[call.d + k] = Image(call, old)[k]
      BY <1>2, <1>9, <2>3
    <3>0. call.d + k \in Cells
      BY <1>2, <1>4 DEF Zeroed, Fits, Cells
    <3>1. old[call.d + k] = NUL
      BY <1>2, <1>4 DEF Zeroed
    <3>2. Image(call, old)[k] = NUL
      BY <1>2, <1>7, <1>9, <2>2
    <3> QED
      BY <3>0, <3>1, <3>2
  <2> QED
    BY <1>1, <1>2, <1>3, <2>1, <2>3, <2>5, NoAnswer, Left
<1> QED
  BY <1>2, <1>5, <1>10, <1>11 DEF ft_strndup, Copy, dst, src, n

LEMMA Strjoin ==
  ASSUME IInv, ft_strjoin
  PROVE  IInv'
<1> DEFINE s == TextLen(old, call.s)
           t == TextLen(old, call.t)
           g == Image(call, old)
<1>1. call.f = "strjoin" /\ ret = NONE
  BY DEF ft_strjoin, Runs
<1>2. /\ i \in Nat /\ j \in Nat /\ call.d \in Nat /\ call.d # NONE /\ call.s \in Nat /\ call.t \in Nat
      /\ At(call, old, i, j) /\ Contract(call, old) /\ SIZE \in Nat
  BY <1>1, Types, NullAssumption
<1>3. call.f \in StraightFs /\ call.f \notin Answers
  BY <1>1 DEF StraightFs, Answers
<1>4. /\ IsText(old, call.s) /\ IsText(old, call.t)
      /\ Apart(call.d, s + t + 1, call.s, s + 1) /\ Apart(call.d, s + t + 1, call.t, t + 1)
  BY <1>1, <1>2 DEF Contract, CopyFs
<1>5. i <= s + t
  BY <1>1, <1>2 DEF At
<1>6. ASSUME NEW x \in Nat, NEW y \in Nat, x <= s + t PROVE At(call, old, x, y)
  BY <1>1, <1>6 DEF At, CatFs
<1>7. s \in Nat /\ t \in Nat
  BY <1>2, <1>4, TextLenIs
<1>8. \A k \in 0..s : /\ call.s + k \in Cells /\ mem[call.s + k] = old[call.s + k]
                      /\ (old[call.s + k] = NUL <=> k = s)
  <2>1. s + t + 1 \in Nat /\ i <= s + t + 1
    BY <1>2, <1>5, <1>7
  <2> QED
    BY <1>1, <1>2, <1>3, <1>4, <2>1, TextKept
<1>9. \A k \in 0..t : /\ call.t + k \in Cells /\ mem[call.t + k] = old[call.t + k]
                      /\ (old[call.t + k] = NUL <=> k = t)
  <2>1. s + t + 1 \in Nat /\ i <= s + t + 1
    BY <1>2, <1>5, <1>7
  <2> QED
    BY <1>1, <1>2, <1>3, <1>4, <2>1, TextKept
<1>10. TextLen(mem, call.s) = s
  <2>1. s \in Cells
    BY <1>2, <1>4, <1>7 DEF Apart, Fits, Cells
  <2>2. call.s + s < SIZE
    BY <1>2, <1>7, <1>8 DEF Cells
  <2> HIDE DEF s
  <2>3. IsLen(mem, call.s, s)
    BY <1>7, <1>8, <2>2 DEF IsLen
  <2> QED
    BY <1>2, <2>1, <2>3, TextLenUnique
<1>11. /\ DOMAIN g = 0..s+t
       /\ \A k \in 0..s+t : g[k] = IF k < s THEN old[call.s + k]
                                   ELSE IF k - s < t THEN old[call.t + (k - s)] ELSE NUL
  <2>1. g = [k \in 0..s+t |-> IF k < s THEN old[call.s + k] ELSE TextAt(old, call.t, k - s)]
    BY <1>1 DEF Image, CatFs, NUL
  <2>2. \A k : TextAt(old, call.t, k) = IF k < t THEN old[call.t + k] ELSE NUL
    BY DEF TextAt
  <2> HIDE DEF s, t, g
  <2> QED
    BY <2>1, <2>2
<1>12. call.d + i \in Cells
  BY <1>2, <1>4, <1>5, <1>7 DEF Apart, Fits, Cells
<1>13. ft_strjoin
  OBVIOUS
<1> HIDE DEF s, t, g
<1> DEFINE c == call.t + i - s
<1>14. i >= s => c = call.t + (i - s) /\ mem[c] = old[c] /\ (old[c] = NUL <=> i = s + t)
  BY <1>2, <1>5, <1>7, <1>9
<1>15. \/ i < s /\ Put(call.d + i, mem[call.s + i]) /\ Up(1, 0)
       \/ i >= s /\ mem[c] # NUL /\ Put(call.d + i, mem[c]) /\ Up(1, 0)
       \/ i >= s /\ mem[c] = NUL /\ PutReturn(call.d + i, NUL, call.d)
  BY <1>2, <1>7, <1>10, <1>13 DEF ft_strjoin, dst, src
<1>16. CASE i < s /\ Put(call.d + i, mem[call.s + i]) /\ Up(1, 0)
  <2>1. UNCHANGED <<call, old, ret>> /\ i' = i + 1 /\ j' = j /\ j' \in Nat
    BY <1>2, <1>16 DEF Up
  <2>2. i \in DOMAIN g /\ g[i] = mem[call.s + i]
    BY <1>2, <1>7, <1>8, <1>11, <1>16
  <2>3. At(call, old, i + 1, j')
    BY <1>2, <1>6, <1>7, <1>16, <2>1
  <2>4. Put(call.d + i, g[i])
    BY <1>16, <2>2
  <2> QED
    BY <1>1, <1>3, <1>12, <2>1, <2>2, <2>3, <2>4, Onwards DEF g
<1>17. CASE i >= s /\ mem[c] # NUL /\ Put(call.d + i, mem[c]) /\ Up(1, 0)
  <2>1. UNCHANGED <<call, old, ret>> /\ i' = i + 1 /\ j' = j /\ j' \in Nat
    BY <1>2, <1>17 DEF Up
  <2>2. i < s + t
    BY <1>2, <1>5, <1>7, <1>14, <1>17
  <2>3. i \in DOMAIN g /\ g[i] = mem[c]
    <3>1. i \in DOMAIN g /\ g[i] = old[call.t + (i - s)]
      BY <1>2, <1>7, <1>11, <1>17, <2>2
    <3> QED
      BY <1>14, <1>17, <3>1
  <2>4. At(call, old, i + 1, j')
    BY <1>2, <1>6, <1>7, <2>1, <2>2
  <2>5. Put(call.d + i, g[i])
    BY <1>17, <2>3
  <2> QED
    BY <1>1, <1>3, <1>12, <2>1, <2>3, <2>4, <2>5, Onwards DEF g
<1>18. CASE i >= s /\ mem[c] = NUL /\ PutReturn(call.d + i, NUL, call.d)
  <2>1. i = s + t
    BY <1>14, <1>18
  <2>2. UNCHANGED <<call, old, i, j>> /\ ret' # NONE /\ Put(call.d + i, NUL)
    BY <1>2, <1>18 DEF PutReturn
  <2>3. g[i] = NUL /\ DOMAIN g = 0..i
    BY <1>2, <1>7, <1>11, <2>1
  <2> QED
    BY <1>1, <1>3, <1>12, <2>2, <2>3, NoAnswer, OnwardsLast DEF g
<1> QED
  BY <1>15, <1>16, <1>17, <1>18

-----------------------------------------------------------------------------
(* The functions that write nothing: memory stays as it was, and what they *)
(* return is what the first or the last octet found, or the first          *)
(* difference, makes of it.                                                *)

Lookers == LookFs \cup {"memchr", "memcmp"}

LEMMA Looking ==
  ASSUME IInv, call.f \in Lookers
  PROVE  /\ Base(call, old) = call.d /\ call.d \in Nat /\ DOMAIN Image(call, old) = {}
         /\ Written = {} /\ (UNCHANGED call => Written' = {})
         /\ ret = NONE => mem = old
<1>1. call.d \in Nat /\ old \in [Cells -> Char]
  BY Types
<1>2. Base(call, old) = call.d
  BY DEF Base, CatFs, LookFs, Lookers
<1>3. Image(call, old) = [k \in {} |-> NUL]
  BY DEF Image, CatFs, LookFs, Lookers, NUL
<1>4. Written = {} /\ (UNCHANGED call => Written' = {})
  BY DEF Written, CatFs, LookFs, Lookers
<1>5. ret = NONE => mem = old
  <2> SUFFICES ASSUME ret = NONE PROVE mem = old
    OBVIOUS
  <2>1. mem = Mixed(call, old, Written)
    BY Before
  <2>2. mem = [a \in Cells |-> old[a]]
    BY <1>4, <2>1 DEF Mixed
  <2> QED
    BY <1>1, <2>2
<1> QED
  BY <1>1, <1>2, <1>3, <1>4, <1>5

LEMMA LookedOn ==
  ASSUME IInv, ret = NONE, call.f \in Lookers, i' \in Nat, j' \in Nat,
         UNCHANGED <<call, old, mem, ret>>, At(call, old, i', j')
  PROVE  IInv'
BY Looking, Skipped

LEMMA LookedAll ==
  ASSUME IInv, ret = NONE, call.f \in Lookers, ret' # NONE,
         UNCHANGED <<call, old, mem, i, j>>, FindsOctet', ComparesUnsigned'
  PROVE  IInv'
<1>1. /\ Base(call, old) = call.d /\ call.d \in Nat
      /\ DOMAIN Image(call, old) = {} /\ Written = {}
  BY Looking
<1> QED
  BY <1>1, AllWritten

\* The cast of both sides finds the char given as itself or as its octet.
LEMMA SoughtIs ==
  ASSUME IInv, NEW a \in Cells, mem[a] = old[a]
  PROVE  IsSought(a) <=> old[a] = ToChar(call.c)
<1>1. old[a] \in Char /\ ToChar(call.c) \in Char
  BY Types, ToCharType
<1> QED
  BY <1>1, UnsignedInjective DEF IsSought

LEMMA Memchr ==
  ASSUME IInv, CInv, ft_memchr
  PROVE  IInv'
<1> DEFINE n == call.n
           a == call.s + i
<1>1. call.f = "memchr" /\ ret = NONE
  BY DEF ft_memchr, Runs
<1>2. /\ i \in Nat /\ j \in Nat /\ n \in Nat /\ call.s \in Nat /\ SIZE \in Nat
      /\ At(call, old, i, j) /\ Contract(call, old)
  BY <1>1, Types
<1>3. call.f \in Lookers /\ mem = old
  BY <1>1, Looking DEF Lookers
<1>4. i <= n /\ Unsought(call, old, i) /\ (rest # 0 <=> i < n)
  BY <1>1, <1>2 DEF At, CInv, Counted, CountFs
<1>5. i < n => (IsSought(a) <=> old[a] = ToChar(call.c))
  <2> SUFFICES ASSUME i < n PROVE IsSought(a) <=> old[a] = ToChar(call.c)
    OBVIOUS
  <2>1. a \in Cells
    BY <1>1, <1>2 DEF Contract, Fits, Cells
  <2> HIDE DEF a
  <2> QED
    BY <1>3, <2>1, SoughtIs
<1>6. NULL # NONE /\ NONE \notin Int
  BY NullAssumption
<1>7. ASSUME UNCHANGED <<call, old>>,
             ret' = LET k == FirstSought(call, old, n) IN IF k < n THEN call.s + k ELSE NULL
      PROVE  FindsOctet' /\ ComparesUnsigned'
  BY <1>1, <1>7 DEF FindsOctet, ComparesUnsigned, src, len
<1>8. CASE i < n /\ IsSought(src + i) /\ Return(src + i)
  <2>1. UNCHANGED <<call, old, mem, i, j>> /\ ret' = a /\ ret' # NONE
    BY <1>2, <1>6, <1>8 DEF Return, src
  <2>2. FirstSought(call, old, n) = i
    BY <1>2, <1>4, <1>5, <1>8, FirstSoughtIs DEF src
  <2> QED
    BY <1>1, <1>3, <1>7, <1>8, <2>1, <2>2, LookedAll
<1>9. CASE i < n /\ ~IsSought(src + i) /\ UNCHANGED mem /\ Turn(0)
  <2>1. UNCHANGED <<call, old, mem, ret>> /\ i' = i + 1 /\ i' \in Nat /\ j' \in Nat
    BY <1>2, <1>9 DEF Turn
  <2>2. i' <= n /\ Unsought(call, old, i')
    BY <1>2, <1>4, <1>5, <1>9, <2>1 DEF Unsought, src
  <2>3. At(call, old, i', j')
    BY <1>1, <2>2 DEF At, CatFs
  <2> QED
    BY <1>1, <1>3, <2>1, <2>3, LookedOn
<1>10. CASE i = n /\ Return(NULL)
  <2>1. UNCHANGED <<call, old, mem, i, j>> /\ ret' = NULL /\ ret' # NONE
    BY <1>6, <1>10 DEF Return
  <2>2. FirstSought(call, old, n) = n
    BY <1>2, <1>4, <1>10, FirstSoughtIs
  <2> QED
    BY <1>1, <1>2, <1>3, <1>7, <2>1, <2>2, LookedAll
<1> QED
  BY <1>2, <1>4, <1>8, <1>9, <1>10 DEF ft_memchr

LEMMA Memccpy ==
  ASSUME IInv, CInv, ft_memccpy
  PROVE  IInv'
<1> DEFINE n == call.n
           a == call.s + i
<1>1. call.f = "memccpy" /\ ret = NONE
  BY DEF ft_memccpy, Runs
<1>2. /\ i \in Nat /\ j \in Nat /\ n \in Nat /\ call.s \in Nat /\ call.d \in Nat /\ SIZE \in Nat
      /\ At(call, old, i, j) /\ Contract(call, old)
  BY <1>1, Types
<1>3. call.f \in StraightFs
  BY <1>1 DEF StraightFs
<1>4. i <= n /\ Unsought(call, old, i) /\ (rest # 0 <=> i < n)
  BY <1>1, <1>2 DEF At, CInv, Counted, CountFs
<1>5. Apart(call.d, n, call.s, n)
  BY <1>1, <1>2 DEF Contract
<1>6. i < n => /\ mem[a] = old[a] /\ (IsSought(a) <=> old[a] = ToChar(call.c))
               /\ call.d + i \in Cells
  <2> SUFFICES ASSUME i < n
               PROVE  /\ mem[a] = old[a] /\ (IsSought(a) <=> old[a] = ToChar(call.c))
                      /\ call.d + i \in Cells
    OBVIOUS
  <2>1. a \in Cells /\ call.d + i \in Cells /\ (a < call.d \/ a >= call.d + i)
    BY <1>2, <1>5 DEF Apart, Fits, Cells
  <2> HIDE DEF a
  <2>2. mem[a] = old[a]
    BY <1>1, <1>3, <2>1, StraightKept
  <2> QED
    BY <2>1, <2>2, SoughtIs
<1>7. NULL # NONE /\ NONE \notin Int
  BY NullAssumption
<1>8. ASSUME UNCHANGED <<call, old>>,
             ret' = LET k == FirstSought(call, old, n) IN IF k < n THEN call.d + k + 1 ELSE NULL
      PROVE  FindsOctet' /\ ComparesUnsigned'
  BY <1>1, <1>8 DEF FindsOctet, ComparesUnsigned, dst, len
<1>9. Image(call, old) = [k \in 0..Least(FirstSought(call, old, n), n - 1) |-> old[call.s + k]]
  BY <1>1 DEF Image, CatFs, NUL
<1>10. CASE i < n /\ IsSought(src + i) /\ PutReturn(dst + i, mem[src + i], dst + i + 1)
  <2>1. /\ UNCHANGED <<call, old, i, j>> /\ ret' = call.d + i + 1 /\ ret' # NONE
        /\ Put(call.d + i, mem[a])
    BY <1>2, <1>7, <1>10 DEF PutReturn, src, dst
  <2>2. FirstSought(call, old, n) = i
    BY <1>2, <1>4, <1>6, <1>10, FirstSoughtIs DEF src
  <2>3. Least(FirstSought(call, old, n), n - 1) = i
    BY <1>2, <1>10, <2>2 DEF Least
  <2>4. DOMAIN Image(call, old) = 0..i /\ Image(call, old)[i] = mem[a]
    BY <1>2, <1>6, <1>9, <1>10, <2>3
  <2>5. Put(call.d + i, Image(call, old)[i])
    BY <2>1, <2>4
  <2>6. FindsOctet' /\ ComparesUnsigned'
    BY <1>8, <1>10, <2>1, <2>2
  <2> QED
    BY <1>1, <1>3, <1>6, <1>10, <2>1, <2>4, <2>5, <2>6, OnwardsLast
<1>11. CASE i < n /\ ~IsSought(src + i) /\ Copy
  <2>1. /\ UNCHANGED <<call, old, ret>> /\ i' = i + 1 /\ j' \in Nat
        /\ Put(call.d + i, mem[a])
    BY <1>2, <1>11 DEF Copy, Turn, src, dst
  <2>2. i + 1 <= n /\ Unsought(call, old, i + 1)
    BY <1>2, <1>4, <1>6, <1>11 DEF Unsought, src
  <2>3. At(call, old, i + 1, j')
    BY <1>1, <2>2 DEF At, CatFs
  <2>4. i \in 0..Least(FirstSought(call, old, n), n - 1)
    <3>1. PICK k \in 0..n : /\ FirstSought(call, old, n) = k
                            /\ k < n => old[call.s + k] = ToChar(call.c)
      BY <1>2, FirstSoughtExists
    <3>2. ~(k < i + 1)
      <4> SUFFICES ASSUME k < i + 1 PROVE FALSE
        OBVIOUS
      <4>1. k < n /\ k \in 0..(i + 1)-1
        BY <1>2, <2>2
      <4>2. old[call.s + k] # ToChar(call.c)
        BY <2>2, <4>1 DEF Unsought
      <4> QED
        BY <3>1, <4>1, <4>2
    <3>3. i \in 0..Least(k, n - 1)
      BY <1>2, <1>11, <3>2 DEF Least
    <3> QED
      BY <3>1, <3>3
  <2>5. i \in DOMAIN Image(call, old) /\ Image(call, old)[i] = mem[a]
    BY <1>6, <1>9, <1>11, <2>4
  <2>6. Put(call.d + i, Image(call, old)[i])
    BY <2>1, <2>5
  <2> QED
    BY <1>1, <1>3, <1>6, <1>11, <2>1, <2>3, <2>5, <2>6, Onwards
<1>12. CASE i = n /\ Return(NULL)
  <2>1. UNCHANGED <<call, old, mem, i, j>> /\ ret' = NULL /\ ret' # NONE
    BY <1>7, <1>12 DEF Return
  <2>2. FirstSought(call, old, n) = n
    BY <1>2, <1>4, <1>12, FirstSoughtIs
  <2>3. Least(FirstSought(call, old, n), n - 1) = i - 1
    BY <1>2, <1>12, <2>2 DEF Least
  <2>4. DOMAIN Image(call, old) = 0..i-1
    BY <1>9, <2>3
  <2>5. FindsOctet' /\ ComparesUnsigned'
    BY <1>2, <1>8, <2>1, <2>2
  <2> QED
    BY <1>1, <1>3, <2>1, <2>4, <2>5, OnwardsDone
<1> QED
  BY <1>2, <1>4, <1>10, <1>11, <1>12 DEF ft_memccpy

LEMMA Strchr ==
  ASSUME IInv, ft_strchr
  PROVE  IInv'
<1> DEFINE s == TextLen(old, call.s)
           a == call.s + i
           c == ToChar(call.c)
<1>1. call.f = "strchr" /\ ret = NONE
  BY DEF ft_strchr, Runs
<1>2. /\ i \in Nat /\ j \in Nat /\ call.s \in Nat /\ call.c \in -HALF..2*HALF-1
      /\ At(call, old, i, j) /\ Contract(call, old)
  BY <1>1, Types
<1>3. call.f \in Lookers /\ mem = old
  BY <1>1, Looking DEF Lookers, LookFs
<1>4. i <= s /\ Unsought(call, old, i)
  BY <1>1, <1>2 DEF At
<1>5. s \in Nat /\ \A k \in 0..s : old[call.s + k] = NUL <=> k = s
  <2>1. IsText(old, call.s)
    BY <1>1, <1>2 DEF Contract, LookFs
  <2> QED
    BY <1>2, <2>1, TextLenIs
<1>6. NULL # NONE /\ NONE \notin Int
  BY NullAssumption
<1>7. ASSUME UNCHANGED <<call, old>>,
             ret' = LET k == FirstSought(call, old, s + 1)
                    IN IF k < s + 1 THEN call.s + k ELSE NULL
      PROVE  FindsOctet' /\ ComparesUnsigned'
  BY <1>1, <1>7 DEF FindsOctet, ComparesUnsigned, src
<1>8. c = NUL <=> call.c = 0
  BY <1>2, ToCharType DEF NUL
<1> HIDE DEF s, c
<1>9. CASE old[a] # NUL /\ old[a] # c /\ Skip(1, 0)
  <2>1. UNCHANGED <<call, old, mem, ret>> /\ i' = i + 1 /\ i' \in Nat /\ j' \in Nat
    BY <1>2, <1>9 DEF Skip, Up
  <2>2. i' <= s
    BY <1>2, <1>4, <1>5, <1>9, <2>1
  <2>3. Unsought(call, old, i')
    BY <1>2, <1>4, <1>9, <2>1 DEF Unsought, c
  <2>4. At(call, old, i', j')
    BY <1>1, <2>2, <2>3 DEF At, CatFs, s
  <2> QED
    BY <1>1, <1>3, <2>1, <2>4, LookedOn
<1>10. CASE old[a] # NUL /\ old[a] = c /\ Return(a)
  <2>1. UNCHANGED <<call, old, mem, i, j>> /\ ret' = a /\ ret' # NONE
    BY <1>2, <1>6, <1>10 DEF Return
  <2>2. FirstSought(call, old, s + 1) = i /\ i < s + 1
    BY <1>2, <1>4, <1>5, <1>10, FirstSoughtIs DEF c
  <2> QED
    BY <1>1, <1>3, <1>7, <2>1, <2>2, LookedAll
<1>11. CASE old[a] = NUL /\ Return(IF call.c = 0 THEN a ELSE NULL)
  <2>1. /\ UNCHANGED <<call, old, mem, i, j>>
        /\ ret' = (IF call.c = 0 THEN a ELSE NULL) /\ ret' # NONE
    BY <1>2, <1>6, <1>11 DEF Return
  <2>2. i = s
    BY <1>2, <1>4, <1>5, <1>11
  <2>3. ret' = LET k == FirstSought(call, old, s + 1) IN IF k < s + 1 THEN call.s + k ELSE NULL
    <3>1. CASE call.c = 0
      <4>1. FirstSought(call, old, s + 1) = s
        BY <1>4, <1>5, <1>8, <1>11, <2>2, <3>1, FirstSoughtIs DEF c
      <4> QED
        BY <1>5, <2>1, <2>2, <3>1, <4>1
    <3>2. CASE call.c # 0
      <4>1. Unsought(call, old, s + 1)
        BY <1>2, <1>4, <1>5, <1>8, <1>11, <2>2, <3>2 DEF Unsought, c
      <4>2. FirstSought(call, old, s + 1) = s + 1
        BY <1>5, <4>1, FirstSoughtIs
      <4> QED
        BY <1>5, <2>1, <3>2, <4>2
    <3> QED
      BY <3>1, <3>2
  <2> QED
    BY <1>1, <1>3, <1>7, <2>1, <2>3, LookedAll
<1> QED
  BY <1>3, <1>9, <1>10, <1>11 DEF ft_strchr, src, c

\* It compares the char with the int as it is: what it is promised is a char.
LEMMA Strrchr ==
  ASSUME IInv, ft_strrchr
  PROVE  IInv'
<1> DEFINE s == TextLen(old, call.s)
<1>1. call.f = "strrchr" /\ ret = NONE
  BY DEF ft_strrchr, Runs
<1>2. /\ i \in Nat /\ j \in Nat /\ call.s \in Nat
      /\ At(call, old, i, j) /\ Contract(call, old)
  BY <1>1, Types
<1>3. call.f \in Lookers /\ mem = old
  BY <1>1, Looking DEF Lookers, LookFs
<1>4. /\ i <= s /\ j <= i + 1 /\ (j > 0 => i = s)
      /\ \A k \in i-j+1..i : old[call.s + k] # call.c
  BY <1>1, <1>2 DEF At
<1>5. ASSUME NEW x \in Nat, NEW y \in Nat, x <= s, y <= x + 1, y > 0 => x = s,
             \A k \in x-y+1..x : old[call.s + k] # call.c
      PROVE  At(call, old, x, y)
  BY <1>1, <1>5 DEF At, CatFs
<1>6. s \in Nat /\ \A k \in 0..s : old[call.s + k] = NUL <=> k = s
  <2>1. IsText(old, call.s)
    BY <1>1, <1>2 DEF Contract, LookFs
  <2> QED
    BY <1>2, <2>1, TextLenIs
<1>7. NULL # NONE /\ NONE \notin Int
  BY NullAssumption
<1>8. ASSUME UNCHANGED <<call, old>>,
             LET at == {k \in 0..s : old[call.s + k] = call.c}
             IN IF at = {} THEN ret' = NULL
                ELSE ret' - call.s \in at /\ \A k \in at : k <= ret' - call.s
      PROVE  FindsOctet' /\ ComparesUnsigned'
  BY <1>1, <1>8 DEF FindsOctet, ComparesUnsigned, src
<1> HIDE DEF s
<1>9. CASE old[call.s + i] # NUL /\ Skip(1, 0)
  <2>1. /\ UNCHANGED <<call, old, mem, ret>> /\ i' = i + 1 /\ j' = j
        /\ i' \in Nat /\ j' \in Nat
    BY <1>2, <1>9 DEF Skip, Up
  <2>2. i < s /\ j = 0
    BY <1>2, <1>4, <1>6, <1>9
  <2>3. i' <= s /\ j' <= i' + 1 /\ (j' > 0 => i' = s)
    BY <1>2, <1>6, <2>1, <2>2
  <2>4. \A k \in i'-j'+1..i' : old[call.s + k] # call.c
    BY <1>2, <2>1, <2>2
  <2>5. At(call, old, i', j')
    BY <1>5, <2>1, <2>3, <2>4
  <2> QED
    BY <1>1, <1>3, <2>1, <2>5, LookedOn
<1>10. CASE old[call.s + i] = NUL /\ j <= i /\ old[call.s + i - j] # call.c /\ Skip(0, 1)
  <2>1. /\ UNCHANGED <<call, old, mem, ret>> /\ i' = i /\ j' = j + 1
        /\ i' \in Nat /\ j' \in Nat
    BY <1>2, <1>10 DEF Skip, Up
  <2>2. i = s
    BY <1>2, <1>4, <1>6, <1>10
  <2>3. i' <= s /\ j' <= i' + 1 /\ (j' > 0 => i' = s)
    BY <1>2, <1>6, <1>10, <2>1, <2>2
  <2>4. \A k \in i'-j'+1..i' : old[call.s + k] # call.c
    <3> SUFFICES ASSUME NEW k \in i-(j+1)+1..i PROVE old[call.s + k] # call.c
      BY <1>2, <2>1
    <3>1. CASE k = i - j
      <4>1. call.s + k = call.s + i - j
        BY <1>2, <3>1
      <4> QED
        BY <1>10, <4>1
    <3>2. CASE k # i - j
      BY <1>2, <1>4, <3>2
    <3> QED
      BY <3>1, <3>2
  <2>5. At(call, old, i', j')
    BY <1>5, <2>1, <2>3, <2>4
  <2> QED
    BY <1>1, <1>3, <2>1, <2>5, LookedOn
<1>11. CASE old[call.s + i] = NUL /\ j <= i /\ old[call.s + i - j] = call.c /\ Return(call.s + i - j)
  <2> DEFINE at == {k \in 0..s : old[call.s + k] = call.c}
  <2>1. UNCHANGED <<call, old, mem, i, j>> /\ ret' = call.s + i - j /\ ret' # NONE
    BY <1>2, <1>7, <1>11 DEF Return
  <2>2. i = s
    BY <1>2, <1>4, <1>6, <1>11
  <2>3. i - j \in at
    <3>1. call.s + (i - j) = call.s + i - j /\ i - j \in 0..s
      BY <1>2, <1>11, <2>2
    <3> QED
      BY <1>11, <3>1
  <2>4. \A k \in at : k <= i - j
    <3> SUFFICES ASSUME NEW k \in at, k > i - j PROVE FALSE
      BY <1>2
    <3>1. k \in i-j+1..i /\ old[call.s + k] = call.c
      BY <1>2, <2>2
    <3> QED
      BY <1>4, <3>1
  <2>5. ret' - call.s = i - j
    BY <1>2, <2>1
  <2> HIDE DEF at
  <2>6. IF at = {} THEN ret' = NULL ELSE ret' - call.s \in at /\ \A k \in at : k <= ret' - call.s
    BY <2>3, <2>4, <2>5
  <2> QED
    BY <1>1, <1>3, <1>8, <2>1, <2>6, LookedAll DEF at
<1>12. CASE old[call.s + i] = NUL /\ j > i /\ Return(NULL)
  <2> DEFINE at == {k \in 0..s : old[call.s + k] = call.c}
  <2>1. UNCHANGED <<call, old, mem, i, j>> /\ ret' = NULL /\ ret' # NONE
    BY <1>7, <1>12 DEF Return
  <2>2. i = s /\ j = i + 1
    BY <1>2, <1>4, <1>6, <1>12
  <2>3. \A k \in 0..s : old[call.s + k] # call.c
    <3>1. i - j + 1 = 0
      BY <1>2, <2>2
    <3> QED
      BY <1>4, <2>2, <3>1
  <2>4. at = {}
    BY <2>3
  <2> HIDE DEF at
  <2>6. IF at = {} THEN ret' = NULL ELSE ret' - call.s \in at /\ \A k \in at : k <= ret' - call.s
    BY <2>1, <2>4
  <2> QED
    BY <1>1, <1>3, <1>8, <2>1, <2>6, LookedAll DEF at
<1> QED
  BY <1>3, <1>9, <1>10, <1>11, <1>12 DEF ft_strrchr, src

-----------------------------------------------------------------------------
(* The comparisons *)

CompareFs == {"memcmp", "strcmp", "strncmp", "strequ", "strnequ"}
EqualFs == {"strequ", "strnequ"}

\* The offsets a comparison may look at.
Seen == CASE call.f = "memcmp" -> 0..call.n-1
          [] call.f \in {"strcmp", "strequ"} -> 0..TextLen(old, call.s)
          [] OTHER -> 0..Least(call.n - 1, TextLen(old, call.s))

DiffersAt(k) ==
  /\ old[call.d + k] # old[call.s + k]
  /\ \A x \in 0..k-1 : old[call.d + x] = old[call.s + x]

\* What ComparesUnsigned asks of a return.
LEMMA Verdict ==
  ASSUME UNCHANGED <<call, old>>, call.f \in CompareFs,
         call.f \in EqualFs => ret' = IF \E k \in Seen : DiffersAt(k) THEN 0 ELSE 1,
         call.f \notin EqualFs /\ (\E k \in Seen : DiffersAt(k)) =>
            \E k \in Seen : /\ DiffersAt(k)
                            /\ ret' > 0 <=> Unsigned(old[call.d + k]) > Unsigned(old[call.s + k])
                            /\ ret' # 0,
         call.f \notin EqualFs /\ ~(\E k \in Seen : DiffersAt(k)) => ret' = 0
  PROVE  FindsOctet' /\ ComparesUnsigned'
<1>1. FindsOctet'
  BY DEF FindsOctet, CompareFs
<1>2. /\ call' = call /\ old' = old
      /\ call.f \in CompareFs
  OBVIOUS
<1>3. ComparesUnsigned'
  BY <1>2 DEF ComparesUnsigned, CompareFs, EqualFs, Seen, DiffersAt, src, dst, len
<1> QED
  BY <1>1, <1>3

\* At the first difference,
LEMMA AtDifference ==
  ASSUME UNCHANGED <<call, old>>, call.f \in CompareFs, NEW k \in Seen, DiffersAt(k),
         old[call.d + k] \in Char, old[call.s + k] \in Char,
         ret' = IF call.f \in EqualFs THEN 0
                ELSE Unsigned(old[call.d + k]) - Unsigned(old[call.s + k])
  PROVE  FindsOctet' /\ ComparesUnsigned'
<1> DEFINE x == Unsigned(old[call.d + k])
           y == Unsigned(old[call.s + k])
<1>1. x \in Int /\ y \in Int /\ x # y
  BY UnsignedInjective DEF DiffersAt
<1>2. call.f \in EqualFs => ret' = IF \E z \in Seen : DiffersAt(z) THEN 0 ELSE 1
  OBVIOUS
<1>3. call.f \notin EqualFs => ret' = x - y
  OBVIOUS
<1> HIDE DEF x, y
<1>4. call.f \notin EqualFs => (ret' > 0 <=> x > y) /\ ret' # 0
  BY <1>1, <1>3
<1>5. call.f \notin EqualFs /\ (\E z \in Seen : DiffersAt(z)) =>
            \E z \in Seen : /\ DiffersAt(z)
                            /\ ret' > 0 <=> Unsigned(old[call.d + z]) > Unsigned(old[call.s + z])
                            /\ ret' # 0
  BY <1>4 DEF x, y
<1> QED
  BY <1>2, <1>5, Verdict

\* and without one.
LEMMA NoDifference ==
  ASSUME UNCHANGED <<call, old>>, call.f \in CompareFs,
         \A k \in Seen : old[call.d + k] = old[call.s + k],
         ret' = IF call.f \in EqualFs THEN 1 ELSE 0
  PROVE  FindsOctet' /\ ComparesUnsigned'
<1>1. ~(\E k \in Seen : DiffersAt(k))
  BY DEF DiffersAt
<1> QED
  BY <1>1, Verdict

\* The octets memcmp compares are in memory.
LEMMA MemcmpOctets ==
  ASSUME IInv, ret = NONE, call.f = "memcmp", i < call.n
  PROVE  LET a == call.d + i
             b == call.s + i
         IN /\ old[a] \in Char /\ old[b] \in Char
            /\ Unsigned(old[a]) - Unsigned(old[b]) \in Int
            /\ (Unsigned(old[a]) - Unsigned(old[b]) = 0 <=> old[a] = old[b])
            /\ Difference = Unsigned(old[a]) - Unsigned(old[b])
<1> DEFINE a == call.d + i
           b == call.s + i
<1>1. /\ i \in Nat /\ call.n \in Nat /\ call.d \in Nat /\ call.s \in Nat /\ SIZE \in Nat
      /\ old \in [Cells -> Char] /\ call.d + call.n <= SIZE /\ call.s + call.n <= SIZE
  BY Types DEF Contract, Fits
<1>2. call.f \in Lookers /\ mem = old
  BY Looking DEF Lookers
<1>3. a \in Cells /\ b \in Cells
  BY <1>1 DEF Cells
<1>4. Difference = Unsigned(old[a]) - Unsigned(old[b])
  BY <1>2 DEF Difference, dst, src
<1> HIDE DEF a, b
<1>5. old[a] \in Char /\ old[b] \in Char
  BY <1>1, <1>3
<1>6. Unsigned(old[a]) \in Int /\ Unsigned(old[b]) \in Int
  BY <1>5, UnsignedInjective
<1>7. Unsigned(old[a]) - Unsigned(old[b]) = 0 <=> old[a] = old[b]
  BY <1>5, UnsignedInjective
<1> QED
  BY <1>4, <1>5, <1>6, <1>7 DEF a, b

LEMMA Memcmp ==
  ASSUME IInv, CInv, ft_memcmp
  PROVE  IInv'
<1> DEFINE n == call.n
           a == call.d + i
           b == call.s + i
<1>1. call.f = "memcmp" /\ ret = NONE
  BY DEF ft_memcmp, Runs
<1>2. /\ i \in Nat /\ j \in Nat /\ n \in Nat /\ call.d \in Nat /\ call.s \in Nat /\ SIZE \in Nat
      /\ At(call, old, i, j) /\ Contract(call, old) /\ old \in [Cells -> Char]
  BY <1>1, Types
<1>3. call.f \in Lookers /\ mem = old /\ call.f \in CompareFs /\ call.f \notin EqualFs
  BY <1>1, Looking DEF Lookers, CompareFs, EqualFs
<1>4. i <= n /\ Alike(call, old, i) /\ (rest # 0 <=> i < n)
  BY <1>1, <1>2 DEF At, CInv, Counted, CountFs
<1>5. call.d + n <= SIZE /\ call.s + n <= SIZE
  BY <1>1, <1>2 DEF Contract, Fits
<1>6. i < n => /\ old[a] \in Char /\ old[b] \in Char
               /\ Unsigned(old[a]) - Unsigned(old[b]) \in Int
               /\ (Unsigned(old[a]) - Unsigned(old[b]) = 0 <=> old[a] = old[b])
  BY <1>1, MemcmpOctets
<1>7. Seen = 0..n-1
  BY <1>1 DEF Seen
<1>8. NONE \notin Int
  BY NullAssumption
<1>9. Difference = Unsigned(old[a]) - Unsigned(old[b])
  BY <1>3 DEF Difference, dst, src
<1>10. CASE i < n /\ Difference # 0 /\ ret' = Difference /\ UNCHANGED <<call, old, mem, i, j>>
  <2>1. /\ UNCHANGED <<call, old, mem, i, j>>
        /\ ret' = Unsigned(old[a]) - Unsigned(old[b]) /\ ret' # NONE
    BY <1>6, <1>8, <1>9, <1>10
  <2>2. i \in Seen /\ DiffersAt(i)
    BY <1>2, <1>4, <1>6, <1>7, <1>9, <1>10 DEF DiffersAt, Alike
  <2>3. FindsOctet' /\ ComparesUnsigned'
    BY <1>3, <1>6, <1>10, <2>1, <2>2, AtDifference
  <2> QED
    BY <1>1, <1>3, <2>1, <2>3, LookedAll
<1>11. CASE i < n /\ Difference = 0 /\ i' = i + 1 /\ UNCHANGED <<call, old, mem, j, ret>>
  <2>1. UNCHANGED <<call, old, mem, ret>> /\ i' = i + 1 /\ i' \in Nat /\ j' \in Nat
    BY <1>2, <1>11
  <2>2. i' <= n /\ Alike(call, old, i')
    BY <1>2, <1>4, <1>6, <1>9, <1>11, <2>1 DEF Alike
  <2>3. At(call, old, i', j')
    BY <1>1, <2>2 DEF At, CatFs
  <2> QED
    BY <1>1, <1>3, <2>1, <2>3, LookedOn
<1>12. CASE i = n /\ ret' = 0 /\ UNCHANGED <<call, old, mem, i, j>>
  <2>1. UNCHANGED <<call, old, mem, i, j>> /\ ret' = 0 /\ ret' # NONE
    BY <1>8, <1>12
  <2>2. \A k \in Seen : old[call.d + k] = old[call.s + k]
    BY <1>4, <1>7, <1>12 DEF Alike
  <2>3. FindsOctet' /\ ComparesUnsigned'
    BY <1>3, <2>1, <2>2, NoDifference
  <2> QED
    BY <1>1, <1>3, <2>1, <2>3, LookedAll
<1> QED
  BY <1>2, <1>4, <1>10, <1>11, <1>12 DEF ft_memcmp

LEMMA TextCompares ==
  ASSUME IInv, ft_strcmp \/ ft_strequ \/ ft_strncmp \/ ft_strnequ
  PROVE  IInv'
<1> DEFINE n == call.n
           s == TextLen(old, call.s)
           d == TextLen(old, call.d)
           a == call.d + i
           b == call.s + i
           u == Unsigned(old[a]) - Unsigned(old[b])
           bounded == call.f \in {"strncmp", "strnequ"}
           answer == IF call.f \in EqualFs THEN IsZero(u) ELSE u
<1>1. call.f \in {"strcmp", "strequ", "strncmp", "strnequ"} /\ ret = NONE
  BY DEF ft_strcmp, ft_strequ, ft_strncmp, ft_strnequ, Runs
<1>2. /\ i \in Nat /\ j \in Nat /\ n \in Nat /\ call.d \in Nat /\ call.s \in Nat /\ SIZE \in Nat
      /\ At(call, old, i, j) /\ Contract(call, old) /\ old \in [Cells -> Char]
  BY <1>1, Types
<1>3. call.f \in Lookers /\ mem = old /\ call.f \in CompareFs
  BY <1>1, Looking DEF Lookers, LookFs, CompareFs
<1>4. i <= s /\ i <= d /\ Alike(call, old, i) /\ (bounded => i = 0 \/ i < n)
  BY <1>1, <1>2 DEF At
<1>5. ASSUME NEW x \in Nat, NEW y \in Nat, x <= s, x <= d, Alike(call, old, x),
             bounded => x = 0 \/ x < n
      PROVE  At(call, old, x, y)
  BY <1>1, <1>5 DEF At, CatFs
<1>6. /\ s \in Nat /\ \A k \in 0..s : call.s + k \in Cells /\ (old[call.s + k] = NUL <=> k = s)
      /\ d \in Nat /\ \A k \in 0..d : call.d + k \in Cells /\ (old[call.d + k] = NUL <=> k = d)
  <2>1. IsText(old, call.s) /\ IsText(old, call.d)
    BY <1>1, <1>2 DEF Contract, LookFs
  <2> QED
    BY <1>2, <2>1, TextLenIs
<1>7. /\ a \in Cells /\ b \in Cells
      /\ (old[a] = NUL <=> i = d) /\ (old[b] = NUL <=> i = s)
  BY <1>2, <1>4, <1>6
<1>8. /\ old[a] \in Char /\ old[b] \in Char /\ u \in Int
      /\ (u = 0 <=> old[a] = old[b])
  <2>1. old[a] \in Char /\ old[b] \in Char
    <3> HIDE DEF a, b
    <3> QED
      BY <1>2, <1>7
  <2>2. Unsigned(old[a]) \in Int /\ Unsigned(old[b]) \in Int
    BY <2>1, UnsignedInjective
  <2> QED
    BY <2>1, <2>2, UnsignedInjective
<1>9. Seen = IF bounded THEN 0..Least(n - 1, s) ELSE 0..s
  BY <1>1 DEF Seen
<1>10. NONE \notin Int
  BY NullAssumption
<1>11. Difference = u /\ (Same <=> old[a] = old[b] /\ old[a] # NUL)
  BY <1>3 DEF Difference, Same, dst, src
<1>12. \/ bounded /\ n = 0 /\ Return(IF call.f \in EqualFs THEN 1 ELSE 0)
       \/ /\ bounded => n # 0
          /\ Same /\ (bounded => i < n - 1) /\ Skip(1, 0)
       \/ /\ bounded => n # 0
          /\ ~(Same /\ (bounded => i < n - 1)) /\ Return(answer)
  <2> HIDE DEF u
  <2>1. CASE call.f = "strcmp"
    <3>1. Compare(Same, u) /\ answer = u /\ ~bounded
      BY <1>11, <2>1 DEF ft_strcmp, ft_strequ, ft_strncmp, ft_strnequ, Runs, EqualFs
    <3> HIDE DEF answer, bounded
    <3> QED
      BY <3>1 DEF Compare
  <2>2. CASE call.f = "strequ"
    <3>1. Compare(Same, IsZero(u)) /\ answer = IsZero(u) /\ ~bounded
      BY <1>11, <2>2 DEF ft_strcmp, ft_strequ, ft_strncmp, ft_strnequ, Runs, EqualFs
    <3> HIDE DEF answer, bounded
    <3> QED
      BY <3>1 DEF Compare
  <2>3. CASE call.f = "strncmp"
    <3>1. /\ IF n = 0 THEN Return(0) ELSE Compare(Same /\ i < n - 1, u)
          /\ answer = u /\ bounded /\ call.f \notin EqualFs
      BY <1>11, <2>3 DEF ft_strcmp, ft_strequ, ft_strncmp, ft_strnequ, Runs, EqualFs, len
    <3> HIDE DEF answer, bounded
    <3> QED
      BY <3>1 DEF Compare
  <2>4. CASE call.f = "strnequ"
    <3>1. /\ IF n = 0 THEN Return(1) ELSE Compare(Same /\ i < n - 1, IsZero(u))
          /\ answer = IsZero(u) /\ bounded /\ call.f \in EqualFs
      BY <1>11, <2>4 DEF ft_strcmp, ft_strequ, ft_strncmp, ft_strnequ, Runs, EqualFs, len
    <3> HIDE DEF answer, bounded
    <3> QED
      BY <3>1 DEF Compare
  <2> QED
    BY <1>1, <2>1, <2>2, <2>3, <2>4
<1> HIDE DEF n, s, d, bounded
<1>13. CASE bounded /\ n = 0 /\ Return(IF call.f \in EqualFs THEN 1 ELSE 0)
  <2>1. /\ UNCHANGED <<call, old, mem, i, j>>
        /\ ret' = (IF call.f \in EqualFs THEN 1 ELSE 0) /\ ret' # NONE
    BY <1>10, <1>13 DEF Return
  <2>2. \A k \in Seen : old[call.d + k] = old[call.s + k]
    <3>1. Seen = {}
      BY <1>6, <1>9, <1>13 DEF Least
    <3> QED
      BY <3>1
  <2>3. FindsOctet' /\ ComparesUnsigned'
    BY <1>3, <2>1, <2>2, NoDifference
  <2> QED
    BY <1>1, <1>3, <2>1, <2>3, LookedAll
<1>14. CASE Same /\ (bounded => i < n - 1) /\ Skip(1, 0)
  <2>1. UNCHANGED <<call, old, mem, ret>> /\ i' = i + 1 /\ i' \in Nat /\ j' \in Nat
    BY <1>2, <1>14 DEF Skip, Up
  <2>2. old[a] = old[b] /\ i < d /\ i < s
    BY <1>2, <1>4, <1>6, <1>7, <1>11, <1>14
  <2>3. Alike(call, old, i')
    BY <1>2, <1>4, <2>1, <2>2 DEF Alike
  <2>4. i' <= s /\ i' <= d /\ (bounded => i' = 0 \/ i' < n)
    BY <1>2, <1>6, <1>14, <2>1, <2>2
  <2>5. At(call, old, i', j')
    BY <1>5, <2>1, <2>3, <2>4
  <2> QED
    BY <1>1, <1>3, <2>1, <2>5, LookedOn
<1>15. CASE (bounded => n # 0) /\ ~(Same /\ (bounded => i < n - 1)) /\ Return(answer)
  <2> HIDE DEF u
  <2>1. UNCHANGED <<call, old, mem, i, j>> /\ ret' = answer /\ ret' # NONE
    BY <1>8, <1>10, <1>15 DEF Return, IsZero
  <2>2. i \in Seen
    BY <1>2, <1>4, <1>6, <1>9, <1>15 DEF Least
  <2>3. CASE old[a] # old[b]
    <3>1. DiffersAt(i)
      BY <1>4, <2>3 DEF DiffersAt, Alike
    <3>2. ret' = IF call.f \in EqualFs THEN 0 ELSE Unsigned(old[a]) - Unsigned(old[b])
      BY <1>8, <2>1, <2>3 DEF IsZero, u
    <3>3. FindsOctet' /\ ComparesUnsigned'
      BY <1>3, <1>8, <2>1, <2>2, <3>1, <3>2, AtDifference
    <3> QED
      BY <1>1, <1>3, <2>1, <3>3, LookedAll
  <2>4. CASE old[a] = old[b]
    <3>1. i = s \/ (bounded /\ i = n - 1)
      BY <1>2, <1>4, <1>6, <1>7, <1>11, <1>15, <2>4
    <3>2. Seen = 0..i
      BY <1>2, <1>4, <1>6, <1>9, <1>15, <3>1 DEF Least
    <3>3. \A k \in Seen : old[call.d + k] = old[call.s + k]
      BY <1>2, <1>4, <2>4, <3>2 DEF Alike
    <3>4. ret' = IF call.f \in EqualFs THEN 1 ELSE 0
      BY <1>8, <2>1, <2>4 DEF IsZero
    <3>5. FindsOctet' /\ ComparesUnsigned'
      BY <1>3, <2>1, <3>3, <3>4, NoDifference
    <3> QED
      BY <1>1, <1>3, <2>1, <3>5, LookedAll
  <2> QED
    BY <2>3, <2>4
<1> QED
  BY <1>12, <1>13, <1>14, <1>15

-----------------------------------------------------------------------------
(* The invariant holds, and the properties follow *)

LEMMA CountI == Init => CInv
<1> SUFFICES ASSUME Init PROVE Counted
  BY DEF CInv
<1>1. call.n \in Nat
  BY CallType, SizeAssumption DEF Init
<1> QED
  BY <1>1 DEF Init, Counted

\* No function changes the call it answers.
LEMMA SameCall ==
  ASSUME Loop
  PROVE  UNCHANGED call /\ ret = NONE
<1>1. CASE ft_memset \/ ft_bzero \/ ft_memalloc \/ ft_strnew \/ ft_memcpy \/ ft_memmove
  BY <1>1 DEF ft_memset, ft_bzero, ft_memalloc, ft_strnew, ft_memcpy, ft_memmove, Runs, Fill,
              CopyForwards, CopyBackwards, Copy, Turn, Return
<1>2. CASE ft_memccpy \/ ft_memchr \/ ft_memcmp \/ ft_strcmp \/ ft_strncmp \/ ft_strequ \/ ft_strnequ
  BY <1>2 DEF ft_memccpy, ft_memchr, ft_memcmp, ft_strcmp, ft_strncmp, ft_strequ, ft_strnequ, Runs,
              Compare, Skip, Up, Copy, Turn, Return, PutReturn
<1>3. CASE ft_strchr \/ ft_strrchr \/ ft_strcpy \/ ft_strncpy \/ ft_strcat \/ ft_strncat \/ ft_strlcat
  BY <1>3 DEF ft_strchr, ft_strrchr, ft_strcpy, ft_strncpy, ft_strcat, ft_strncat, ft_strlcat, Runs,
              Concat, Skip, Up, Turn, Return, PutReturn
<1>4. CASE ft_strjoin \/ ft_strndup \/ ft_strmap \/ ft_strmapi \/ ft_striter \/ ft_striteri \/ ft_strclr
  BY <1>4 DEF ft_strjoin, ft_strndup, ft_strmap, ft_strmapi, ft_striter, ft_striteri, ft_strclr, Runs,
              Map, Rewrite, Copy, Up, Turn, Return, PutReturn
<1> QED
  BY <1>1, <1>2, <1>3, <1>4 DEF Loop

\* The turn of a loop that counts its pointers up and its length down,
LEMMA CountTurn ==
  ASSUME IInv, Loop, call.f \in CountFs, ret' = NONE,
         i <= call.n /\ rest = call.n - i
  PROVE  rest # 0 /\ i' = i + 1 /\ rest' = Down
<1>1. /\ i \in Nat /\ call.n \in Nat /\ dst \in Int /\ src \in Int /\ ret = NONE
      /\ NONE \notin Int /\ NULL # NONE
  BY Types, SameCall, NullAssumption DEF dst, src
<1>2. \/ ft_memset \/ ft_bzero \/ ft_memalloc \/ ft_memcpy \/ ft_memccpy \/ ft_memchr
      \/ ft_memcmp \/ ft_strndup
  BY DEF CountFs, Loop, Runs, ft_strnew, ft_memmove, ft_strcmp, ft_strncmp, ft_strequ, ft_strnequ,
         ft_strchr, ft_strrchr, ft_strcpy, ft_strncpy, ft_strcat, ft_strncat, ft_strlcat,
         ft_strjoin, ft_strmap, ft_strmapi, ft_striter, ft_striteri, ft_strclr
<1>3. CASE ft_memset \/ ft_bzero \/ ft_memalloc
  BY <1>1, <1>3 DEF ft_memset, ft_bzero, ft_memalloc, Fill, Turn, Return
<1>4. CASE ft_memcpy \/ ft_strndup
  BY <1>1, <1>4 DEF ft_memcpy, ft_strndup, CopyForwards, Copy, Turn, Return
<1>5. CASE ft_memccpy \/ ft_memchr
  <2>1. dst + i + 1 \in Int /\ src + i \in Int
    BY <1>1
  <2> QED
    BY <1>1, <1>5, <2>1 DEF ft_memccpy, ft_memchr, Copy, Turn, Return, PutReturn
<1>6. CASE ft_memcmp
  <2>1. call.f = "memcmp"
    BY <1>6 DEF ft_memcmp, Runs
  <2>2. rest # 0 => Difference \in Int
    <3>1. rest # 0 => i < call.n
      BY <1>1
    <3> QED
      BY <1>1, <2>1, <3>1, MemcmpOctets
  <2> QED
    BY <1>1, <1>6, <2>2 DEF ft_memcmp
<1> QED
  BY <1>2, <1>3, <1>4, <1>5, <1>6

\* of strncat,
LEMMA CatTurn ==
  ASSUME IInv, Loop, call.f = "strncat", ret' = NONE
  PROVE  (j' = j /\ rest' = rest) \/ (rest # 0 /\ j' = j + 1 /\ rest' = Down)
<1>1. j \in Nat /\ dst \in Int /\ NONE \notin Int
  BY Types, NullAssumption DEF dst
<1>2. ft_strncat
  BY DEF Loop, Runs, ft_memset, ft_bzero, ft_memalloc, ft_strnew, ft_memcpy, ft_memmove,
         ft_memccpy, ft_memchr, ft_memcmp, ft_strcmp, ft_strncmp, ft_strequ, ft_strnequ,
         ft_strchr, ft_strrchr, ft_strcpy, ft_strncpy, ft_strcat, ft_strlcat,
         ft_strjoin, ft_strndup, ft_strmap, ft_strmapi, ft_striter, ft_striteri, ft_strclr
<1> QED
  BY <1>1, <1>2 DEF ft_strncat, Concat, Skip, Up, Turn, PutReturn

\* and of strnew.
LEMMA StrnewTurn ==
  ASSUME IInv, Loop, call.f = "strnew", ret' = NONE
  PROVE  (rest + 1) % UINT # 0 /\ i' = i + 1 /\ rest' = Down
<1>1. dst \in Int /\ NONE \notin Int
  BY Types, NullAssumption DEF dst
<1>2. ft_strnew
  BY DEF Loop, Runs, ft_memset, ft_bzero, ft_memalloc, ft_memcpy, ft_memmove,
         ft_memccpy, ft_memchr, ft_memcmp, ft_strcmp, ft_strncmp, ft_strequ, ft_strnequ,
         ft_strchr, ft_strrchr, ft_strcpy, ft_strncpy, ft_strcat, ft_strncat, ft_strlcat,
         ft_strjoin, ft_strndup, ft_strmap, ft_strmapi, ft_striter, ft_striteri, ft_strclr
<1> QED
  BY <1>1, <1>2 DEF ft_strnew, Fill, Turn, Return

\* One turn of a loop that counts down.
LEMMA CountStep ==
  ASSUME IInv, CInv, Loop
  PROVE  CInv'
<1> SUFFICES ASSUME ret' = NONE PROVE Counted'
  BY DEF CInv
<1>1. /\ i \in Nat /\ j \in Nat /\ call.n \in 0..SIZE /\ SIZE \in Nat
      /\ call.d \in Int /\ call.s \in Int
  BY Types
<1>2. NONE \notin Int /\ NULL # NONE
  BY NullAssumption
<1>3. ret = NONE /\ Counted /\ UNCHANGED call
  BY SameCall DEF CInv
<1>4. CASE call.f \in CountFs
  <2>1. i <= call.n /\ rest = call.n - i
    BY <1>3, <1>4 DEF Counted
  <2>2. rest # 0 /\ i' = i + 1 /\ rest' = Down
    BY <1>4, <2>1, CountTurn
  <2>3. i' <= call.n /\ rest' = call.n - i'
    <3>1. rest \in 0..SIZE
      BY <1>1, <2>1
    <3>2. Down = rest - 1
      BY <2>2, <3>1, DownIs
    <3> QED
      BY <1>1, <2>1, <2>2, <3>2
  <2> QED
    BY <1>3, <1>4, <2>3 DEF Counted, CountFs
<1>5. CASE call.f = "memmove"
  <2>1. ft_memmove
    BY <1>5 DEF Loop, Runs, ft_memset, ft_bzero, ft_memalloc, ft_strnew, ft_memcpy,
           ft_memccpy, ft_memchr, ft_memcmp, ft_strcmp, ft_strncmp, ft_strequ, ft_strnequ,
           ft_strchr, ft_strrchr, ft_strcpy, ft_strncpy, ft_strcat, ft_strncat, ft_strlcat,
           ft_strjoin, ft_strndup, ft_strmap, ft_strmapi, ft_striter, ft_striteri, ft_strclr
  <2>2. Forwards' <=> Forwards
    BY <1>3 DEF Forwards, dst, src
  <2>3. CASE Forwards
    <3>1. i <= call.n /\ rest = call.n - i
      BY <1>3, <1>5, <2>3 DEF Counted
    <3>2. rest # 0 /\ i' = i + 1 /\ rest' = Down
      BY <1>1, <1>2, <2>1, <2>3 DEF ft_memmove, CopyForwards, Copy, Turn, Return, dst
    <3>3. Down = rest - 1
      BY <1>1, <3>1, <3>2, DownIs
    <3>4. i' <= call.n /\ rest' = call.n - i'
      BY <1>1, <3>1, <3>2, <3>3
    <3> QED
      BY <1>3, <1>5, <2>2, <2>3, <3>4 DEF Counted, CountFs
  <2>4. CASE ~Forwards
    <3>1. rest \in 0..call.n /\ (call.n # 0 => rest # 0)
      BY <1>3, <1>5, <2>4 DEF Counted
    <3>2. call.n # 0 /\ rest' = Down /\ Down # 0
      BY <1>1, <1>2, <2>1, <2>4 DEF ft_memmove, CopyBackwards, Return, dst, len
    <3>3. Down = rest - 1
      BY <1>1, <3>1, <3>2, DownIs
    <3>4. rest' \in 0..call.n /\ rest' # 0
      BY <1>1, <3>1, <3>2, <3>3
    <3> QED
      BY <1>3, <1>5, <2>2, <2>4, <3>4 DEF Counted, CountFs
  <2> QED
    BY <2>3, <2>4
<1>6. CASE call.f = "strncat"
  <2>1. j <= call.n /\ rest = call.n - j
    BY <1>3, <1>6 DEF Counted
  <2>2. (j' = j /\ rest' = rest) \/ (rest # 0 /\ j' = j + 1 /\ rest' = Down)
    BY <1>6, CatTurn
  <2>3. rest # 0 => Down = rest - 1
    BY <1>1, <2>1, DownIs
  <2>4. j' <= call.n /\ rest' = call.n - j'
    BY <1>1, <2>1, <2>2, <2>3
  <2> QED
    BY <1>3, <1>6, <2>4 DEF Counted, CountFs
<1>7. CASE call.f = "strnew"
  <2>1. i <= call.n + 1 /\ ((rest + 1) % UINT # 0 <=> i < call.n + 1)
    BY <1>3, <1>7, StrnewEnds
  <2>2. (rest + 1) % UINT # 0 /\ i' = i + 1 /\ rest' = Down
    BY <1>7, StrnewTurn
  <2>3. i <= call.n /\ rest = call.n - i
    BY <1>1, <1>3, <1>7, <2>1, <2>2 DEF Counted
  <2>4. rest' = IF i' <= call.n THEN call.n - i' ELSE UINT - 1
    <3>1. CASE rest # 0
      <4>1. Down = rest - 1
        BY <1>1, <2>3, <3>1, DownIs
      <4> QED
        BY <1>1, <2>2, <2>3, <3>1, <4>1
    <3>2. CASE rest = 0
      <4>1. Down = UINT - 1
        BY <3>2, SizeAssumption DEF Down
      <4> QED
        BY <1>1, <2>2, <2>3, <3>2, <4>1
    <3> QED
      BY <3>1, <3>2
  <2>5. i' <= call.n + 1
    BY <1>1, <2>2, <2>3
  <2> QED
    BY <1>3, <1>7, <2>4, <2>5 DEF Counted, CountFs
<1> QED
  BY <1>3, <1>4, <1>5, <1>6, <1>7 DEF Counted

LEMMA InitI == Init => IInv
<1> SUFFICES ASSUME Init PROVE IInv
  OBVIOUS
<1>1. /\ call \in Calls /\ old \in Memories /\ Contract(call, old)
      /\ mem = old /\ i = 0 /\ j = 0 /\ rest = call.n /\ ret = NONE
  BY DEF Init
<1>2. /\ call.f \in MemFs \cup CopyFs \cup MapFs \cup LookFs
      /\ call.n \in 0..SIZE /\ old \in [Cells -> Char]
  BY <1>1, CallType, MemoryType
<1>3. Written = {} /\ Done = {}
  <2>1. call.n..call.n-1 = {}
    BY <1>2
  <2>2. Written = {}
    BY <1>1, <1>2, <2>1 DEF Written
  <2> QED
    BY <1>1, <2>2 DEF Done
<1>4. mem = Mixed(call, old, Done) /\ Promised(call, old, Done)
  <2>1. Mixed(call, old, {}) = [a \in Cells |-> old[a]]
    BY DEF Mixed
  <2> QED
    BY <1>1, <1>2, <1>3, <2>1 DEF Promised
<1>5. At(call, old, i, j)
  <2>1. /\ IsText(old, call.s) => TextLen(old, call.s) \in Nat
        /\ IsText(old, call.d) => TextLen(old, call.d) \in Nat
        /\ IsText(old, call.t) => TextLen(old, call.t) \in Nat
    BY DEF IsText, TextLen, Cells
  <2>2. call.n \in Nat /\ Unsought(call, old, 0) /\ Alike(call, old, 0)
    BY <1>2 DEF Unsought, Alike
  <2>3. /\ call.f \in CopyFs \cup LookFs \cup {"strmap", "strmapi"} => IsText(old, call.s)
        /\ call.f \in {"strcat", "strncat", "strlcat", "strcmp", "strncmp", "strequ",
                       "strnequ", "striter", "striteri", "strclr"} => IsText(old, call.d)
        /\ call.f = "strjoin" => IsText(old, call.t)
    BY <1>1 DEF Contract
  <2> DEFINE s == TextLen(old, call.s)
             d == TextLen(old, call.d)
             t == TextLen(old, call.t)
  <2>4. /\ call.f \in CopyFs \cup LookFs \cup {"strmap", "strmapi"} => s \in Nat
        /\ call.f \in {"strcat", "strncat", "strlcat", "strcmp", "strncmp", "strequ",
                       "strnequ", "striter", "striteri", "strclr"} => d \in Nat
        /\ call.f = "strjoin" => t \in Nat
    BY <2>1, <2>3
  <2> HIDE DEF s, d, t
  <2>5. At(call, old, 0, 0)
    BY <2>2, <2>4 DEF At, s, d, t, CopyFs, LookFs, CatFs, Least
  <2> QED
    BY <1>1, <2>5
<1>6. FindsOctet /\ ComparesUnsigned
  BY <1>1 DEF FindsOctet, ComparesUnsigned
<1> QED
  BY <1>1, <1>4, <1>5, <1>6 DEF IInv

LEMMA StepI == IInv /\ CInv /\ [Next]_vars => IInv' /\ CInv'
<1> SUFFICES ASSUME IInv, CInv, [Next]_vars PROVE IInv' /\ CInv'
  OBVIOUS
<1>1. CASE Loop
  BY <1>1, Fills, Rewrites, Maps, Memcpy, Memmove, Cats, Strncpy, Strndup, Strjoin, Memchr, Memccpy,
     Strchr, Strrchr, Memcmp, TextCompares, CountStep DEF Loop
<1>2. CASE UNCHANGED vars
  BY <1>2 DEF vars, IInv, CInv, Counted, Forwards, Done, Written, FindsOctet, ComparesUnsigned, src, dst, len
<1> QED
  BY <1>1, <1>2 DEF Next, returned

LEMMA InvI == Spec => []IInv
<1>1. Init => IInv /\ CInv
  BY InitI, CountI
<1>2. IInv /\ CInv /\ [Next]_vars => IInv' /\ CInv'
  BY StepI
<1> QED
  BY <1>1, <1>2, PTL DEF Spec

LEMMA BaseInt == ASSUME IInv PROVE Base(call, old) \in Int
<1>1. call.d \in Nat
  BY Types
<1>2. call.f \in CatFs => TextLen(old, call.d) \in Nat
  BY AppendedIs
<1> QED
  BY <1>1, <1>2 DEF Base

\* No turn of any loop writes a cell outside of what its function promises,
\* for every memory, every call that keeps its contract, every F and FI.
THEOREM WritesInTargetCorrect == Spec => []WritesInTarget
<1>1. IInv => WritesInTarget
  <2> SUFFICES ASSUME IInv, NEW a \in Cells, a - Base(call, old) \notin DOMAIN Image(call, old)
               PROVE  mem[a] = old[a]
    BY DEF WritesInTarget
  <2>1. mem = Mixed(call, old, Done) /\ Done \subseteq DOMAIN Image(call, old)
    BY DEF IInv, Promised
  <2> HIDE DEF Done
  <2> QED
    BY <2>1 DEF Mixed
<1> QED
  BY <1>1, InvI, PTL

\* What a function returns on holds the image it promises, whole.
THEOREM CopiesExactlyCorrect == Spec => []CopiesExactly
<1>1. IInv => CopiesExactly
  <2> SUFFICES ASSUME IInv, ret # NONE, NEW k \in DOMAIN Image(call, old)
               PROVE  mem[Base(call, old) + k] = Image(call, old)[k]
    BY DEF CopiesExactly
  <2> DEFINE b == Base(call, old)
             g == Image(call, old)
  <2>1. /\ mem = [a \in Cells |-> IF a - b \in DOMAIN g THEN g[a - b] ELSE old[a]]
        /\ k \in Int /\ b + k \in Cells
    BY DEF IInv, Done, Promised, Mixed
  <2>2. b \in Int
    BY BaseInt
  <2> HIDE DEF b, g
  <2>3. b + k - b = k
    BY <2>1, <2>2
  <2>4. k \in DOMAIN g
    BY DEF g
  <2>5. mem[b + k] = g[k]
    <3> DEFINE a == b + k
    <3>1. a \in Cells /\ a - b = k
      BY <2>1, <2>2
    <3> HIDE DEF a
    <3>2. mem[a] = g[k]
      BY <2>1, <2>4, <3>1
    <3> QED
      BY <3>2 DEF a
  <2> QED
    BY <2>5 DEF b, g
<1> QED
  BY <1>1, InvI, PTL

\* The searches return the first octet sought, or the last, or none when there
\* is none: negative chars included.
THEOREM FindsOctetCorrect == Spec => []FindsOctet
<1>1. IInv => FindsOctet
  BY DEF IInv
<1> QED
  BY <1>1, InvI, PTL

\* The comparisons return the order of the first octets that differ, taken as
\* unsigned, within the bound and the texts.
THEOREM ComparesUnsignedCorrect == Spec => []ComparesUnsigned
<1>1. IInv => ComparesUnsigned
  BY DEF IInv
<1> QED
  BY <1>1, InvI, PTL
=============================================================================
