---------------------------- MODULE LibftMemory ----------------------------
(***************************************************************************)
(* The functions of libft that loop over octets in memory, one turn of the *)
(* loop per step: mem*, and the str* that copy, compare, search or map.    *)
(* Memory is one block of cells, pointers are cell numbers, a text ends at *)
(* a NUL.  char is signed.  A call keeps to the function's contract, which *)
(* says what is a text, what is room enough, and what does not overlap.    *)
(***************************************************************************)
EXTENDS Integers

CONSTANTS
  SIZE,      \* cells of memory
  HALF,      \* 128: a char is in -HALF..HALF-1
  UINT,      \* 2^64: a size_t is in 0..UINT-1
  F, FI,     \* what is given to ft_strmap and ft_striter, and to the -i forms
  Calls,     \* function names with their arguments
  Memories,  \* what memory may hold at the call
  NULL, NONE

Char == -HALF..HALF-1
Cells == 0..SIZE-1
NUL == 0

\* (unsigned char)x of a char, and (char)x of an int that holds a char or an octet.
Unsigned(x) == IF x < 0 THEN x + 2 * HALF ELSE x
ToChar(x) == IF x >= HALF THEN x - 2 * HALF ELSE x

MemFs == {"memset", "bzero", "memalloc", "memcpy", "memmove", "memccpy", "memchr", "memcmp"}
CopyFs == {"strcpy", "strncpy", "strcat", "strncat", "strlcat", "strjoin", "strndup"}
MapFs == {"strmap", "strmapi", "striter", "striteri", "strclr", "strnew"}
CatFs == {"strcat", "strncat", "strlcat"}
LookFs == {"strchr", "strrchr", "strcmp", "strncmp", "strequ", "strnequ"}

ASSUME SizeAssumption == SIZE \in Nat /\ HALF \in Nat /\ HALF > 0 /\ UINT \in Nat /\ UINT > SIZE
ASSUME MapAssumption == F \in [Char -> Char] /\ FI \in [Cells -> [Char -> Char]]
ASSUME CallsAssumption ==
  Calls \subseteq [f : MemFs \cup CopyFs \cup MapFs \cup LookFs,
                   d : Cells, s : Cells, t : Cells, n : 0..SIZE, c : -HALF..2*HALF-1]
ASSUME MemoriesAssumption == Memories \subseteq [Cells -> Char]
ASSUME NullAssumption == NULL \notin Int /\ NONE \notin Int \cup {NULL}

VARIABLES
  call,  \* the call under way
  old,   \* memory when it was made
  mem,
  i, j,  \* how far the loop's pointers and indices have gone
  rest,  \* the size_t parameter, which some loops count down
  ret    \* what it returned, NONE before

vars == <<call, old, mem, i, j, rest, ret>>

dst == call.d
src == call.s
len == call.n

-----------------------------------------------------------------------------
(* The caller's side *)

IsLen(m, a, k) ==
  /\ a + k < SIZE /\ m[a + k] = NUL
  /\ \A x \in 0..k-1 : m[a + x] # NUL

IsText(m, a) == \E k \in Cells : IsLen(m, a, k)

\* ft_strlen
TextLen(m, a) == CHOOSE k \in Cells : IsLen(m, a, k)

Least(x, y) == IF x < y THEN x ELSE y

\* k cells at a and l cells at b, all in memory, none in both.
Fits(a, k) == a + k <= SIZE
Apart(a, k, b, l) == Fits(a, k) /\ Fits(b, l) /\ (a + k <= b \/ b + l <= a)

\* k cells as ft_strnew leaves them.
Zeroed(m, a, k) == Fits(a, k) /\ \A x \in 0..k-1 : m[a + x] = NUL

Contract(q, m) ==
  LET s == TextLen(m, q.s)
      d == TextLen(m, q.d)
  IN /\ q.f \in CopyFs \cup LookFs \cup {"strmap", "strmapi"} => IsText(m, q.s)
     /\ q.f \in {"strcat", "strncat", "strlcat", "strcmp", "strncmp", "strequ",
                 "strnequ", "striter", "striteri", "strclr"} => IsText(m, q.d)
     /\ q.f \in {"memset", "bzero", "memalloc", "strncpy", "memmove", "memcmp"} => Fits(q.d, q.n)
     /\ q.f \in {"memmove", "memcmp", "memchr"} => Fits(q.s, q.n)
     /\ q.f \in {"memcpy", "memccpy"} => Apart(q.d, q.n, q.s, q.n)
     /\ q.f = "strcpy" => Apart(q.d, s + 1, q.s, s + 1)
     /\ q.f = "strncpy" => Apart(q.d, q.n, q.s, s + 1)
     /\ q.f = "strcat" => Apart(q.d, d + s + 1, q.s, s + 1)
     /\ q.f = "strncat" => Apart(q.d, d + Least(q.n, s) + 1, q.s, s + 1)
     /\ q.f = "strlcat" => Apart(q.d, IF q.n > d THEN q.n ELSE d + 1, q.s, s + 1)
     /\ q.f = "strjoin" => LET t == TextLen(m, q.t) IN
          /\ IsText(m, q.t)
          /\ Apart(q.d, s + t + 1, q.s, s + 1) /\ Apart(q.d, s + t + 1, q.t, t + 1)
     /\ q.f = "strndup" => q.n > 0 /\ Zeroed(m, q.d, q.n + 1) /\ Apart(q.d, q.n + 1, q.s, s + 1)
     /\ q.f \in {"strmap", "strmapi"} => Zeroed(m, q.d, s + 1) /\ Apart(q.d, s + 1, q.s, s + 1)
     /\ q.f = "strnew" => Fits(q.d, q.n + 1)

Init ==
  /\ call \in Calls /\ old \in Memories /\ Contract(call, old)
  /\ mem = old /\ i = 0 /\ j = 0 /\ rest = call.n /\ ret = NONE

-----------------------------------------------------------------------------
(* The loops *)

Runs(f) == call.f = f /\ ret = NONE
Put(a, v) == mem' = [mem EXCEPT ![a] = v]
Up(di, dj) == i' = i + di /\ j' = j + dj /\ UNCHANGED <<call, old, rest, ret>>
Skip(di, dj) == UNCHANGED mem /\ Up(di, dj)
PutReturn(a, v, r) == Put(a, v) /\ ret' = r /\ UNCHANGED <<call, old, i, j, rest>>
Return(r) == ret' = r /\ UNCHANGED <<call, old, mem, i, j, rest>>

\* The length less one: 0 wraps to the largest size_t.
Down == (rest - 1) % UINT

\* The end of a turn: the pointers go up and the length goes down.
Turn(dj) == i' = i + 1 /\ j' = j + dj /\ rest' = Down /\ UNCHANGED <<call, old, ret>>

\* A cell of dst at every turn.
Fill(goesOn, v) ==
  \/ goesOn /\ Put(dst + i, v) /\ Turn(0)
  \/ ~goesOn /\ Return(dst)

ft_memset == Runs("memset") /\ Fill(rest # 0, ToChar(call.c))
ft_bzero == Runs("bzero") /\ Fill(rest # 0, 0)
\* Its cells are ints.
ft_memalloc == Runs("memalloc") /\ Fill(rest # 0, 0)
\* One cell more than the size: the loop ends when the size has wrapped.
ft_strnew == Runs("strnew") /\ Fill((rest + 1) % UINT # 0, NUL)

Copy == Put(dst + i, mem[src + i]) /\ Turn(0)
CopyForwards == (rest # 0 /\ Copy) \/ (rest = 0 /\ Return(dst))

ft_memcpy == Runs("memcpy") /\ CopyForwards

\* Mutated: memmove copies forwards whatever the overlap.
Forwards_always == TRUE
Forwards == dst < src

\* Mutated: the loop does not keep the length it has decremented.
CopyBackwards_kept ==
  IF len = 0 THEN Return(dst)
  ELSE /\ Put(dst + Down, mem[src + Down]) /\ ret' = (IF Down = 0 THEN dst ELSE NONE)
       /\ UNCHANGED <<call, old, i, j, rest>>
\* The loop decrements before its test: octet 0 is copied after it.
CopyBackwards ==
  IF len = 0 THEN Return(dst)
  ELSE /\ Put(dst + Down, mem[src + Down]) /\ rest' = Down
       /\ ret' = (IF Down = 0 THEN dst ELSE NONE)
       /\ UNCHANGED <<call, old, i, j>>

ft_memmove == Runs("memmove") /\ (IF Forwards THEN CopyForwards ELSE CopyBackwards)

\* Mutated: the int is not cast.
IsSought_int(a) == Unsigned(mem[a]) = call.c
\* (unsigned char) of both sides.
IsSought(a) == Unsigned(mem[a]) = Unsigned(ToChar(call.c))

ft_memccpy ==
  /\ Runs("memccpy")
  /\ \/ rest # 0 /\ IsSought(src + i) /\ PutReturn(dst + i, mem[src + i], dst + i + 1)
     \/ rest # 0 /\ ~IsSought(src + i) /\ Copy
     \/ rest = 0 /\ Return(NULL)

ft_memchr ==
  /\ Runs("memchr")
  /\ \/ rest # 0 /\ IsSought(src + i) /\ Return(src + i)
     \/ rest # 0 /\ ~IsSought(src + i) /\ UNCHANGED mem /\ Turn(0)
     \/ rest = 0 /\ Return(NULL)

\* Mutated: chars subtracted as they are.
Difference_signed == mem[dst + i] - mem[src + i]
Difference == Unsigned(mem[dst + i]) - Unsigned(mem[src + i])

\* The test itself decrements, at the end from 0 too.
ft_memcmp ==
  /\ Runs("memcmp") /\ rest' = Down /\ UNCHANGED <<call, old, mem, j>>
  /\ \/ rest # 0 /\ Difference # 0 /\ ret' = Difference /\ i' = i
     \/ rest # 0 /\ Difference = 0 /\ ret' = ret /\ i' = i + 1
     \/ rest = 0 /\ ret' = 0 /\ i' = i

Same == mem[dst + i] = mem[src + i] /\ mem[dst + i] # NUL

Compare(goesOn, answer) == (goesOn /\ Skip(1, 0)) \/ (~goesOn /\ Return(answer))
IsZero(difference) == IF difference = 0 THEN 1 ELSE 0

\* n - 1 is unsigned, so 0 is set apart.
ft_strcmp == Runs("strcmp") /\ Compare(Same, Difference)
ft_strncmp ==
  Runs("strncmp") /\ (IF len = 0 THEN Return(0) ELSE Compare(Same /\ i < len - 1, Difference))

\* The loops of these two functions, and what the callers make of the answer.
ft_strequ == Runs("strequ") /\ Compare(Same, IsZero(Difference))
ft_strnequ ==
  Runs("strnequ") /\ (IF len = 0 THEN Return(1) ELSE Compare(Same /\ i < len - 1, IsZero(Difference)))

ft_strchr ==
  /\ Runs("strchr")
  /\ \/ mem[src + i] # NUL /\ mem[src + i] # ToChar(call.c) /\ Skip(1, 0)
     \/ mem[src + i] # NUL /\ mem[src + i] = ToChar(call.c) /\ Return(src + i)
     \/ mem[src + i] = NUL /\ Return(IF call.c = 0 THEN src + i ELSE NULL)

\* i counts up to the NUL, then j down from it; the octet is compared with the
\* int as it is.
ft_strrchr ==
  /\ Runs("strrchr")
  /\ IF mem[src + i] # NUL THEN Skip(1, 0)
     ELSE \/ j <= i /\ mem[src + i - j] # call.c /\ Skip(0, 1)
          \/ j <= i /\ mem[src + i - j] = call.c /\ Return(src + i - j)
          \/ j > i /\ Return(NULL)

ft_strcpy ==
  /\ Runs("strcpy")
  /\ \/ mem[src + i] # NUL /\ Put(dst + i, mem[src + i]) /\ Up(1, 1)
     \/ mem[src + i] = NUL /\ PutReturn(dst + i, NUL, dst)

Pads == mem[src + j] = NUL /\ i < len

ft_strncpy ==
  /\ Runs("strncpy")
  /\ \/ mem[src + j] # NUL /\ i < len /\ Put(dst + i, mem[src + j]) /\ Up(1, 1)
     \/ Pads /\ Put(dst + i, NUL) /\ Up(1, 0)
     \/ ~Pads /\ (mem[src + j] = NUL \/ i >= len) /\ Return(dst)

\* i scans to the end of the first text; then j copies from the second.
Concat(room, turn, result) ==
  IF j = 0 /\ mem[dst + i] # NUL THEN Skip(1, 0)
  ELSE \/ mem[src + j] # NUL /\ room /\ Put(dst + i, mem[src + j]) /\ turn
       \/ (mem[src + j] = NUL \/ ~room) /\ PutReturn(dst + i, NUL, result)

ft_strcat == Runs("strcat") /\ Concat(TRUE, Up(1, 1), dst)
ft_strncat == Runs("strncat") /\ Concat(rest # 0, Turn(1), dst)

\* Mutated: without the cell for the NUL.
Room_whole == i < len
Room == i + 1 < len

\* Nothing is written where the size does not hold the first text.
ft_strlcat ==
  /\ Runs("strlcat")
  /\ IF len < TextLen(old, dst) THEN Return(len + TextLen(old, src))
     ELSE Concat(Room, Up(1, 1), TextLen(old, dst) + TextLen(old, src))

\* The inner loops of strjoin, one after the other, and its NUL.
ft_strjoin ==
  /\ Runs("strjoin")
  /\ LET first == TextLen(mem, src) IN
       IF i < first THEN Put(dst + i, mem[src + i]) /\ Up(1, 0)
       ELSE \/ mem[call.t + i - first] # NUL /\ Put(dst + i, mem[call.t + i - first]) /\ Up(1, 0)
            \/ mem[call.t + i - first] = NUL /\ PutReturn(dst + i, NUL, dst)

\* The rest of the block is left as ft_strnew made it.
ft_strndup ==
  /\ Runs("strndup")
  /\ \/ rest # 0 /\ mem[src + i] # NUL /\ Copy
     \/ (rest = 0 \/ mem[src + i] = NUL) /\ Return(dst)

\* A text f may make a NUL of: the copy goes on to the end of the source.
Map(f) ==
  \/ mem[src + i] # NUL /\ Put(dst + i, f[mem[src + i]]) /\ Up(1, 0)
  \/ mem[src + i] = NUL /\ PutReturn(dst + i, NUL, dst)

ft_strmap == Runs("strmap") /\ Map(F)
\* The last NUL is ft_strnew's.
ft_strmapi == Runs("strmapi") /\ Map(FI[i])

\* The length is taken before the first octet is rewritten.
Rewrite(v) ==
  \/ i < TextLen(old, dst) /\ Put(dst + i, v) /\ Up(1, 0)
  \/ i = TextLen(old, dst) /\ Return(dst)

ft_striter == Runs("striter") /\ Rewrite(F[mem[dst + i]])
\* Its test for a NUL comes before f's call for that octet: it never holds.
ft_striteri == Runs("striteri") /\ Rewrite(FI[i][mem[dst + i]])
ft_strclr == Runs("strclr") /\ Rewrite(NUL)

Loop ==
  \/ ft_memset \/ ft_bzero \/ ft_memalloc \/ ft_strnew \/ ft_memcpy \/ ft_memmove
  \/ ft_memccpy \/ ft_memchr \/ ft_memcmp \/ ft_strcmp \/ ft_strncmp \/ ft_strequ
  \/ ft_strnequ \/ ft_strchr \/ ft_strrchr \/ ft_strcpy \/ ft_strncpy \/ ft_strcat
  \/ ft_strncat \/ ft_strlcat \/ ft_strjoin \/ ft_strndup \/ ft_strmap \/ ft_strmapi
  \/ ft_striter \/ ft_striteri \/ ft_strclr

returned == ret # NONE /\ UNCHANGED vars

Next == Loop \/ returned
Spec == Init /\ [][Next]_vars
FairSpec == Spec /\ WF_vars(Loop)

-----------------------------------------------------------------------------
(* Properties *)

\* The first offset in 0..n-1 with the octet sought, or n.
FirstSought(q, m, n) ==
  IF \E k \in 0..n-1 : m[q.s + k] = ToChar(q.c)
  THEN CHOOSE k \in 0..n-1 : /\ m[q.s + k] = ToChar(q.c)
                             /\ \A x \in 0..k-1 : m[q.s + x] # ToChar(q.c)
  ELSE n

\* Octet k of the text at a, or the NULs of a copy that goes on after it.
TextAt(m, a, k) == IF k < TextLen(m, a) THEN m[a + k] ELSE NUL

\* The octets strcat, strncat and strlcat add.
Appended(q, m) ==
  LET all == TextLen(m, q.s)
      left == q.n - 1 - TextLen(m, q.d)
  IN CASE q.f = "strcat" -> all
       [] q.f = "strncat" -> Least(q.n, all)
       [] OTHER -> Least(IF left < 0 THEN 0 ELSE left, all)

\* What a call q made in memory m promises to write, from cell Base on.
Base(q, m) == IF q.f \in CatFs THEN q.d + TextLen(m, q.d) ELSE q.d

Image(q, m) ==
  LET s == TextLen(m, q.s)
      d == TextLen(m, q.d)
  IN CASE q.f = "memset" -> [k \in 0..q.n-1 |-> ToChar(q.c)]
       [] q.f \in {"bzero", "memalloc"} -> [k \in 0..q.n-1 |-> 0]
       [] q.f = "strnew" -> [k \in 0..q.n |-> NUL]
       [] q.f \in {"memcpy", "memmove"} -> [k \in 0..q.n-1 |-> m[q.s + k]]
       [] q.f = "memccpy" -> [k \in 0..Least(FirstSought(q, m, q.n), q.n - 1) |-> m[q.s + k]]
       [] q.f = "strcpy" -> [k \in 0..s |-> TextAt(m, q.s, k)]
       [] q.f = "strncpy" -> [k \in 0..q.n-1 |-> TextAt(m, q.s, k)]
       [] q.f \in CatFs -> [k \in 0..Appended(q, m) |-> IF k < Appended(q, m) THEN m[q.s + k] ELSE NUL]
       [] q.f = "strjoin" ->
            [k \in 0..s + TextLen(m, q.t) |-> IF k < s THEN m[q.s + k] ELSE TextAt(m, q.t, k - s)]
       [] q.f = "strndup" -> [k \in 0..q.n |-> IF k < q.n THEN TextAt(m, q.s, k) ELSE NUL]
       [] q.f = "strmap" -> [k \in 0..s |-> IF k < s THEN F[m[q.s + k]] ELSE NUL]
       [] q.f = "strmapi" -> [k \in 0..s |-> IF k < s THEN FI[k][m[q.s + k]] ELSE NUL]
       [] q.f = "striter" -> [k \in 0..d-1 |-> F[m[q.d + k]]]
       [] q.f = "striteri" -> [k \in 0..d-1 |-> FI[k][m[q.d + k]]]
       [] q.f = "strclr" -> [k \in 0..d-1 |-> NUL]
       [] OTHER -> [k \in {} |-> NUL]

\* At no turn of its loop does a function write a cell its contract does not
\* give it: not the NUL that does not fit, not the padding beyond the count.
WritesInTarget ==
  \A a \in Cells : a - Base(call, old) \notin DOMAIN Image(call, old) => mem[a] = old[a]

\* When it returns, those cells hold what they were to hold: the source as it
\* was, whatever the overlap, the texts joined, cut, padded and ended.
CopiesExactly ==
  ret # NONE =>
    \A k \in DOMAIN Image(call, old) : mem[Base(call, old) + k] = Image(call, old)[k]

\* memchr, strchr and memccpy find the first octet, strrchr the last: a
\* negative char too, whether the int given is that char or its octet (strrchr,
\* which does not cast, is promised the char).
FindsOctet ==
  ret # NONE =>
    /\ call.f = "memchr" =>
         LET k == FirstSought(call, old, len) IN ret = IF k < len THEN src + k ELSE NULL
    /\ call.f = "memccpy" =>
         LET k == FirstSought(call, old, len) IN ret = IF k < len THEN dst + k + 1 ELSE NULL
    /\ call.f = "strchr" =>
         LET all == TextLen(old, src) + 1
             k == FirstSought(call, old, all)
         IN ret = IF k < all THEN src + k ELSE NULL
    /\ call.f = "strrchr" /\ call.c \in Char =>
         LET at == {k \in 0..TextLen(old, src) : old[src + k] = call.c}
         IN IF at = {} THEN ret = NULL
            ELSE ret - src \in at /\ \A k \in at : k <= ret - src

\* The comparisons order octets as unsigned, up to the first difference, the
\* end of a text or the bound, and the *equ functions agree with them.
ComparesUnsigned ==
  ret # NONE /\ call.f \in {"memcmp", "strcmp", "strncmp", "strequ", "strnequ"} =>
    LET seen == CASE call.f = "memcmp" -> 0..len-1
                  [] call.f \in {"strcmp", "strequ"} -> 0..TextLen(old, src)
                  [] OTHER -> 0..Least(len - 1, TextLen(old, src))
        Differs(k) == old[dst + k] # old[src + k] /\ \A x \in 0..k-1 : old[dst + x] = old[src + x]
    IN IF call.f \in {"strequ", "strnequ"}
       THEN ret = IF \E k \in seen : Differs(k) THEN 0 ELSE 1
       ELSE IF \E k \in seen : Differs(k)
       THEN \E k \in seen : /\ Differs(k)
                            /\ ret > 0 <=> Unsigned(old[dst + k]) > Unsigned(old[src + k])
                            /\ ret # 0
       ELSE ret = 0

\* Every loop ends: the tests for 0 that follow or precede the decrement of an
\* unsigned length, and the one in ft_strnew that waits for it to wrap.
Returns == <>(ret # NONE)
=============================================================================
