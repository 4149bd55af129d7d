-------------------------- MODULE LibftTextProofs ---------------------------
(***************************************************************************)
(* Proofs about LibftStrings and LibftNumbers for every text, every set of *)
(* calls, every BASE and every width of int.                               *)
(***************************************************************************)
EXTENDS LibftNumbers, TLAPS, FiniteSetTheorems, SequenceTheorems, WellFoundedInduction

-----------------------------------------------------------------------------
(* Least numbers, and functions defined by recursion                        *)

LEMMA LeastNat ==
  ASSUME NEW T, T \subseteq Nat, T # {}
  PROVE  \E n \in T : \A k \in T : n <= k
<1> DEFINE Below == {p \in Nat \X Nat : p[1] < p[2]}
<1>1. IsWellFoundedOn(Below, Nat)
  BY NatLessThanWellFounded DEF OpToRel
<1>2. PICK n \in T : \A k \in T : <<k, n>> \notin Below
  <2> HIDE DEF Below
  <2> QED
    BY <1>1, WFMin, Zenon
<1>3. ASSUME NEW k \in T PROVE n <= k
  <2>1. <<k, n>> \in Nat \X Nat /\ ~(<<k, n>>[1] < <<k, n>>[2])
    BY <1>2
  <2> QED
    BY <2>1
<1> QED
  BY <1>3

\* The least of a set of offsets.
LEMMA MinOf ==
  ASSUME NEW S, S \subseteq Nat, S # {}
  PROVE  Min(S) \in S /\ Min(S) \in Nat /\ \A k \in S : Min(S) <= k
<1>1. PICK n \in S : \A k \in S : n <= k
  BY LeastNat
<1> QED
  BY <1>1 DEF Min

LEMMA MinIs ==
  ASSUME NEW S, S \subseteq Nat, NEW n \in S, \A k \in S : n <= k
  PROVE  Min(S) = n
<1>1. Min(S) \in S /\ Min(S) \in Nat /\ \A k \in S : Min(S) <= k
  BY MinOf
<1>2. Min(S) <= n /\ n <= Min(S) /\ n \in Nat
  BY <1>1
<1> QED
  BY <1>1, <1>2

\* step[<<i, v>>] is what turn i makes of v, up from turn 1, or down from n - 1
\* as a search that goes on with the next offset.
CountsUp(f, n, b, step) == f = [i \in 0..n |-> IF i = 0 THEN b ELSE step[<<i, f[i - 1]>>]]
CountsDown(f, n, b, step) == f = [i \in 0..n |-> IF i = n THEN b ELSE step[<<i, f[i + 1]>>]]

LEMMA RecursionUp ==
  ASSUME NEW n \in Nat, NEW V, NEW b \in V, NEW step \in [(1..n) \X V -> V]
  PROVE  \E f \in [0..n -> V] : CountsUp(f, n, b, step)
<1> USE DEF CountsUp
<1> DEFINE Is(f, c) == f = [i \in 0..c |-> IF i = 0 THEN b ELSE step[<<i, f[i - 1]>>]]
           T == {c \in 0..n : ~ \E f \in [0..c -> V] : Is(f, c)}
<1>1. T = {}
  <2> SUFFICES ASSUME T # {} PROVE FALSE
    OBVIOUS
  <2>1. PICK c \in T : \A k \in T : c <= k
    <3>1. T \subseteq Nat
      OBVIOUS
    <3> HIDE DEF T
    <3> QED
      BY <3>1, LeastNat
  <2>2. c # 0
    <3>1. [i \in 0..0 |-> b] \in [0..0 -> V] /\ Is([i \in 0..0 |-> b], 0)
      OBVIOUS
    <3> QED
      BY <3>1
  <2>3. c \in 1..n /\ c - 1 \in 0..n /\ c - 1 \notin T
    <3>1. c \in 0..n
      OBVIOUS
    <3>2. c \in 1..n /\ c - 1 \in 0..n /\ ~(c <= c - 1)
      BY <2>2, <3>1
    <3>3. c - 1 \notin T
      <4> HIDE DEF T
      <4> QED
        BY <2>1, <3>2
    <3> QED
      BY <3>2, <3>3
  <2>4. PICK f \in [0..c-1 -> V] : Is(f, c - 1)
    BY <2>3
  <2>5. step[<<c, f[c - 1]>>] \in V
    BY <2>3, <2>4
  <2> DEFINE h == [i \in 0..c |-> IF i = c THEN step[<<c, f[c - 1]>>] ELSE f[i]]
  <2>6. ASSUME NEW i \in 0..c
        PROVE  h[i] \in V /\ h[i] = IF i = 0 THEN b ELSE step[<<i, h[i - 1]>>]
    <3>1. CASE i = c
      <4>1. c \in 0..c /\ c - 1 \in 0..c /\ c - 1 # c
        BY <2>3
      <4>2. h[c] = step[<<c, f[c - 1]>>] /\ h[c - 1] = f[c - 1]
        BY <4>1
      <4> HIDE DEF h
      <4> QED
        BY <2>2, <2>5, <3>1, <4>2
    <3>2. CASE i # c
      <4>1. i \in 0..c-1 /\ (i # 0 => i - 1 \in 0..c /\ i - 1 # c)
        BY <2>3, <3>2
      <4>2. f[i] = IF i = 0 THEN b ELSE step[<<i, f[i - 1]>>]
        BY <2>4, <4>1
      <4> QED
        BY <2>4, <3>2, <4>1, <4>2
    <3> QED
      BY <3>1, <3>2
  <2>7. h \in [0..c -> V] /\ Is(h, c)
    BY <2>6
  <2> QED
    BY <2>1, <2>7
<1>2. n \notin T
  BY <1>1
<1> QED
  BY <1>2

LEMMA RecursionDown ==
  ASSUME NEW n \in Nat, NEW V, NEW b \in V, NEW step \in [(0..n-1) \X V -> V]
  PROVE  \E f \in [0..n -> V] : CountsDown(f, n, b, step)
<1> DEFINE up == [p \in (1..n) \X V |-> step[<<n - p[1], p[2]>>]]
<1>1. up \in [(1..n) \X V -> V]
  <2>1. ASSUME NEW p \in (1..n) \X V PROVE step[<<n - p[1], p[2]>>] \in V
    <3>1. p[1] \in 1..n /\ p[2] \in V
      OBVIOUS
    <3>2. n - p[1] \in 0..n-1
      BY <3>1
    <3> QED
      BY <3>1, <3>2
  <2> QED
    BY <2>1
<1>2. PICK g \in [0..n -> V] : CountsUp(g, n, b, up)
  <2> HIDE DEF up
  <2> QED
    BY <1>1, RecursionUp
<1> USE DEF CountsUp, CountsDown
<1> DEFINE f == [i \in 0..n |-> g[n - i]]
<1>3. ASSUME NEW i \in 0..n
      PROVE  f[i] \in V /\ f[i] = IF i = n THEN b ELSE step[<<i, f[i + 1]>>]
  <2>1. n - i \in 0..n /\ g[n - i] \in V
    <3>1. n - i \in 0..n
      OBVIOUS
    <3> QED
      BY <3>1
  <2>2. CASE i = n
    <3>1. n - i = 0 /\ 0 \in 0..n
      BY <2>2
    <3> QED
      BY <1>2, <2>1, <2>2, <3>1
  <2>3. CASE i # n
    <3>1. i + 1 \in 0..n /\ n - (i + 1) = (n - i) - 1 /\ n - i \in 1..n /\ n - i # 0 /\ n - (n - i) = i
      BY <2>3
    <3>2. (n - i) - 1 \in 0..n /\ g[(n - i) - 1] \in V
      <4>1. (n - i) - 1 \in 0..n
        BY <3>1
      <4> QED
        BY <4>1
    <3>3. g[n - i] = up[<<n - i, g[(n - i) - 1]>>]
      BY <1>2, <2>1, <3>1
    <3>4. up[<<n - i, g[(n - i) - 1]>>] = step[<<i, g[(n - i) - 1]>>]
      BY <3>1, <3>2
    <3> QED
      BY <2>1, <2>3, <3>1, <3>3, <3>4
  <2> QED
    BY <2>2, <2>3
<1> QED
  BY <1>3

-----------------------------------------------------------------------------
(* Ints *)

Ints == INT_MIN..INT_MAX

LEMMA IntFacts ==
  /\ BASE \in Nat /\ BASE >= 2 /\ INT_MAX \in Nat /\ INT_MIN \in Int /\ SQRT_MAX \in Nat
  /\ INT_MIN = -INT_MAX - 1
  /\ SQRT_MAX * SQRT_MAX <= INT_MAX /\ (SQRT_MAX + 1) * (SQRT_MAX + 1) > INT_MAX
BY IntAssumption DEF INT_MIN

LEMMA SmallMod ==
  ASSUME NEW x \in Nat, NEW m \in Nat, x < m
  PROVE  x % m = x
BY SMT

\* An int is not changed by the conversion.
LEMMA ToIntFits == ASSUME NEW n \in Ints PROVE ToInt(n) = n
<1> DEFINE x == n - INT_MIN
           m == 2 * (INT_MAX + 1)
<1>1. x \in Nat /\ m \in Nat /\ x < m
  BY IntFacts DEF Ints
<1>2. x % m = x
  <2> HIDE DEF x, m
  <2> QED
    BY <1>1, SmallMod
<1>3. ToInt(n) = (x % m) + INT_MIN
  BY DEF ToInt
<1>4. x + INT_MIN = n
  BY IntFacts DEF Ints
<1> QED
  BY <1>2, <1>3, <1>4

-----------------------------------------------------------------------------
(* ft_sqrt *)

LEMMA SqrtSearch ==
  ASSUME NEW nb \in Ints
  PROVE  \E f :
           /\ ft_sqrt(nb) = f[0]
           /\ f[SQRT_MAX + 1] = 0
           /\ \A i \in 0..SQRT_MAX :
                f[i] = IF i * i = nb THEN i ELSE IF i * i > nb THEN 0 ELSE f[i + 1]
<1> DEFINE Search(f) ==
      f = [i \in 0..SQRT_MAX+1 |->
            IF ToInt(i * i) # nb /\ i <= SQRT_MAX THEN IF ToInt(i * i) > nb THEN 0 ELSE f[i + 1]
            ELSE IF i > SQRT_MAX THEN 0 ELSE i]
           S == SQRT_MAX + 1
           step == [p \in (0..S-1) \X Nat |->
                      IF p[1] * p[1] = nb THEN p[1] ELSE IF p[1] * p[1] > nb THEN 0 ELSE p[2]]
<1>s. S \in Nat /\ 0..S-1 = 0..SQRT_MAX
  BY IntFacts
<1>1. step \in [(0..S-1) \X Nat -> Nat]
  <2>1. ASSUME NEW p \in (0..S-1) \X Nat PROVE p[1] \in Nat /\ p[2] \in Nat
    BY <1>s
  <2> QED
    BY <2>1
<1>2. PICK f \in [0..S -> Nat] : CountsDown(f, S, 0, step)
  <2> HIDE DEF S, step
  <2> QED
    BY <1>s, <1>1, RecursionDown
<1>3. ASSUME NEW i \in 0..SQRT_MAX PROVE i * i \in Nat /\ ToInt(i * i) = i * i
  <2>1. i \in Nat /\ i <= SQRT_MAX
    BY IntFacts
  <2>2. i * i \in Nat /\ i * i <= SQRT_MAX * SQRT_MAX
    BY <2>1, IntFacts
  <2>3. i * i \in Ints
    BY <2>2, IntFacts DEF Ints
  <2> QED
    BY <2>2, <2>3, ToIntFits
<1>4. f[S] = 0
  BY <1>s, <1>2 DEF CountsDown
<1>5. ASSUME NEW i \in 0..SQRT_MAX
      PROVE  f[i] = IF i * i = nb THEN i ELSE IF i * i > nb THEN 0 ELSE f[i + 1]
  <2>1. i \in 0..S /\ i # S /\ i + 1 \in 0..S
    BY IntFacts
  <2>2. f[i] = step[<<i, f[i + 1]>>] /\ f[i + 1] \in Nat
    <3> HIDE DEF step
    <3> QED
      BY <2>1, <1>2 DEF CountsDown
  <2>3. <<i, f[i + 1]>> \in (0..S-1) \X Nat
    BY <1>s, <2>2
  <2> QED
    BY <2>2, <2>3
<1>6. Search(f)
  <2>1. ASSUME NEW i \in 0..SQRT_MAX+1
        PROVE  f[i] = IF ToInt(i * i) # nb /\ i <= SQRT_MAX THEN IF ToInt(i * i) > nb THEN 0 ELSE f[i + 1]
                      ELSE IF i > SQRT_MAX THEN 0 ELSE i
    <3>1. CASE i = S
      BY <1>4, <3>1, IntFacts
    <3>2. CASE i # S
      <4>1. i \in 0..SQRT_MAX /\ i <= SQRT_MAX /\ ~(i > SQRT_MAX)
        BY <3>2, IntFacts
      <4> QED
        BY <1>3, <1>5, <4>1
    <3> QED
      BY <3>1, <3>2
  <2> QED
    BY <2>1
<1>7. ft_sqrt(nb) = (CHOOSE g : Search(g))[0]
  BY DEF ft_sqrt
<1>8. PICK g : g = (CHOOSE h : Search(h))
  OBVIOUS
<1>9. Search(g)
  <2> HIDE DEF Search
  <2> QED
    BY <1>6, <1>8
<1>10. g[SQRT_MAX + 1] = 0
  BY <1>9, IntFacts
<1>11. ASSUME NEW i \in 0..SQRT_MAX
       PROVE  g[i] = IF i * i = nb THEN i ELSE IF i * i > nb THEN 0 ELSE g[i + 1]
  <2>1. i \in 0..SQRT_MAX+1 /\ i <= SQRT_MAX /\ ~(i > SQRT_MAX)
    BY IntFacts
  <2> QED
    BY <1>3, <1>9, <2>1
<1>12. ft_sqrt(nb) = g[0]
  BY <1>7, <1>8
<1> HIDE DEF Search
<1>13. \A i \in 0..SQRT_MAX : g[i] = IF i * i = nb THEN i ELSE IF i * i > nb THEN 0 ELSE g[i + 1]
  BY <1>11
<1> QED
  BY <1>10, <1>12, <1>13

\* The search from i, when no number below i is the root: the root, or 0.
LEMMA SqrtOf ==
  ASSUME NEW nb \in Ints
  PROVE  IF \E k \in 0..SQRT_MAX : k * k = nb
         THEN ft_sqrt(nb) \in Nat /\ ft_sqrt(nb) * ft_sqrt(nb) = nb ELSE ft_sqrt(nb) = 0
<1>1. PICK f : /\ ft_sqrt(nb) = f[0]
               /\ f[SQRT_MAX + 1] = 0
               /\ \A i \in 0..SQRT_MAX :
                    f[i] = IF i * i = nb THEN i ELSE IF i * i > nb THEN 0 ELSE f[i + 1]
  BY SqrtSearch
<1> DEFINE IsRoot(r) == IF \E k \in 0..SQRT_MAX : k * k = nb THEN r \in Nat /\ r * r = nb ELSE r = 0
           S == SQRT_MAX + 1
           T == {d \in 0..S : ~IsRoot(f[S - d]) /\ \A k \in 0..(S-d)-1 : k * k # nb}
<1>2. S \in Nat /\ SQRT_MAX \in Nat
  BY IntFacts
<1>3. T = {}
  <2> SUFFICES ASSUME T # {} PROVE FALSE
    OBVIOUS
  <2>1. PICK d \in T : \A k \in T : d <= k
    <3>1. T \subseteq Nat
      BY <1>2
    <3> HIDE DEF T
    <3> QED
      BY <3>1, LeastNat
  <2>2. PICK i : i = S - d
    OBVIOUS
  <2>3. d \in 0..S /\ i \in 0..S /\ S - i = d /\ ~IsRoot(f[i]) /\ \A k \in 0..i-1 : k * k # nb
    <3> HIDE DEF IsRoot
    <3> QED
      BY <1>2, <2>2
  <2>4. i # S
    <3>1. SUFFICES ASSUME i = S PROVE FALSE
      OBVIOUS
    <3>2. f[i] = 0 /\ \A k \in 0..SQRT_MAX : k * k # nb
      BY <1>1, <1>2, <2>3, <3>1
    <3> QED
      BY <2>3, <3>2
  <2>5. i \in 0..SQRT_MAX /\ f[i] = IF i * i = nb THEN i ELSE IF i * i > nb THEN 0 ELSE f[i + 1]
    BY <1>1, <1>2, <2>3, <2>4
  <2>6. i * i # nb
    BY <2>3, <2>5
  <2>7. i * i <= nb
    <3>1. SUFFICES ASSUME i * i > nb PROVE FALSE
      BY <2>5, IntFacts DEF Ints
    <3>2. ASSUME NEW k \in 0..SQRT_MAX, k * k = nb PROVE FALSE
      <4>1. k >= i
        BY <2>3, <2>5, <3>2
      <4>2. k * k >= i * i
        BY <2>5, <4>1
      <4> QED
        BY <2>5, <3>1, <3>2, <4>2
    <3>3. f[i] = 0
      BY <2>5, <2>6, <3>1
    <3> QED
      BY <2>3, <3>2, <3>3
  <2>8. f[i] = f[i + 1]
    BY <2>5, <2>6, <2>7, IntFacts DEF Ints
  <2>9. d - 1 \in 0..S /\ S - (d - 1) = i + 1 /\ ~(d <= d - 1)
    BY <1>2, <2>3, <2>4
  <2>10. ASSUME NEW k \in 0..(i + 1)-1 PROVE k * k # nb
    <3>1. k = i \/ k \in 0..i-1
      BY <2>5
    <3> QED
      BY <2>3, <2>6, <3>1
  <2>11. d - 1 \in T
    <3> HIDE DEF IsRoot
    <3> QED
      BY <2>3, <2>8, <2>9, <2>10
  <2> QED
    BY <2>1, <2>9, <2>11
<1>4. IsRoot(f[0])
  <2> HIDE DEF IsRoot
  <2>1. S \in 0..S /\ S - S = 0 /\ \A k \in 0..(S-S)-1 : k * k # nb
    BY <1>2
  <2> QED
    BY <1>3, <2>1
<1> QED
  BY <1>1, <1>4

-----------------------------------------------------------------------------
(* ft_strstr, ft_strnstr *)

LEMMA AtText ==
  ASSUME NEW s \in Seq(Octets), NEW i \in Nat
  PROVE  /\ i < Len(s) => At(s, i) = s[i + 1] /\ At(s, i) \in Octets /\ At(s, i) # NUL
         /\ i >= Len(s) => At(s, i) = NUL
<1>1. ASSUME i < Len(s) PROVE s[i + 1] \in Octets
  <2>1. i + 1 \in 1..Len(s)
    BY <1>1
  <2> QED
    BY <2>1
<1> QED
  BY <1>1, OctetsAssumption DEF At

\* The loop that compares, A being the offsets where the octets agree.
Compares(g, n, A) ==
  \A j \in 0..n : g[j] = IF j \notin A THEN FALSE ELSE IF j = n THEN TRUE ELSE g[j + 1]

LEMMA ComparesExists ==
  ASSUME NEW n \in Nat, NEW A
  PROVE  \E g \in [0..n -> BOOLEAN] : Compares(g, n, A)
<1> DEFINE b == IF n \in A THEN TRUE ELSE FALSE
           step == [p \in (0..n-1) \X BOOLEAN |-> IF p[1] \in A THEN p[2] ELSE FALSE]
<1>1. b \in BOOLEAN /\ step \in [(0..n-1) \X BOOLEAN -> BOOLEAN]
  OBVIOUS
<1>2. PICK g \in [0..n -> BOOLEAN] : CountsDown(g, n, b, step)
  <2> HIDE DEF b, step
  <2> QED
    BY <1>1, RecursionDown
<1>3. ASSUME NEW j \in 0..n
      PROVE  g[j] = IF j \notin A THEN FALSE ELSE IF j = n THEN TRUE ELSE g[j + 1]
  <2>1. CASE j = n
    BY <1>2, <2>1 DEF CountsDown
  <2>2. CASE j # n
    <3>1. j + 1 \in 0..n /\ j \in 0..n-1
      BY <2>2
    <3>2. <<j, g[j + 1]>> \in (0..n-1) \X BOOLEAN
      BY <3>1
    <3>3. g[j] = step[<<j, g[j + 1]>>]
      <4> HIDE DEF step, b
      <4> QED
        BY <1>2, <2>2 DEF CountsDown
    <3>4. step[<<j, g[j + 1]>>] = IF j \in A THEN g[j + 1] ELSE FALSE
      BY <3>2
    <3> QED
      BY <2>2, <3>3, <3>4
  <2> QED
    BY <2>1, <2>2
<1> QED
  BY <1>3 DEF Compares

LEMMA ComparesAll ==
  ASSUME NEW n \in Nat, NEW A, NEW g, Compares(g, n, A)
  PROVE  g[0] <=> 0..n \subseteq A
<1> DEFINE T == {d \in 0..n : ~(g[n - d] <=> \A m \in (n - d)..n : m \in A)}
<1>1. T = {}
  <2> SUFFICES ASSUME T # {} PROVE FALSE
    OBVIOUS
  <2>1. PICK d \in T : \A k \in T : d <= k
    <3>1. T \subseteq Nat
      OBVIOUS
    <3> HIDE DEF T
    <3> QED
      BY <3>1, LeastNat
  <2>2. PICK i : i = n - d
    OBVIOUS
  <2>3. d \in 0..n /\ ~(g[n - d] <=> \A m \in (n - d)..n : m \in A)
    OBVIOUS
  <2>4. i \in 0..n /\ ~(g[i] <=> \A m \in i..n : m \in A)
    BY <2>2, <2>3
  <2>5. g[i] = IF i \notin A THEN FALSE ELSE IF i = n THEN TRUE ELSE g[i + 1]
    BY <2>4 DEF Compares
  <2>6. i # n /\ i \in A
    <3>1. i \in i..n
      BY <2>4
    <3>2. i \in A
      BY <2>4, <2>5, <3>1
    <3>3. i = n => \A m \in i..n : m = i
      BY <2>4
    <3> QED
      BY <2>4, <2>5, <3>2, <3>3
  <2>7. g[i] = g[i + 1]
    BY <2>5, <2>6
  <2>8. (\A m \in i..n : m \in A) <=> (\A m \in (i + 1)..n : m \in A)
    <3>1. \A m \in i..n : m = i \/ m \in (i + 1)..n
      BY <2>4
    <3>2. \A m \in (i + 1)..n : m \in i..n
      BY <2>4
    <3> QED
      BY <2>6, <3>1, <3>2
  <2>9. d - 1 \in 0..n /\ n - (d - 1) = i + 1 /\ ~(d <= d - 1)
    BY <2>2, <2>3, <2>4, <2>6
  <2>10. d - 1 \in T
    BY <2>4, <2>7, <2>8, <2>9
  <2> QED
    BY <2>1, <2>9, <2>10
<1>2. n \in 0..n /\ n - n = 0
  OBVIOUS
<1>3. g[0] <=> \A m \in 0..n : m \in A
  BY <1>1, <1>2
<1> QED
  BY <1>3

\* The search, Z being the offsets where it stops and W those where nd is.
Searches(f, n, Z, W) ==
  \A i \in 0..n : f[i] = IF i \in Z THEN NULL ELSE IF i \in W THEN i ELSE f[i + 1]

LEMMA SearchesExists ==
  ASSUME NEW n \in Nat, NEW Z, n \in Z, NEW W
  PROVE  \E f \in [0..n -> Nat \cup {NULL}] : Searches(f, n, Z, W)
<1> DEFINE V == Nat \cup {NULL}
           step == [p \in (0..n-1) \X V |-> IF p[1] \in Z THEN NULL ELSE IF p[1] \in W THEN p[1] ELSE p[2]]
<1>1. NULL \in V /\ step \in [(0..n-1) \X V -> V]
  <2>1. ASSUME NEW p \in (0..n-1) \X V PROVE p[1] \in Nat /\ p[2] \in V
    OBVIOUS
  <2> QED
    BY <2>1
<1>2. PICK f \in [0..n -> V] : CountsDown(f, n, NULL, step)
  <2> HIDE DEF V, step
  <2> QED
    BY <1>1, RecursionDown
<1>3. ASSUME NEW i \in 0..n
      PROVE  f[i] = IF i \in Z THEN NULL ELSE IF i \in W THEN i ELSE f[i + 1]
  <2>1. CASE i = n
    BY <1>2, <2>1 DEF CountsDown
  <2>2. CASE i # n
    <3>1. i + 1 \in 0..n /\ i \in 0..n-1
      BY <2>2
    <3>2. <<i, f[i + 1]>> \in (0..n-1) \X V
      <4> HIDE DEF V
      <4> QED
        BY <3>1
    <3>3. f[i] = step[<<i, f[i + 1]>>]
      <4> HIDE DEF step, V
      <4> QED
        BY <1>2, <2>2 DEF CountsDown
    <3>4. step[<<i, f[i + 1]>>] = IF i \in Z THEN NULL ELSE IF i \in W THEN i ELSE f[i + 1]
      BY <3>2
    <3> QED
      BY <3>3, <3>4
  <2> QED
    BY <2>1, <2>2
<1> QED
  BY <1>3 DEF Searches

LEMMA SearchesFirst ==
  ASSUME NEW n \in Nat, NEW Z, n \in Z, NEW W, NEW f, Searches(f, n, Z, W),
         \A i \in Z \cap 0..n : \A k \in i..n : k \in Z
  PROVE  IsFirst(f[0], {i \in 0..n : i \in W /\ i \notin Z})
<1> DEFINE Found == {i \in 0..n : i \in W /\ i \notin Z}
           T == {d \in 0..n : /\ ~IsFirst(f[n - d], Found)
                              /\ \A k \in Found : k >= n - d}
<1>1. T = {}
  <2> SUFFICES ASSUME T # {} PROVE FALSE
    OBVIOUS
  <2>1. PICK d \in T : \A k \in T : d <= k
    <3>1. T \subseteq Nat
      OBVIOUS
    <3> HIDE DEF T
    <3> QED
      BY <3>1, LeastNat
  <2>2. PICK i : i = n - d
    OBVIOUS
  <2>3. d \in 0..n /\ ~IsFirst(f[n - d], Found) /\ \A k \in Found : k >= n - d
    <3> HIDE DEF Found
    <3> QED
      OBVIOUS
  <2>4. i \in 0..n /\ ~IsFirst(f[i], Found) /\ \A k \in Found : k >= i
    <3> HIDE DEF Found, T
    <3> QED
      BY <2>2, <2>3
  <2>5. f[i] = IF i \in Z THEN NULL ELSE IF i \in W THEN i ELSE f[i + 1]
    BY <2>4 DEF Searches
  <2>6. i \notin Z
    <3>1. SUFFICES ASSUME i \in Z PROVE FALSE
      OBVIOUS
    <3>2. \A k \in 0..n : k >= i => k \in Z
      BY <2>4, <3>1
    <3>3. Found = {}
      BY <2>4, <3>2
    <3> HIDE DEF Found
    <3> QED
      BY <2>4, <2>5, <3>1, <3>3 DEF IsFirst
  <2>7. i \notin W
    <3>1. SUFFICES ASSUME i \in W PROVE FALSE
      OBVIOUS
    <3>2. i \in Found /\ Found \subseteq Nat
      BY <2>4, <2>6, <3>1
    <3> HIDE DEF Found
    <3>3. Min(Found) = i
      BY <2>4, <3>2, MinIs
    <3> QED
      BY <2>4, <2>5, <2>6, <3>1, <3>2, <3>3 DEF IsFirst
  <2>8. f[i] = f[i + 1] /\ i # n
    BY <2>5, <2>6, <2>7
  <2>9. ASSUME NEW k \in Found PROVE k >= i + 1
    <3>1. k >= i /\ k # i /\ k \in Nat
      BY <2>4, <2>7
    <3> QED
      BY <2>4, <3>1
  <2>10. d - 1 \in 0..n /\ n - (d - 1) = i + 1 /\ ~(d <= d - 1)
    BY <2>2, <2>3, <2>4, <2>8
  <2>11. d - 1 \in T
    <3> HIDE DEF Found
    <3> QED
      BY <2>4, <2>8, <2>9, <2>10
  <2> QED
    BY <2>1, <2>10, <2>11
<1>2. n \in 0..n /\ n - n = 0 /\ \A k \in Found : k >= 0
  OBVIOUS
<1> HIDE DEF Found
<1>3. IsFirst(f[0], Found)
  BY <1>1, <1>2
<1> QED
  BY <1>3 DEF Found

\* The octets of nd are at the offset i of hs.
AllSame(hs, nd, i) == \A j \in 0..Len(nd)-1 : At(hs, i + j) = At(nd, j)

LEMMA TextEnd ==
  ASSUME NEW nd \in Seq(Octets), nd # <<>>
  PROVE  /\ Len(nd) \in Nat /\ Len(nd) >= 1 /\ Len(nd) - 1 \in Nat /\ At(nd, 0) # NUL
         /\ \A j \in 0..Len(nd)-1 : At(nd, j) # NUL /\ (At(nd, j + 1) = NUL <=> j = Len(nd) - 1)
<1>1. Len(nd) \in Nat /\ Len(nd) # 0
  OBVIOUS
<1>2. ASSUME NEW j \in 0..Len(nd)-1
      PROVE  At(nd, j) # NUL /\ (At(nd, j + 1) = NUL <=> j = Len(nd) - 1)
  <2>1. j \in Nat /\ j + 1 \in Nat /\ j < Len(nd) /\ (j + 1 >= Len(nd) <=> j = Len(nd) - 1)
        /\ (j + 1 < Len(nd) <=> j # Len(nd) - 1)
    BY <1>1
  <2> QED
    BY <2>1, AtText
<1>3. At(nd, 0) # NUL
  BY <1>1, <1>2
<1> QED
  BY <1>1, <1>2, <1>3

LEMMA ItWorks ==
  ASSUME NEW hs \in Seq(Octets), NEW nd \in Seq(Octets), nd # <<>>, NEW i \in Nat
  PROVE  it_works(hs, nd, i) <=> AllSame(hs, nd, i)
<1> DEFINE n == Len(nd) - 1
           A == {j \in 0..n : At(hs, i + j) = At(nd, j)}
           Works(f) == f = [j \in 0..Len(nd)-1 |->
                              At(hs, i + j) = At(nd, j) /\ (At(nd, j + 1) = NUL \/ f[j + 1])]
<1>1. PICK g \in [0..n -> BOOLEAN] : Compares(g, n, A)
  <2>1. n \in Nat
    BY TextEnd
  <2> HIDE DEF n, A
  <2> QED
    BY <2>1, ComparesExists
<1>2. Works(g)
  <2>1. ASSUME NEW j \in 0..n
        PROVE  g[j] = (At(hs, i + j) = At(nd, j) /\ (At(nd, j + 1) = NUL \/ g[j + 1]))
    <3>1. At(nd, j + 1) = NUL <=> j = n
      BY TextEnd
    <3>2. g[j] = IF j \notin A THEN FALSE ELSE IF j = n THEN TRUE ELSE g[j + 1]
      BY <1>1 DEF Compares
    <3>3. j \in A <=> At(hs, i + j) = At(nd, j)
      OBVIOUS
    <3>4. g[j] \in BOOLEAN
      OBVIOUS
    <3>5. j # n => g[j + 1] \in BOOLEAN
      <4>1. j # n => j + 1 \in 0..n
        BY TextEnd
      <4> QED
        BY <4>1
    <3> HIDE DEF n, A
    <3> QED
      BY <3>1, <3>2, <3>3, <3>4, <3>5
  <2> QED
    BY <2>1
<1>3. it_works(hs, nd, i) = (CHOOSE f : Works(f))[0]
  BY DEF it_works
<1>4. PICK h : h = (CHOOSE f : Works(f))
  OBVIOUS
<1>5. Works(h)
  <2> HIDE DEF Works
  <2> QED
    BY <1>2, <1>4
<1>6. Compares(h, n, A)
  <2>1. ASSUME NEW j \in 0..n
        PROVE  h[j] = IF j \notin A THEN FALSE ELSE IF j = n THEN TRUE ELSE h[j + 1]
    <3>1. At(nd, j + 1) = NUL <=> j = n
      BY TextEnd
    <3>2. h[j] = (At(hs, i + j) = At(nd, j) /\ (At(nd, j + 1) = NUL \/ h[j + 1]))
      BY <1>5
    <3>3. j \in A <=> At(hs, i + j) = At(nd, j)
      OBVIOUS
    <3>4. j # n => j + 1 \in 0..n
      BY TextEnd
    <3>5. \A k \in 0..n : h[k] = TRUE \/ h[k] = FALSE
      BY <1>5
    <3> HIDE DEF n, A
    <3> QED
      BY <3>1, <3>2, <3>3, <3>4, <3>5
  <2> HIDE DEF n, A
  <2> QED
    BY <2>1 DEF Compares
<1>7. n \in Nat
  BY TextEnd
<1>8. h[0] <=> 0..n \subseteq A
  <2> HIDE DEF n, A
  <2> QED
    BY <1>6, <1>7, ComparesAll
<1>9. 0..n \subseteq A <=> AllSame(hs, nd, i)
  BY DEF AllSame
<1> HIDE DEF Works, n, A
<1> QED
  BY <1>3, <1>4, <1>8, <1>9

LEMMA DoesItWork ==
  ASSUME NEW hs \in Seq(Octets), NEW nd \in Seq(Octets), nd # <<>>, NEW i \in Nat, NEW len \in Nat
  PROVE  does_it_work(hs, nd, len, i) <=> AllSame(hs, nd, i) /\ i + Len(nd) <= len
<1> DEFINE n == Len(nd) - 1
           A == {j \in 0..n : At(hs, i + j) = At(nd, j) /\ i + j < len}
           Works(f) == f = [j \in 0..Len(nd)-1 |->
                              /\ At(hs, i + j) = At(nd, j) /\ i + j < len
                              /\ At(nd, j + 1) = NUL \/ f[j + 1]]
<1>1. PICK g \in [0..n -> BOOLEAN] : Compares(g, n, A)
  <2>1. n \in Nat
    BY TextEnd
  <2> HIDE DEF n, A
  <2> QED
    BY <2>1, ComparesExists
<1>2. Works(g)
  <2>1. ASSUME NEW j \in 0..n
        PROVE  g[j] = (/\ At(hs, i + j) = At(nd, j) /\ i + j < len
                       /\ At(nd, j + 1) = NUL \/ g[j + 1])
    <3>1. At(nd, j + 1) = NUL <=> j = n
      BY TextEnd
    <3>2. g[j] = IF j \notin A THEN FALSE ELSE IF j = n THEN TRUE ELSE g[j + 1]
      BY <1>1 DEF Compares
    <3>3. j \in A <=> At(hs, i + j) = At(nd, j) /\ i + j < len
      OBVIOUS
    <3>4. g[j] \in BOOLEAN
      OBVIOUS
    <3>5. j # n => g[j + 1] \in BOOLEAN
      <4>1. j # n => j + 1 \in 0..n
        BY TextEnd
      <4> QED
        BY <4>1
    <3> HIDE DEF n, A
    <3> QED
      BY <3>1, <3>2, <3>3, <3>4, <3>5
  <2> QED
    BY <2>1
<1>3. does_it_work(hs, nd, len, i) = (CHOOSE f : Works(f))[0]
  BY DEF does_it_work
<1>4. PICK h : h = (CHOOSE f : Works(f))
  OBVIOUS
<1>5. Works(h)
  <2> HIDE DEF Works
  <2> QED
    BY <1>2, <1>4
<1>6. Compares(h, n, A)
  <2>1. ASSUME NEW j \in 0..n
        PROVE  h[j] = IF j \notin A THEN FALSE ELSE IF j = n THEN TRUE ELSE h[j + 1]
    <3>1. At(nd, j + 1) = NUL <=> j = n
      BY TextEnd
    <3>2. h[j] = (/\ At(hs, i + j) = At(nd, j) /\ i + j < len
                  /\ At(nd, j + 1) = NUL \/ h[j + 1])
      BY <1>5
    <3>3. j \in A <=> At(hs, i + j) = At(nd, j) /\ i + j < len
      OBVIOUS
    <3>4. j # n => j + 1 \in 0..n
      BY TextEnd
    <3>5. \A k \in 0..n : h[k] = TRUE \/ h[k] = FALSE
      BY <1>5
    <3> HIDE DEF n, A
    <3> QED
      BY <3>1, <3>2, <3>3, <3>4, <3>5
  <2> HIDE DEF n, A
  <2> QED
    BY <2>1 DEF Compares
<1>7. n \in Nat
  BY TextEnd
<1>8. h[0] <=> 0..n \subseteq A
  <2> HIDE DEF n, A
  <2> QED
    BY <1>6, <1>7, ComparesAll
<1>9. 0..n \subseteq A <=> AllSame(hs, nd, i) /\ i + Len(nd) <= len
  <2>1. Len(nd) \in Nat /\ Len(nd) >= 1
    BY TextEnd
  <2>2. (\A j \in 0..Len(nd)-1 : i + j < len) <=> i + Len(nd) <= len
    <3>1. ASSUME \A j \in 0..Len(nd)-1 : i + j < len PROVE i + Len(nd) <= len
      <4>1. Len(nd) - 1 \in 0..Len(nd)-1
        BY <2>1
      <4>2. i + (Len(nd) - 1) < len
        BY <3>1, <4>1
      <4> QED
        BY <2>1, <4>2
    <3>2. ASSUME i + Len(nd) <= len, NEW j \in 0..Len(nd)-1 PROVE i + j < len
      BY <2>1, <3>2
    <3> QED
      BY <3>1, <3>2
  <2>3. 0..n \subseteq A <=> AllSame(hs, nd, i) /\ \A j \in 0..Len(nd)-1 : i + j < len
    BY DEF AllSame
  <2> QED
    BY <2>2, <2>3
<1> HIDE DEF Works, n, A
<1> QED
  BY <1>3, <1>4, <1>8, <1>9

LEMMA OccursIff ==
  ASSUME NEW hs \in Seq(Octets), NEW nd \in Seq(Octets), nd # <<>>, NEW i \in 0..Len(hs)
  PROVE  AllSame(hs, nd, i) <=> Occurs(nd, hs, i)
<1>1. Len(hs) \in Nat /\ Len(nd) \in Nat /\ Len(nd) >= 1 /\ i \in Nat
  BY TextEnd
<1>2. ASSUME i + Len(nd) <= Len(hs)
      PROVE  AllSame(hs, nd, i) <=> SubSeq(hs, i + 1, i + Len(nd)) = nd
  <2> DEFINE sub == SubSeq(hs, i + 1, i + Len(nd))
  <2>1. sub = [k \in 1..Len(nd) |-> hs[i + k]]
    <3>1. (i + Len(nd)) - (i + 1) + 1 = Len(nd) /\ \A k \in 1..Len(nd) : k + (i + 1) - 1 = i + k
      BY <1>1
    <3>2. sub = [k \in 1..(i + Len(nd)) - (i + 1) + 1 |-> hs[k + (i + 1) - 1]]
      BY <1>1
    <3> QED
      BY <3>1, <3>2
  <2>2. nd = [k \in 1..Len(nd) |-> nd[k]]
    OBVIOUS
  <2>3. ASSUME NEW j \in 0..Len(nd)-1
        PROVE  At(hs, i + j) = hs[i + (j + 1)] /\ At(nd, j) = nd[j + 1]
    <3>1. i + j \in Nat /\ i + j < Len(hs) /\ j \in Nat /\ j < Len(nd) /\ (i + j) + 1 = i + (j + 1)
      BY <1>1, <1>2
    <3> QED
      BY <3>1, AtText
  <2>4. AllSame(hs, nd, i) <=> \A k \in 1..Len(nd) : hs[i + k] = nd[k]
    <3>1. ASSUME AllSame(hs, nd, i), NEW k \in 1..Len(nd) PROVE hs[i + k] = nd[k]
      <4>1. k - 1 \in 0..Len(nd)-1 /\ (k - 1) + 1 = k
        BY <1>1
      <4> QED
        BY <2>3, <3>1, <4>1 DEF AllSame
    <3>2. ASSUME \A k \in 1..Len(nd) : hs[i + k] = nd[k], NEW j \in 0..Len(nd)-1
          PROVE  At(hs, i + j) = At(nd, j)
      <4>1. j + 1 \in 1..Len(nd)
        BY <1>1
      <4> QED
        BY <2>3, <3>2, <4>1
    <3> QED
      BY <3>1, <3>2 DEF AllSame
  <2> HIDE DEF sub
  <2>5. sub = nd <=> \A k \in 1..Len(nd) : hs[i + k] = nd[k]
    BY <2>1, <2>2
  <2> QED
    BY <2>4, <2>5 DEF sub
<1>3. ASSUME i + Len(nd) > Len(hs) PROVE ~AllSame(hs, nd, i)
  <2>1. PICK j \in 0..Len(nd)-1 : j = Len(hs) - i
    <3>1. Len(hs) - i \in 0..Len(nd)-1
      BY <1>1, <1>3
    <3> QED
      BY <3>1
  <2>2. At(hs, i + j) = NUL
    <3>1. i + j \in Nat /\ i + j >= Len(hs)
      BY <1>1, <2>1
    <3> QED
      BY <3>1, AtText
  <2>3. At(nd, j) # NUL
    BY TextEnd
  <2> QED
    BY <2>2, <2>3 DEF AllSame
<1> QED
  BY <1>1, <1>2, <1>3 DEF Occurs

\* Where ft_strstr finds nd, and where ft_strnstr does within len octets.
LEMMA StrstrFirst ==
  ASSUME NEW hs \in Seq(Octets), NEW nd \in Seq(Octets)
  PROVE  IsFirst(ft_strstr(hs, nd), {i \in 0..Len(hs) : Occurs(nd, hs, i)})
<1>n. Len(hs) \in Nat
  OBVIOUS
<1>1. CASE nd = <<>>
  <2> DEFINE S == {i \in 0..Len(hs) : Occurs(nd, hs, i)}
  <2>1. Len(nd) = 0 /\ At(nd, 0) = NUL
    BY <1>1 DEF At
  <2>2. ft_strstr(hs, nd) = 0
    BY <2>1 DEF ft_strstr
  <2>3. Occurs(nd, hs, 0)
    <3>1. SubSeq(hs, 0 + 1, 0 + 0) = <<>>
      OBVIOUS
    <3> QED
      BY <1>1, <1>n, <2>1, <3>1 DEF Occurs
  <2>4. 0 \in S /\ S \subseteq Nat /\ \A k \in S : 0 <= k
    BY <1>n, <2>3
  <2> HIDE DEF S
  <2>5. Min(S) = 0
    BY <2>4, MinIs
  <2> QED
    BY <2>2, <2>4, <2>5 DEF IsFirst, S
<1>2. CASE nd # <<>>
  <2> DEFINE n == Len(hs)
             Z == {n}
             W == {i \in 0..n : AllSame(hs, nd, i)}
             From(f) == f = [i \in 0..Len(hs) |->
                               IF At(hs, i) = NUL THEN NULL
                               ELSE IF it_works(hs, nd, i) THEN i ELSE f[i + 1]]
  <2>1. ASSUME NEW i \in 0..n
        PROVE  (At(hs, i) = NUL <=> i \in Z) /\ (it_works(hs, nd, i) <=> i \in W)
    <3>1. i \in Nat /\ (i < n \/ i >= n) /\ (i >= n <=> i = n)
      BY <1>n
    <3> QED
      BY <1>2, <3>1, AtText, ItWorks
  <2>2. PICK g \in [0..n -> Nat \cup {NULL}] : Searches(g, n, Z, W)
    <3>1. n \in Z
      OBVIOUS
    <3> HIDE DEF Z, W
    <3> QED
      BY <1>n, <3>1, SearchesExists
  <2>3. From(g)
    BY <2>1, <2>2 DEF Searches
  <2>4. ft_strstr(hs, nd) = (CHOOSE f : From(f))[0]
    <3>1. At(nd, 0) # NUL
      BY <1>2, TextEnd
    <3> QED
      BY <3>1 DEF ft_strstr
  <2>5. PICK h : h = (CHOOSE f : From(f))
    OBVIOUS
  <2>6. From(h)
    <3> HIDE DEF From
    <3> QED
      BY <2>3, <2>5
  <2>7. Searches(h, n, Z, W)
    <3>1. ASSUME NEW i \in 0..n
          PROVE  h[i] = IF i \in Z THEN NULL ELSE IF i \in W THEN i ELSE h[i + 1]
      BY <2>1, <2>6
    <3> HIDE DEF Z, W
    <3> QED
      BY <3>1 DEF Searches
  <2>8. IsFirst(h[0], {i \in 0..n : i \in W /\ i \notin Z})
    <3>1. n \in Z /\ \A i \in Z \cap 0..n : \A k \in i..n : k \in Z
      BY <1>n
    <3> HIDE DEF Z, W
    <3> QED
      BY <1>n, <2>7, <3>1, SearchesFirst
  <2>9. {i \in 0..n : i \in W /\ i \notin Z} = {i \in 0..Len(hs) : Occurs(nd, hs, i)}
    <3>1. ASSUME NEW i \in 0..n PROVE i \in W /\ i \notin Z <=> Occurs(nd, hs, i)
      <4>1. i \in W <=> Occurs(nd, hs, i)
        BY <1>2, OccursIff
      <4>2. Occurs(nd, hs, i) => i # n
        BY <1>2, <1>n, TextEnd DEF Occurs
      <4> QED
        BY <4>1, <4>2
    <3> QED
      BY <3>1
  <2> HIDE DEF From, Z, W
  <2> QED
    BY <2>4, <2>5, <2>8, <2>9
<1> QED
  BY <1>1, <1>2

LEMMA StrnstrFirst ==
  ASSUME NEW hs \in Seq(Octets), NEW nd \in Seq(Octets), NEW len \in Nat
  PROVE  IsFirst(ft_strnstr(hs, nd, len),
           {i \in 0..Len(hs) : Occurs(nd, hs, i) /\ (i + Len(nd) <= len \/ nd = <<>>)})
<1>n. Len(hs) \in Nat
  OBVIOUS
<1> DEFINE S == {i \in 0..Len(hs) : Occurs(nd, hs, i) /\ (i + Len(nd) <= len \/ nd = <<>>)}
<1>1. CASE nd = <<>>
  <2>1. Len(nd) = 0 /\ At(nd, 0) = NUL
    BY <1>1 DEF At
  <2>2. ft_strnstr(hs, nd, len) = 0
    BY <2>1 DEF ft_strnstr
  <2>3. Occurs(nd, hs, 0)
    <3>1. SubSeq(hs, 0 + 1, 0 + 0) = <<>>
      OBVIOUS
    <3> QED
      BY <1>1, <1>n, <2>1, <3>1 DEF Occurs
  <2>4. 0 \in S /\ S \subseteq Nat /\ \A k \in S : 0 <= k
    BY <1>1, <1>n, <2>3
  <2> HIDE DEF S
  <2>5. Min(S) = 0
    BY <2>4, MinIs
  <2> QED
    BY <2>2, <2>4, <2>5 DEF IsFirst, S
<1>2. CASE nd # <<>>
  <2> DEFINE n == Len(hs)
             Z == {i \in 0..n : i = n \/ i > len}
             W == {i \in 0..n : AllSame(hs, nd, i) /\ i + Len(nd) <= len}
             From(f) == f = [i \in 0..Len(hs) |->
                               IF At(hs, i) = NUL \/ i > len THEN NULL
                               ELSE IF does_it_work(hs, nd, len, i) THEN i ELSE f[i + 1]]
  <2>1. ASSUME NEW i \in 0..n
        PROVE  (At(hs, i) = NUL \/ i > len <=> i \in Z) /\ (does_it_work(hs, nd, len, i) <=> i \in W)
    <3>1. i \in Nat /\ (i < n \/ i >= n) /\ (i >= n <=> i = n)
      BY <1>n
    <3> QED
      BY <1>2, <3>1, AtText, DoesItWork
  <2>2. PICK g \in [0..n -> Nat \cup {NULL}] : Searches(g, n, Z, W)
    <3>1. n \in Z
      BY <1>n
    <3> HIDE DEF Z, W
    <3> QED
      BY <1>n, <3>1, SearchesExists
  <2>3. From(g)
    BY <2>1, <2>2 DEF Searches
  <2>4. ft_strnstr(hs, nd, len) = (CHOOSE f : From(f))[0]
    <3>1. At(nd, 0) # NUL
      BY <1>2, TextEnd
    <3> QED
      BY <3>1 DEF ft_strnstr
  <2>5. PICK h : h = (CHOOSE f : From(f))
    OBVIOUS
  <2>6. From(h)
    <3> HIDE DEF From
    <3> QED
      BY <2>3, <2>5
  <2>7. Searches(h, n, Z, W)
    <3>1. ASSUME NEW i \in 0..n
          PROVE  h[i] = IF i \in Z THEN NULL ELSE IF i \in W THEN i ELSE h[i + 1]
      BY <2>1, <2>6
    <3> HIDE DEF Z, W
    <3> QED
      BY <3>1 DEF Searches
  <2>8. IsFirst(h[0], {i \in 0..n : i \in W /\ i \notin Z})
    <3>1. n \in Z /\ \A i \in Z \cap 0..n : \A k \in i..n : k \in Z
      BY <1>n
    <3> HIDE DEF Z, W
    <3> QED
      BY <1>n, <2>7, <3>1, SearchesFirst
  <2>9. {i \in 0..n : i \in W /\ i \notin Z} = S
    <3>1. ASSUME NEW i \in 0..n
          PROVE  i \in W /\ i \notin Z <=> Occurs(nd, hs, i) /\ i + Len(nd) <= len
      <4>1. i \in W <=> Occurs(nd, hs, i) /\ i + Len(nd) <= len
        BY <1>2, OccursIff
      <4>2. Occurs(nd, hs, i) => i # n
        BY <1>2, <1>n, TextEnd DEF Occurs
      <4>3. i + Len(nd) <= len => ~(i > len)
        BY <1>2, TextEnd
      <4> QED
        BY <4>1, <4>2, <4>3
    <3> QED
      BY <1>2, <3>1
  <2> HIDE DEF From, Z, W
  <2> QED
    BY <2>4, <2>5, <2>8, <2>9
<1> QED
  BY <1>1, <1>2

-----------------------------------------------------------------------------
(* ft_strtrim *)

LEMMA NextIn ==
  ASSUME NEW s \in Seq(Octets), NEW k \in Nat, NEW octets,
         \E j \in k..Len(s) : At(s, j) \in octets
  PROVE  LET i == Next_in(s, k, octets)
         IN /\ i \in k..Len(s) /\ i \in Nat /\ At(s, i) \in octets
            /\ \A j \in k..i-1 : At(s, j) \notin octets
<1> DEFINE S == {j \in k..Len(s) : At(s, j) \in octets}
<1>1. S \subseteq Nat /\ S # {}
  OBVIOUS
<1>2. Min(S) \in S /\ \A j \in S : Min(S) <= j
  <2> HIDE DEF S
  <2> QED
    BY <1>1, MinOf
<1>3. Next_in(s, k, octets) = Min(S)
  BY DEF Next_in
<1> HIDE DEF S
<1>4. PICK i : i = Min(S)
  OBVIOUS
<1>5. i \in k..Len(s) /\ i \in Nat /\ At(s, i) \in octets /\ Len(s) \in Nat
  BY <1>2, <1>4 DEF S
<1>6. ASSUME NEW j \in k..i-1 PROVE At(s, j) \notin octets
  <2>1. j \in k..Len(s) /\ ~(i <= j)
    BY <1>5
  <2> QED
    BY <1>2, <1>4, <2>1 DEF S
<1> QED
  BY <1>3, <1>4, <1>5, <1>6

\* What is left when a text has an octet that is not blank: from the first of
\* those to the last.
LEMMA TrimOf ==
  ASSUME NEW s \in Seq(Octets), ~ft_strtrim(s).outside
  PROVE  \E i, j \in 1..Len(s) :
           /\ i <= j /\ ft_strtrim(s).text = SubSeq(s, i, j)
           /\ s[i] # BLANK /\ s[j] # BLANK
           /\ \A k \in 1..Len(s) : k < i \/ k > j => s[k] = BLANK
<1> DEFINE n == Len(s)
           p == Next_in(s, 0, Letters)
<1>n. n \in Nat /\ BLANK \notin Letters /\ NUL \notin Letters
  BY OctetsAssumption DEF Octets
<1>0. ~ \A i \in 0..n : At(s, i) \in {BLANK, NUL}
  <2>1. SUFFICES ASSUME \A i \in 0..n : At(s, i) \in {BLANK, NUL} PROVE FALSE
    OBVIOUS
  <2>2. ft_strtrim(s) = [outside |-> TRUE, text |-> <<>>]
    BY <2>1 DEF ft_strtrim
  <2>3. ft_strtrim(s).outside = TRUE
    BY <2>2
  <2> QED
    BY <2>3
<1>1. ft_strtrim(s).text = ft_strsub(s, p, ft_check_trim_front(s))
  <2>1. ft_strtrim(s) = [outside |-> FALSE, text |-> ft_strsub(s, p, ft_check_trim_front(s))]
    BY <1>0 DEF ft_strtrim
  <2> QED
    BY <2>1
\* the text by its offsets
<1>2. ASSUME NEW i \in 0..n-1
      PROVE  At(s, i) = s[i + 1] /\ (At(s, i) \in Letters <=> At(s, i) # BLANK) /\ At(s, i) # NUL
  <2>1. i \in Nat /\ i < n
    BY <1>n
  <2> QED
    BY <2>1, <1>n, AtText DEF Octets
<1>3. At(s, n) = NUL
  BY <1>n, AtText
<1>4. \E i \in 0..n : At(s, i) \in Letters
  <2>1. PICK i \in 0..n : At(s, i) \notin {BLANK, NUL}
    BY <1>0
  <2>2. i \in 0..n-1
    BY <1>3, <1>n, <2>1
  <2> QED
    BY <1>2, <2>1, <2>2
<1>5. p \in 0..n /\ At(s, p) \in Letters /\ \A j \in 0..p-1 : At(s, j) \notin Letters
  <2> HIDE DEF n, p
  <2> QED
    BY <1>4, NextIn DEF n, p
<1>6. p \in 0..n-1
  <2> HIDE DEF p
  <2> QED
    BY <1>3, <1>5, <1>n
<1>7. Next_in(s, 0, Letters \cup {NUL}) = p
  <2> DEFINE S == {j \in 0..n : At(s, j) \in Letters \cup {NUL}}
  <2>1. p \in S /\ S \subseteq Nat
    BY <1>5, <1>n
  <2>2. ASSUME NEW j \in S PROVE p <= j
    <3>1. j \in 0..n /\ (At(s, j) \in Letters \/ At(s, j) = NUL)
      OBVIOUS
    <3>2. CASE j = n
      BY <3>2, <1>5, <1>n
    <3>3. CASE j # n
      <4>1. At(s, j) \in Letters
        BY <1>2, <3>1, <3>3, <1>n
      <4> HIDE DEF p
      <4> QED
        BY <1>5, <3>1, <4>1, <1>n
    <3> QED
      BY <3>2, <3>3
  <2>3. Min(S) = p
    <3> HIDE DEF S, p
    <3> QED
      BY <2>1, <2>2, MinIs
  <2> QED
    BY <2>3 DEF Next_in
<1> HIDE DEF p
\* the blanks at the end
<1> DEFINE runs == {i \in 0..n-1 : \A j \in i..n-1 : At(s, j) = BLANK}
           r == IF runs = {} THEN n ELSE Min(runs)
<1>8. /\ r \in 0..n /\ \A j \in r..n-1 : At(s, j) = BLANK
      /\ r \notin runs => r = n
      /\ r # 0 => r - 1 \notin runs
  <2>1. CASE runs = {}
    <3>1. r = n
      BY <2>1
    <3> HIDE DEF r, runs
    <3> QED
      BY <2>1, <3>1, <1>n
  <2>2. CASE runs # {}
    <3>1. runs \subseteq Nat
      BY <1>n
    <3>2. r \in runs /\ r \in Nat /\ \A k \in runs : r <= k
      <4> HIDE DEF runs
      <4> QED
        BY <2>2, <3>1, MinOf
    <3>3. r \in 0..n-1 /\ \A j \in r..n-1 : At(s, j) = BLANK
      <4> HIDE DEF r
      <4> QED
        BY <3>2
    <3>4. r # 0 => r - 1 \notin runs
      <4> HIDE DEF runs, r
      <4> QED
        BY <3>2
    <3> HIDE DEF runs, r
    <3> QED
      BY <3>2, <3>3, <3>4, <1>n
  <2> QED
    BY <2>1, <2>2
<1>9. ft_check_trim_front(s) = (n - p) - (n - r)
  <2>1. p # n
    BY <1>6, <1>n
  <2>2. ft_check_trim_back(s, n - p) = (n - p) - (n - r)
    <3>1. CASE runs = {}
      BY <3>1, <1>n, <1>6 DEF ft_check_trim_back
    <3>2. CASE runs # {}
      <4>1. ft_check_trim_back(s, n - p) = (n - p) - (n - Min(runs))
        BY <3>2 DEF ft_check_trim_back
      <4> HIDE DEF runs
      <4> QED
        BY <3>2, <4>1
    <3> QED
      BY <3>1, <3>2
  <2> HIDE DEF runs, r
  <2> QED
    BY <1>7, <2>1, <2>2 DEF ft_check_trim_front
<1> HIDE DEF r
<1>10. p < r
  <2>1. SUFFICES ASSUME ~(p < r) PROVE FALSE
    OBVIOUS
  <2>2. p \in r..n-1
    BY <1>6, <1>8, <1>n, <2>1
  <2>3. At(s, p) = BLANK
    BY <1>8, <2>2
  <2> QED
    BY <1>5, <1>n, <2>3
<1>11. At(s, r - 1) # BLANK /\ r - 1 \in 0..n-1
  <2>1. r - 1 \in 0..n-1
    BY <1>6, <1>8, <1>10, <1>n
  <2>2. PICK j \in (r - 1)..n-1 : At(s, j) # BLANK
    <3>1. r # 0
      BY <1>6, <1>10, <1>n
    <3> QED
      BY <1>8, <2>1, <3>1
  <2>3. j \notin r..n-1 /\ j \in Nat
    BY <1>8, <2>1, <2>2, <1>n
  <2>4. j = r - 1
    BY <1>8, <2>1, <2>3, <1>n
  <2> QED
    BY <2>1, <2>2, <2>4
<1>12. ft_strtrim(s).text = SubSeq(s, p + 1, r)
  <2>1. p + ((n - p) - (n - r)) = r /\ r \in Nat /\ r <= n
    BY <1>6, <1>8, <1>n
  <2>2. Min({r, n}) = r
    <3> DEFINE U == {r, n}
    <3>1. U \subseteq Nat /\ r \in U /\ \A k \in U : r <= k
      BY <2>1, <1>n
    <3>2. Min(U) = r
      <4> HIDE DEF U
      <4> QED
        BY <3>1, MinIs
    <3> QED
      BY <3>2
  <2> QED
    BY <1>1, <1>9, <2>1, <2>2 DEF ft_strsub
<1>13. p + 1 \in 1..n /\ r \in 1..n /\ p + 1 <= r
  BY <1>6, <1>8, <1>10, <1>n
<1>14. s[p + 1] # BLANK /\ s[r] # BLANK
  <2>1. s[p + 1] = At(s, p) /\ s[(r - 1) + 1] = At(s, r - 1)
    BY <1>2, <1>6, <1>11
  <2>2. (r - 1) + 1 = r
    BY <1>13
  <2> QED
    BY <1>5, <1>n, <1>11, <2>1, <2>2
<1>15. ASSUME NEW k \in 1..n, k < p + 1 \/ k > r PROVE s[k] = BLANK
  <2>1. k - 1 \in 0..n-1 /\ (k - 1) + 1 = k
    BY <1>n
  <2>2. At(s, k - 1) = s[k] /\ (At(s, k - 1) \in Letters <=> At(s, k - 1) # BLANK)
    BY <1>2, <2>1
  <2>3. CASE k < p + 1
    <3>1. k - 1 \in 0..p-1
      BY <1>6, <2>3, <1>n
    <3> QED
      BY <1>5, <2>2, <3>1
  <2>4. CASE k > r
    <3>1. k - 1 \in r..n-1
      BY <1>8, <2>4, <1>n
    <3> QED
      BY <1>8, <2>2, <3>1
  <2> QED
    BY <1>15, <2>3, <2>4
<1> HIDE DEF n
<1> QED
  BY <1>12, <1>13, <1>14, <1>15 DEF n

-----------------------------------------------------------------------------
(* ft_strsplit *)

WordsOf(s, c) ==
  {w \in (1..Len(s)) \X (1..Len(s)) :
     /\ w[1] <= w[2] /\ \A k \in w[1]..w[2] : s[k] # c
     /\ w[1] = 1 \/ s[w[1] - 1] = c
     /\ w[2] = Len(s) \/ s[w[2] + 1] = c}

\* The offsets ft_countword counts: the one of the first octet, or the one of the
\* separator before a word.
Counted(s, c) ==
  {i \in 0..Len(s)-1 : (i = 0 /\ At(s, i) # c) \/ (At(s, i) = c /\ At(s, i + 1) \notin {c, NUL})}

\* The offset k is the end of a word, or the text's start.
AtEnd(s, c, k) == k \in 0..Len(s) /\ (k = 0 \/ k = Len(s) \/ At(s, k) = c)

\* What the words ws are, when those that end by k are done.
AreWords(s, c, k, ws) ==
  \E at \in [1..Len(ws) -> WordsOf(s, c)] :
    /\ \A n \in 1..Len(ws) : ws[n] = SubSeq(s, at[n][1], at[n][2])
    /\ \A m, n \in 1..Len(ws) : m < n => at[m][1] < at[n][1]
    /\ Range(at) = {w \in WordsOf(s, c) : w[2] <= k}

LEMMA CountedFinite ==
  ASSUME NEW s \in Seq(Octets), NEW c
  PROVE  /\ IsFiniteSet(Counted(s, c)) /\ Counted(s, c) \subseteq Nat
         /\ ft_countword(s, c) = Cardinality(Counted(s, c)) /\ ft_countword(s, c) \in Nat
<1>1. IsFiniteSet(0..Len(s)-1)
  BY FS_Interval
<1>2. Counted(s, c) \subseteq 0..Len(s)-1
  BY DEF Counted
<1>3. IsFiniteSet(Counted(s, c))
  BY <1>1, <1>2, FS_Subset
<1>4. ft_countword(s, c) = Cardinality(Counted(s, c))
  BY DEF ft_countword, Counted
<1> QED
  BY <1>2, <1>3, <1>4, FS_CardinalityType

LEMMA SplitDef ==
  ASSUME NEW s, NEW c, ft_countword(s, c) \in Nat
  PROVE  \E h : /\ ft_strsplit(s, c) = h[ft_countword(s, c)].words
                /\ h[0] = [k |-> 0, words |-> <<>>]
                /\ \A i \in 1..ft_countword(s, c) : h[i] = SplitWord(s, c, h[i - 1])
<1> DEFINE nw == ft_countword(s, c)
           Word(v) == SplitWord(s, c, v)
           b == [k |-> 0, words |-> <<>>]
           Splits(f, n) == f = [i \in 0..n |-> IF i = 0 THEN b ELSE Word(f[i - 1])]
           T == {n \in Nat : ~ \E f : Splits(f, n)}
<1>0. ft_strsplit(s, c) = (CHOOSE f : Splits(f, nw))[nw].words
  BY DEF ft_strsplit
<1> HIDE DEF Word, b, nw
<1>1. T = {}
  <2> SUFFICES ASSUME T # {} PROVE FALSE
    OBVIOUS
  <2>1. PICK n \in T : \A k \in T : n <= k
    <3>1. T \subseteq Nat
      OBVIOUS
    <3> HIDE DEF T
    <3> QED
      BY <3>1, LeastNat
  <2>2. n # 0
    <3>1. Splits([i \in 0..0 |-> b], 0)
      OBVIOUS
    <3> QED
      BY <3>1
  <2>3. n - 1 \in Nat /\ n - 1 \notin T
    <3>1. n \in Nat
      OBVIOUS
    <3>2. n - 1 \in Nat /\ ~(n <= n - 1)
      BY <2>2, <3>1
    <3> HIDE DEF T
    <3> QED
      BY <2>1, <3>2
  <2>4. PICK f : Splits(f, n - 1)
    BY <2>3
  <2> DEFINE h == [i \in 0..n |-> IF i = n THEN Word(f[n - 1]) ELSE f[i]]
  <2>5. ASSUME NEW i \in 0..n
        PROVE  h[i] = IF i = 0 THEN b ELSE Word(h[i - 1])
    <3>1. CASE i = n
      <4>1. n \in 0..n /\ n - 1 \in 0..n /\ n - 1 # n
        BY <2>3
      <4>2. h[n] = Word(f[n - 1]) /\ h[n - 1] = f[n - 1]
        BY <4>1
      <4> HIDE DEF h
      <4> QED
        BY <2>2, <3>1, <4>2
    <3>2. CASE i # n
      <4>1. i \in 0..n-1 /\ (i # 0 => i - 1 \in 0..n /\ i - 1 # n)
        BY <2>3, <3>2
      <4>2. f[i] = IF i = 0 THEN b ELSE Word(f[i - 1])
        BY <2>4, <4>1
      <4> QED
        BY <3>2, <4>1, <4>2
    <3> QED
      BY <3>1, <3>2
  <2>6. Splits(h, n)
    BY <2>5
  <2> QED
    BY <2>1, <2>6
<1>2. nw \in Nat
  BY DEF nw
<1>3. \E f : Splits(f, nw)
  BY <1>1, <1>2
<1>4. PICK h : h = (CHOOSE f : Splits(f, nw))
  OBVIOUS
<1>5. Splits(h, nw)
  <2> HIDE DEF Splits
  <2> QED
    BY <1>3, <1>4
<1>6. h[0] = b
  BY <1>2, <1>5
<1>7. ASSUME NEW i \in 1..nw PROVE h[i] = Word(h[i - 1])
  <2>1. i \in 0..nw /\ i # 0
    BY <1>2
  <2> QED
    BY <1>5, <2>1
<1>8. ft_strsplit(s, c) = h[nw].words
  BY <1>0, <1>4
<1> HIDE DEF Splits
<1>9. \A i \in 1..nw : h[i] = Word(h[i - 1])
  BY <1>7
<1> QED
  BY <1>6, <1>8, <1>9 DEF b, nw, Word

\* A text by its offsets, for a separator that may be the NUL.
LEMMA Offsets ==
  ASSUME NEW s \in Seq(Octets), NEW j \in 0..Len(s)-1
  PROVE  At(s, j) = s[j + 1] /\ At(s, j) # NUL /\ At(s, j) \in Octets /\ j \in Nat
<1>1. j \in Nat /\ j < Len(s)
  OBVIOUS
<1> QED
  BY <1>1, AtText

\* A word that ends after k begins after it, and counts.
LEMMA WordAfter ==
  ASSUME NEW s \in Seq(Octets), NEW c, NEW k, AtEnd(s, c, k),
         NEW w \in WordsOf(s, c), w[2] > k
  PROVE  w[1] > k /\ \E x \in Counted(s, c) : x >= k
<1>n. Len(s) \in Nat /\ k \in Nat /\ k <= Len(s) /\ w[1] \in 1..Len(s) /\ w[2] \in 1..Len(s)
  BY DEF AtEnd, WordsOf
<1>1. \A j \in w[1]..w[2] : At(s, j - 1) # c
  <2>1. ASSUME NEW j \in w[1]..w[2] PROVE At(s, j - 1) # c
    <3>1. j - 1 \in 0..Len(s)-1 /\ (j - 1) + 1 = j
      BY <1>n
    <3>2. At(s, j - 1) = s[j]
      BY <3>1, Offsets
    <3> QED
      BY <3>2 DEF WordsOf
  <2> QED
    BY <2>1
<1>2. w[1] > k
  <2>1. SUFFICES ASSUME w[1] <= k PROVE FALSE
    BY <1>n
  <2>2. At(s, k) = c
    BY <1>n, <2>1 DEF AtEnd
  <2>3. k + 1 \in w[1]..w[2] /\ (k + 1) - 1 = k
    BY <1>n, <2>1
  <2> QED
    BY <1>1, <2>2, <2>3
<1>3. At(s, w[1] - 1) # c /\ w[1] - 1 \in 0..Len(s)-1
  BY <1>1, <1>n DEF WordsOf
<1>4. CASE w[1] = 1
  <2>1. 0 \in Counted(s, c)
    BY <1>3, <1>4, <1>n DEF Counted
  <2> QED
    BY <1>2, <1>4, <1>n, <2>1
<1>5. CASE w[1] # 1
  <2>1. s[w[1] - 1] = c /\ w[1] - 2 \in 0..Len(s)-1 /\ (w[1] - 2) + 1 = w[1] - 1
    BY <1>5, <1>n DEF WordsOf
  <2>2. At(s, w[1] - 2) = c
    BY <2>1, Offsets
  <2>3. At(s, w[1] - 1) \notin {c, NUL}
    BY <1>3, Offsets
  <2>4. w[1] - 2 \in Counted(s, c)
    BY <2>1, <2>2, <2>3 DEF Counted
  <2>5. w[1] - 1 # k
    <3>1. SUFFICES ASSUME w[1] - 1 = k PROVE FALSE
      OBVIOUS
    <3>2. k # 0 /\ k # Len(s)
      BY <1>n, <1>5, <3>1
    <3>3. At(s, k) = c
      BY <3>2 DEF AtEnd
    <3> QED
      BY <1>3, <3>1, <3>3
  <2>6. w[1] - 2 >= k
    BY <1>2, <1>n, <2>5
  <2> QED
    BY <1>2, <2>4, <2>6
<1> QED
  BY <1>4, <1>5

\* What a turn of the loop finds, when x is the next offset counted: the word from
\* p to e, which is the only one to end after k and by e.
Finds(s, c, k, x, p, e) ==
  /\ Next_in(s, k, (Octets \cup {NUL}) \ {c}) = p /\ ft_lenword(s, p, c) = e - p
  /\ k <= p /\ p < e /\ AtEnd(s, c, e) /\ <<p + 1, e>> \in WordsOf(s, c)
  /\ ft_strsub(s, p, e - p) = SubSeq(s, p + 1, e)
  /\ {y \in Counted(s, c) : y < e} = {y \in Counted(s, c) : y < k} \cup {x}
  /\ {w \in WordsOf(s, c) : w[2] <= e} = {w \in WordsOf(s, c) : w[2] <= k} \cup {<<p + 1, e>>}

LEMMA SplitTurn ==
  ASSUME NEW s \in Seq(Octets), NEW c \in Octets \cup {NUL}, NEW k, AtEnd(s, c, k),
         NEW x \in Counted(s, c), x >= k, \A y \in Counted(s, c) : y >= k => x <= y
  PROVE  \E p \in Nat, e \in Nat : Finds(s, c, k, x, p, e)
<1> DEFINE n == Len(s)
<1>n. n \in Nat /\ k \in Nat /\ k <= n /\ x \in 0..n-1 /\ x \in Nat
  BY DEF AtEnd, Counted
<1>o. \A j \in 0..n-1 : At(s, j) = s[j + 1] /\ At(s, j) # NUL /\ At(s, j) \in Octets
  BY Offsets
<1>e. At(s, n) = NUL
  BY <1>n, AtText
<1>k. k = 0 \/ k = n \/ At(s, k) = c
  BY DEF AtEnd
<1>x. (x = 0 /\ At(s, x) # c) \/ (At(s, x) = c /\ At(s, x + 1) \notin {c, NUL})
  BY DEF Counted
<1> HIDE DEF n
\* The start p of the word.
<1>1. PICK p \in 0..n-1 : IF At(s, x) = c THEN p = x + 1 ELSE p = 0 /\ x = 0
  <2>1. CASE At(s, x) = c
    <3>1. x + 1 # n
      BY <1>e, <1>x, <2>1
    <3>2. x + 1 \in 0..n-1
      BY <1>n, <3>1
    <3> QED
      BY <2>1, <3>2
  <2>2. CASE At(s, x) # c
    BY <1>n, <1>x, <2>2
  <2> QED
    BY <2>1, <2>2
<1>2. At(s, p) # c /\ (p = 0 \/ At(s, p - 1) = c) /\ (p # 0 => p = x + 1)
  <2>1. CASE At(s, x) = c
    BY <1>1, <1>x, <1>n, <2>1
  <2>2. CASE At(s, x) # c
    BY <1>1, <1>x, <2>2
  <2> QED
    BY <2>1, <2>2
<1>3. k <= p /\ p \in Nat /\ p < n
  BY <1>1, <1>n
\* Before it there are separators only.
<1>4. \A j \in k..p-1 : At(s, j) = c
  <2> DEFINE T == {j \in k..p-1 : At(s, j) # c}
  <2> SUFFICES ASSUME T # {} PROVE FALSE
    OBVIOUS
  <2>1. PICK j \in T : \A i \in T : j <= i
    <3>1. T \subseteq Nat
      BY <1>n
    <3> HIDE DEF T
    <3> QED
      BY <3>1, LeastNat
  <2>2. j \in k..p-1 /\ At(s, j) # c /\ j \in Nat /\ j < n /\ p # 0 /\ p = x + 1
    BY <1>2, <1>3, <1>n
  <2>3. CASE j = 0
    <3>1. 0 \in Counted(s, c)
      BY <2>2, <2>3, <1>n DEF Counted, n
    <3>2. k = 0 /\ x = 0
      BY <2>2, <2>3, <3>1, <1>n
    <3> QED
      BY <1>2, <2>2, <2>3, <3>2
  <2>4. CASE j # 0 /\ j = k
    BY <1>k, <2>2, <2>4
  <2>5. CASE j # 0 /\ j # k
    <3>1. j - 1 \in k..p-1 /\ j - 1 \in 0..n-1 /\ ~(j <= j - 1) /\ (j - 1) + 1 = j
      BY <2>2, <2>5, <1>n, <1>3
    <3>2. At(s, j - 1) = c
      <4> HIDE DEF T
      <4>1. j - 1 \notin T
        BY <2>1, <3>1
      <4> QED
        BY <3>1, <4>1 DEF T
    <3>3. At(s, j) # NUL
      BY <1>o, <2>2, <1>n
    <3>4. j - 1 \in Counted(s, c)
      BY <2>2, <3>1, <3>2, <3>3 DEF Counted, n
    <3>5. x <= j - 1
      BY <3>1, <3>4, <1>n
    <3> QED
      BY <2>2, <3>5, <1>n
  <2> QED
    BY <2>3, <2>4, <2>5
<1>5. Next_in(s, k, (Octets \cup {NUL}) \ {c}) = p
  <2> DEFINE S == {j \in k..n : At(s, j) \in (Octets \cup {NUL}) \ {c}}
  <2>1. p \in S /\ S \subseteq Nat
    BY <1>2, <1>3, <1>n, <1>o
  <2>2. ASSUME NEW j \in S PROVE p <= j
    <3>1. j \in k..n /\ At(s, j) # c
      OBVIOUS
    <3>2. j \notin k..p-1
      BY <1>4, <3>1
    <3> QED
      BY <1>3, <1>n, <3>1, <3>2
  <2>3. Min(S) = p
    <3> HIDE DEF S
    <3> QED
      BY <2>1, <2>2, MinIs
  <2> QED
    BY <2>3 DEF Next_in, n
\* The end e of the word.
<1>6. PICK e \in Nat :
        /\ Next_in(s, p, {c, NUL}) = e /\ e \in p..n /\ At(s, e) \in {c, NUL}
        /\ \A j \in p..e-1 : At(s, j) \notin {c, NUL}
  <2>1. \E j \in p..Len(s) : At(s, j) \in {c, NUL}
    BY <1>e, <1>3, <1>n DEF n
  <2> QED
    BY <1>3, <2>1, NextIn DEF n
<1>7. p < e /\ e <= n
  BY <1>2, <1>3, <1>6, <1>o
<1>8. e = n \/ At(s, e) = c
  BY <1>6, <1>7, <1>n, <1>o
<1>9. ft_lenword(s, p, c) = e - p
  BY <1>6 DEF ft_lenword
<1>10. AtEnd(s, c, e)
  BY <1>7, <1>8, <1>n DEF AtEnd, n
<1>11. ft_strsub(s, p, e - p) = SubSeq(s, p + 1, e)
  <2>1. p + (e - p) = e
    BY <1>3
  <2> DEFINE U == {e, n}
  <2>2. U \subseteq Nat /\ e \in U /\ \A i \in U : e <= i
    BY <1>7, <1>n
  <2>3. Min(U) = e
    <3> HIDE DEF U
    <3> QED
      BY <2>2, MinIs
  <2> QED
    BY <2>1, <2>3 DEF ft_strsub, n
<1> DEFINE word == <<p + 1, e>>
<1>12. word \in WordsOf(s, c)
  <2>1. ASSUME NEW j \in (p + 1)..e PROVE s[j] # c
    <3>1. j - 1 \in p..e-1 /\ j - 1 \in 0..n-1 /\ (j - 1) + 1 = j
      BY <1>3, <1>7, <1>n
    <3> QED
      BY <1>6, <1>o, <3>1
  <2>2. p + 1 = 1 \/ s[p] = c
    <3>1. CASE p # 0
      <4>1. p - 1 \in 0..n-1 /\ (p - 1) + 1 = p
        BY <1>3, <3>1, <1>n
      <4> QED
        BY <1>2, <1>o, <3>1, <4>1
    <3> QED
      BY <3>1
  <2>3. e = n \/ s[e + 1] = c
    <3>1. CASE e # n
      <4>1. e \in 0..n-1
        BY <1>7, <3>1, <1>n
      <4> QED
        BY <1>8, <1>o, <3>1, <4>1
    <3> QED
      BY <3>1
  <2>4. p + 1 \in 1..n /\ e \in 1..n /\ p + 1 <= e /\ (p + 1) - 1 = p
    BY <1>3, <1>7, <1>n
  <2> QED
    BY <2>1, <2>2, <2>3, <2>4 DEF WordsOf, n
<1>13. ASSUME NEW y \in Counted(s, c) PROVE y < e <=> y < k \/ y = x
  <2>1. y \in Nat /\ ((y = 0 /\ At(s, y) # c) \/ At(s, y) = c)
    BY DEF Counted
  <2>2. x < e
    BY <1>1, <1>2, <1>3, <1>7, <1>n
  <2>3. ASSUME y >= k, y # x, y < e PROVE FALSE
    <3>1. x < y
      BY <1>n, <2>1, <2>3
    <3>2. y \in p..e-1 /\ y # 0
      BY <1>2, <1>3, <1>n, <2>1, <2>3, <3>1
    <3> QED
      BY <1>6, <2>1, <3>2
  <2> QED
    BY <1>3, <1>7, <1>n, <2>1, <2>2, <2>3
<1>14. ASSUME NEW w \in WordsOf(s, c), w[2] > k, w[2] <= e PROVE w = word
  <2>1. w[1] > k
    BY <1>14, WordAfter
  <2>2. /\ w[1] \in 1..n /\ w[2] \in 1..n /\ w[1] <= w[2] /\ w = <<w[1], w[2]>>
        /\ \A j \in w[1]..w[2] : s[j] # c
        /\ w[1] = 1 \/ s[w[1] - 1] = c
        /\ w[2] = n \/ s[w[2] + 1] = c
    BY DEF WordsOf, n
  <2>3. w[1] - 1 \in 0..n-1 /\ At(s, w[1] - 1) # c
    <3>1. w[1] - 1 \in 0..n-1 /\ (w[1] - 1) + 1 = w[1] /\ w[1] \in w[1]..w[2]
      BY <2>2, <1>n
    <3> QED
      BY <1>o, <2>2, <3>1
  <2>4. w[1] - 1 >= p
    <3>1. w[1] - 1 \notin k..p-1
      BY <1>4, <2>3
    <3> QED
      BY <1>3, <1>n, <2>1, <2>2, <3>1
  <2>5. w[1] = p + 1
    <3>1. SUFFICES ASSUME w[1] # p + 1 PROVE FALSE
      OBVIOUS
    <3>2. w[1] - 2 \in p..e-1 /\ w[1] - 2 \in 0..n-1 /\ (w[1] - 2) + 1 = w[1] - 1 /\ w[1] # 1
      BY <1>3, <1>7, <1>14, <1>n, <2>2, <2>4, <3>1
    <3>3. At(s, w[1] - 2) = c
      BY <1>o, <2>2, <3>2
    <3> QED
      BY <1>6, <3>2, <3>3
  <2>6. w[2] = e
    <3>1. SUFFICES ASSUME w[2] # e PROVE FALSE
      OBVIOUS
    <3>2. w[2] \in p..e-1 /\ w[2] \in 0..n-1 /\ w[2] # n
      BY <1>3, <1>7, <1>14, <1>n, <2>2, <2>5, <3>1
    <3>3. At(s, w[2]) = c
      BY <1>o, <2>2, <3>2
    <3> QED
      BY <1>6, <3>2, <3>3
  <2> QED
    BY <2>2, <2>5, <2>6
<1>15. {y \in Counted(s, c) : y < e} = {y \in Counted(s, c) : y < k} \cup {x}
  BY <1>13
<1>16. {w \in WordsOf(s, c) : w[2] <= e} = {w \in WordsOf(s, c) : w[2] <= k} \cup {word}
  <2>1. ASSUME NEW w \in WordsOf(s, c) PROVE w[2] <= e <=> w[2] <= k \/ w = word
    <3>1. w[2] \in Nat /\ word[2] = e /\ k <= e
      BY <1>3, <1>7, <1>n DEF WordsOf
    <3> HIDE DEF word
    <3> QED
      BY <1>14, <1>n, <3>1
  <2> HIDE DEF word
  <2> QED
    BY <1>12, <2>1
<1> QED
  BY <1>3, <1>5, <1>7, <1>9, <1>10, <1>11, <1>12, <1>15, <1>16 DEF Finds

\* What i turns leave: i words, all those that end by the offset k.
SplitAt(s, c, v, i) ==
  /\ v \in [k : Nat, words : Seq(Seq(Octets))] /\ AtEnd(s, c, v.k)
  /\ Len(v.words) = i /\ AreWords(s, c, v.k, v.words)
  /\ Cardinality({y \in Counted(s, c) : y < v.k}) = i

LEMMA SplitGoesOn ==
  ASSUME NEW s \in Seq(Octets), NEW c \in Octets \cup {NUL}, NEW i \in Nat,
         i < ft_countword(s, c), NEW v, SplitAt(s, c, v, i)
  PROVE  SplitAt(s, c, SplitWord(s, c, v), i + 1)
<1> DEFINE k == v.k
           done == {y \in Counted(s, c) : y < k}
           rest == {y \in Counted(s, c) : y >= k}
<1>v. v = [k |-> k, words |-> v.words] /\ k \in Nat /\ v.words \in Seq(Seq(Octets)) /\ AtEnd(s, c, k)
  BY DEF SplitAt
<1>c. /\ IsFiniteSet(Counted(s, c)) /\ Counted(s, c) \subseteq Nat
      /\ ft_countword(s, c) = Cardinality(Counted(s, c))
  BY CountedFinite
<1>1. PICK x \in Counted(s, c) : x >= k /\ \A y \in Counted(s, c) : y >= k => x <= y
  <2>1. rest # {}
    <3>1. SUFFICES ASSUME rest = {} PROVE FALSE
      OBVIOUS
    <3>2. \A y \in Counted(s, c) : y < k
      BY <1>v, <1>c, <3>1
    <3>3. done = Counted(s, c)
      BY <3>2
    <3>4. Cardinality(done) = i
      BY DEF SplitAt
    <3> HIDE DEF done
    <3> QED
      BY <1>c, <3>3, <3>4
  <2>2. rest \subseteq Nat
    BY <1>c
  <2>3. PICK x \in rest : \A y \in rest : x <= y
    <3> HIDE DEF rest
    <3> QED
      BY <2>1, <2>2, LeastNat
  <2> QED
    BY <2>3
<1>2. PICK p \in Nat, e \in Nat :
           /\ Next_in(s, k, (Octets \cup {NUL}) \ {c}) = p /\ ft_lenword(s, p, c) = e - p
           /\ k <= p /\ p < e /\ AtEnd(s, c, e) /\ <<p + 1, e>> \in WordsOf(s, c)
           /\ ft_strsub(s, p, e - p) = SubSeq(s, p + 1, e)
           /\ {y \in Counted(s, c) : y < e} = {y \in Counted(s, c) : y < k} \cup {x}
           /\ {w \in WordsOf(s, c) : w[2] <= e} = {w \in WordsOf(s, c) : w[2] <= k} \cup {<<p + 1, e>>}
  <2> HIDE DEF k
  <2>1. \E p \in Nat, e \in Nat : Finds(s, c, k, x, p, e)
    BY <1>v, <1>1, SplitTurn
  <2> QED
    BY <2>1 DEF Finds
<1> DEFINE ws == v.words
           word == SubSeq(s, p + 1, e)
           new == Append(ws, word)
<1>3. SplitWord(s, c, v) = [k |-> e, words |-> new]
  <2>1. p + (e - p) = e
    OBVIOUS
  <2> QED
    BY <1>2, <2>1 DEF SplitWord
<1>4. word \in Seq(Octets)
  <2>1. e <= Len(s)
    BY <1>2 DEF AtEnd
  <2>2. \A j \in (p + 1)..e : j \in 1..Len(s)
    BY <2>1
  <2> QED
    BY <2>2, SubSeqProperties
<1>5. /\ new \in Seq(Seq(Octets)) /\ Len(new) = i + 1 /\ new[i + 1] = word
      /\ \A n \in 1..i : new[n] = ws[n]
  <2>1. Len(ws) = i
    BY DEF SplitAt
  <2> HIDE DEF word
  <2> QED
    BY <1>4, <1>v, <2>1
<1>6. Cardinality({y \in Counted(s, c) : y < e}) = i + 1
  <2>1. IsFiniteSet(done) /\ x \notin done /\ Cardinality(done) = i
    <3>1. done \subseteq Counted(s, c) /\ x \notin done
      BY <1>1, <1>c, <1>v
    <3> QED
      BY <1>c, <3>1, FS_Subset DEF SplitAt
  <2> HIDE DEF done
  <2>2. Cardinality(done \cup {x}) = i + 1
    BY <2>1, FS_AddElement
  <2> QED
    BY <1>2, <2>2 DEF done
<1>7. AreWords(s, c, e, new)
  <2>1. PICK at \in [1..i -> WordsOf(s, c)] :
          /\ \A n \in 1..i : ws[n] = SubSeq(s, at[n][1], at[n][2])
          /\ \A m, n \in 1..i : m < n => at[m][1] < at[n][1]
          /\ Range(at) = {w \in WordsOf(s, c) : w[2] <= k}
    <3>1. Len(ws) = i
      BY DEF SplitAt
    <3> QED
      BY <3>1 DEF SplitAt, AreWords
  <2> DEFINE last == <<p + 1, e>>
             at2 == [n \in 1..i+1 |-> IF n = i + 1 THEN last ELSE at[n]]
  <2>2. \A n \in 1..i+1 : n # i + 1 => n \in 1..i
    OBVIOUS
  <2>3. at2 \in [1..i+1 -> WordsOf(s, c)]
    <3>1. last \in WordsOf(s, c)
      BY <1>2
    <3> HIDE DEF last
    <3> QED
      BY <2>2, <3>1
  <2>4. ASSUME NEW n \in 1..i+1 PROVE new[n] = SubSeq(s, at2[n][1], at2[n][2])
    <3>1. CASE n = i + 1
      <4>1. at2[n] = last
        BY <3>1
      <4> HIDE DEF at2, new
      <4> QED
        BY <1>5, <3>1, <4>1
    <3>2. CASE n # i + 1
      <4>1. n \in 1..i /\ at2[n] = at[n]
        BY <2>2, <3>2
      <4> HIDE DEF at2, new
      <4> QED
        BY <1>5, <2>1, <4>1
    <3> QED
      BY <3>1, <3>2
  <2>5. ASSUME NEW m \in 1..i+1, NEW n \in 1..i+1, m < n PROVE at2[m][1] < at2[n][1]
    <3>1. m \in 1..i /\ at2[m] = at[m]
      BY <2>5
    <3>2. CASE n = i + 1
      <4>1. at[m] \in Range(at)
        BY <3>1 DEF Range
      <4>2. at[m] \in WordsOf(s, c) /\ at[m][2] <= k
        BY <2>1, <4>1
      <4>3. at[m][1] \in Nat /\ at[m][2] \in Nat /\ at[m][1] <= at[m][2]
        <5>1. at[m][1] \in 1..Len(s) /\ at[m][2] \in 1..Len(s) /\ at[m][1] <= at[m][2]
          BY <4>2 DEF WordsOf
        <5> QED
          BY <5>1
      <4>4. at2[n][1] = p + 1
        BY <3>2
      <4> HIDE DEF at2
      <4> QED
        BY <1>v, <1>2, <3>1, <4>2, <4>3, <4>4
    <3>3. CASE n # i + 1
      <4>1. n \in 1..i /\ at2[n] = at[n]
        BY <2>2, <3>3
      <4> HIDE DEF at2
      <4> QED
        BY <2>1, <2>5, <3>1, <4>1
    <3> QED
      BY <3>2, <3>3
  <2>6. Range(at2) = {w \in WordsOf(s, c) : w[2] <= e}
    <3>1. ASSUME NEW w PROVE w \in Range(at2) <=> w \in Range(at) \cup {last}
      <4>1. ASSUME w \in Range(at2) PROVE w \in Range(at) \cup {last}
        <5>1. PICK n \in 1..i+1 : w = at2[n]
          BY <4>1 DEF Range
        <5>2. CASE n = i + 1
          BY <5>1, <5>2
        <5>3. CASE n # i + 1
          <6>1. n \in 1..i /\ w = at[n]
            BY <2>2, <5>1, <5>3
          <6> QED
            BY <6>1 DEF Range
        <5> QED
          BY <5>2, <5>3
      <4>2. ASSUME w \in Range(at) PROVE w \in Range(at2)
        <5>1. PICK n \in 1..i : w = at[n]
          BY <4>2 DEF Range
        <5>2. n \in 1..i+1 /\ n # i + 1
          OBVIOUS
        <5> QED
          BY <5>1, <5>2 DEF Range
      <4>3. last \in Range(at2)
        <5>1. i + 1 \in 1..i+1 /\ at2[i + 1] = last
          OBVIOUS
        <5> HIDE DEF last
        <5> QED
          BY <5>1 DEF Range
      <4> QED
        BY <4>1, <4>2, <4>3
    <3> HIDE DEF at2, last
    <3>2. Range(at2) = Range(at) \cup {last}
      BY <3>1
    <3> QED
      BY <1>2, <2>1, <3>2 DEF last
  <2> HIDE DEF at2, new
  <2> QED
    BY <1>5, <2>3, <2>4, <2>5, <2>6 DEF AreWords
<1> HIDE DEF new
<1> QED
  BY <1>2, <1>3, <1>5, <1>6, <1>7 DEF SplitAt

\* After all the turns there is no word left.
LEMMA SplitOf ==
  ASSUME NEW s \in Seq(Octets), NEW c \in Octets \cup {NUL}
  PROVE  /\ ft_strsplit(s, c) \in Seq(Seq(Octets))
         /\ AreWords(s, c, Len(s), ft_strsplit(s, c))
<1> DEFINE nw == ft_countword(s, c)
<1>c. /\ IsFiniteSet(Counted(s, c)) /\ Counted(s, c) \subseteq Nat
      /\ nw = Cardinality(Counted(s, c)) /\ nw \in Nat
  BY CountedFinite
<1>1. PICK h : /\ ft_strsplit(s, c) = h[nw].words /\ h[0] = [k |-> 0, words |-> <<>>]
               /\ \A i \in 1..nw : h[i] = SplitWord(s, c, h[i - 1])
  BY <1>c, SplitDef
<1> HIDE DEF nw
<1>2. SplitAt(s, c, [k |-> 0, words |-> <<>>], 0)
  <2>1. AtEnd(s, c, 0)
    BY DEF AtEnd
  <2>2. {y \in Counted(s, c) : y < 0} = {}
    BY <1>c
  <2>3. {w \in WordsOf(s, c) : w[2] <= 0} = {}
    BY DEF WordsOf
  <2> DEFINE none == [n \in 1..0 |-> <<1, 1>>]
  <2>4. none \in [1..Len(<<>>) -> WordsOf(s, c)] /\ Range(none) = {}
    BY DEF Range
  <2>5. AreWords(s, c, 0, <<>>)
    <3> HIDE DEF none
    <3>1. \A n \in 1..Len(<<>>) : FALSE
      OBVIOUS
    <3> QED
      BY <2>3, <2>4, <3>1 DEF AreWords
  <2>6. Cardinality({y \in Counted(s, c) : y < 0}) = 0
    BY <2>2, FS_EmptySet
  <2> QED
    BY <2>1, <2>5, <2>6 DEF SplitAt
<1>3. \A i \in 0..nw : SplitAt(s, c, h[i], i)
  <2> DEFINE T == {i \in 0..nw : ~SplitAt(s, c, h[i], i)}
  <2> SUFFICES ASSUME T # {} PROVE FALSE
    OBVIOUS
  <2>1. PICK i \in T : \A j \in T : i <= j
    <3>1. T \subseteq Nat
      OBVIOUS
    <3> HIDE DEF T
    <3> QED
      BY <3>1, LeastNat
  <2>2. i # 0
    BY <1>1, <1>2
  <2>3. i \in 0..nw
    OBVIOUS
  <2>4. i \in 1..nw /\ i - 1 \in 0..nw /\ i - 1 \in Nat /\ i - 1 < nw /\ ~(i <= i - 1) /\ (i - 1) + 1 = i
    BY <1>c, <2>2, <2>3
  <2>5. SplitAt(s, c, h[i - 1], i - 1)
    <3>1. i - 1 \notin T
      <4> HIDE DEF T
      <4> QED
        BY <2>1, <2>4
    <3> QED
      BY <2>4, <3>1
  <2>6. SplitAt(s, c, SplitWord(s, c, h[i - 1]), (i - 1) + 1)
    <3> DEFINE v == h[i - 1]
               j == i - 1
    <3>1. j \in Nat /\ j < ft_countword(s, c) /\ SplitAt(s, c, v, j)
      BY <2>4, <2>5 DEF nw
    <3> HIDE DEF v, j
    <3>2. SplitAt(s, c, SplitWord(s, c, v), j + 1)
      BY <3>1, SplitGoesOn
    <3> QED
      BY <3>2 DEF v, j
  <2>7. h[i] = SplitWord(s, c, h[i - 1])
    BY <1>1, <2>4
  <2>8. SplitAt(s, c, h[i], i)
    BY <2>4, <2>6, <2>7
  <2> QED
    BY <2>1, <2>8
<1>4. SplitAt(s, c, h[nw], nw)
  BY <1>3, <1>c
<1> DEFINE k == h[nw].k
           done == {y \in Counted(s, c) : y < k}
<1>5. done = Counted(s, c)
  <2>1. done \subseteq Counted(s, c) /\ Cardinality(done) = Cardinality(Counted(s, c))
    BY <1>4, <1>c DEF SplitAt
  <2> HIDE DEF done
  <2> QED
    BY <1>c, <2>1, FS_Subset
<1>6. {w \in WordsOf(s, c) : w[2] <= k} = {w \in WordsOf(s, c) : w[2] <= Len(s)}
  <2>1. ASSUME NEW w \in WordsOf(s, c) PROVE w[2] <= k /\ w[2] <= Len(s)
    <3>1. w[2] \in 1..Len(s) /\ k \in Nat /\ AtEnd(s, c, k)
      BY <1>4 DEF WordsOf, SplitAt
    <3>2. ~(w[2] > k)
      <4>1. \A y \in Counted(s, c) : y \in Nat /\ y < k
        BY <1>5, <1>c
      <4> HIDE DEF k
      <4>2. ~ \E y \in Counted(s, c) : y >= k
        BY <3>1, <4>1
      <4> QED
        BY <3>1, <4>2, WordAfter
    <3> HIDE DEF k
    <3> QED
      BY <3>1, <3>2
  <2> QED
    BY <2>1
<1>7. AreWords(s, c, Len(s), h[nw].words)
  BY <1>4, <1>6 DEF SplitAt, AreWords
<1> QED
  BY <1>1, <1>4, <1>7 DEF SplitAt

-----------------------------------------------------------------------------
(* Numbers                                                                  *)

\* Induction, on a set.
LEMMA UpTo ==
  ASSUME NEW n \in Nat, NEW P, 0 \in P, \A i \in 1..n : i - 1 \in P => i \in P
  PROVE  \A i \in 0..n : i \in P
<1> DEFINE T == {i \in 0..n : i \notin P}
<1> SUFFICES ASSUME T # {} PROVE FALSE
  OBVIOUS
<1>1. PICK i \in T : \A j \in T : i <= j
  <2>1. T \subseteq Nat
    OBVIOUS
  <2> HIDE DEF T
  <2> QED
    BY <2>1, LeastNat
<1>2. i \in 0..n /\ i # 0
  OBVIOUS
<1>3. i \in 1..n /\ i - 1 \in 0..n /\ ~(i <= i - 1)
  BY <1>2
<1>4. i - 1 \notin T
  <2> HIDE DEF T
  <2> QED
    BY <1>1, <1>3
<1> QED
  BY <1>3, <1>4

Iterates(f, b, step) == f = [i \in Nat |-> IF i = 0 THEN b ELSE step[f[i - 1]]]

LEMMA RecursionNat ==
  ASSUME NEW V, NEW b \in V, NEW step \in [V -> V]
  PROVE  \E f \in [Nat -> V] : Iterates(f, b, step)
<1> DEFINE Is(f, n) == f[0] = b /\ \A i \in 1..n : f[i] = step[f[i - 1]]
           Value(n, v) == \E f \in [0..n -> V] : Is(f, n) /\ f[n] = v
           h == [i \in Nat |-> CHOOSE v : Value(i, v)]
<1>1. ASSUME NEW n \in Nat PROVE \E v \in V : Value(n, v)
  <2> DEFINE up == [p \in (1..n) \X V |-> step[p[2]]]
  <2>1. up \in [(1..n) \X V -> V]
    OBVIOUS
  <2>2. PICK f \in [0..n -> V] : CountsUp(f, n, b, up)
    <3> HIDE DEF up
    <3> QED
      BY <2>1, RecursionUp
  <2>3. f[0] = b
    <3>1. 0 \in 0..n
      OBVIOUS
    <3> HIDE DEF up
    <3> QED
      BY <2>2, <3>1 DEF CountsUp
  <2>4. ASSUME NEW i \in 1..n PROVE f[i] = step[f[i - 1]]
    <3>1. i \in 0..n /\ i - 1 \in 0..n /\ i # 0
      OBVIOUS
    <3>2. f[i - 1] \in V
      BY <3>1
    <3>3. f[i] = up[<<i, f[i - 1]>>]
      <4> HIDE DEF up
      <4> QED
        BY <2>2, <3>1 DEF CountsUp
    <3> QED
      BY <3>2, <3>3
  <2>5. f[n] \in V
    OBVIOUS
  <2> QED
    BY <2>3, <2>4, <2>5
<1>2. ASSUME NEW n \in Nat, NEW f \in [0..n -> V], Is(f, n), NEW g \in [0..n -> V], Is(g, n)
      PROVE  f[n] = g[n]
  <2> DEFINE P == {i \in 0..n : f[i] = g[i]}
  <2>1. 0 \in P
    BY <1>2
  <2>2. ASSUME NEW i \in 1..n, i - 1 \in P PROVE i \in P
    BY <1>2, <2>2
  <2>3. n \in P
    <3>1. n \in 0..n
      OBVIOUS
    <3> HIDE DEF P
    <3> QED
      BY <2>1, <2>2, <3>1, UpTo
  <2> QED
    BY <2>3
<1>3. ASSUME NEW n \in Nat PROVE h[n] \in V /\ Value(n, h[n])
  <2>1. PICK v \in V : Value(n, v)
    BY <1>1
  <2>2. Value(n, h[n])
    <3> HIDE DEF Value
    <3> QED
      BY <2>1
  <2>3. PICK f \in [0..n -> V] : f[n] = h[n]
    BY <2>2
  <2>4. h[n] \in V
    <3> HIDE DEF h
    <3>1. n \in 0..n
      OBVIOUS
    <3> QED
      BY <2>3, <3>1
  <2> QED
    BY <2>2, <2>4
<1>4. ASSUME NEW n \in Nat PROVE h[n] = IF n = 0 THEN b ELSE step[h[n - 1]]
  <2>1. PICK f \in [0..n -> V] : Is(f, n) /\ f[n] = h[n]
    BY <1>3
  <2>2. CASE n = 0
    BY <2>1, <2>2
  <2>3. CASE n # 0
    <3>1. n - 1 \in Nat /\ n \in 1..n /\ n - 1 \in 0..n
      BY <2>3
    <3>2. PICK g \in [0..n-1 -> V] : Is(g, n - 1) /\ g[n - 1] = h[n - 1]
      BY <1>3, <3>1
    <3> DEFINE e == [i \in 0..n-1 |-> f[i]]
    <3>3. e \in [0..n-1 -> V] /\ e[n - 1] = f[n - 1]
      BY <3>1
    <3>4. Is(e, n - 1)
      <4>1. e[0] = b
        BY <2>1, <3>1
      <4>2. ASSUME NEW i \in 1..n-1 PROVE e[i] = step[e[i - 1]]
        <5>1. i \in 0..n-1 /\ i - 1 \in 0..n-1 /\ i \in 1..n
          BY <3>1
        <5>2. f[i] = step[f[i - 1]]
          BY <2>1, <5>1
        <5> QED
          BY <5>1, <5>2
      <4> HIDE DEF e
      <4> QED
        BY <4>1, <4>2
    <3>5. f[n - 1] = h[n - 1]
      <4> HIDE DEF e, h
      <4> QED
        BY <1>2, <3>1, <3>2, <3>3, <3>4
    <3>6. f[n] = step[f[n - 1]]
      BY <2>1, <3>1
    <3> HIDE DEF h
    <3> QED
      BY <2>1, <2>3, <3>5, <3>6
  <2> QED
    BY <2>2, <2>3
<1>5. h \in [Nat -> V] /\ h = [i \in Nat |-> IF i = 0 THEN b ELSE step[h[i - 1]]]
  <2>1. h = [i \in Nat |-> h[i]]
    OBVIOUS
  <2> HIDE DEF h
  <2> QED
    BY <1>3, <1>4, <2>1
<1> HIDE DEF h
<1> QED
  BY <1>5 DEF Iterates

\* Division by BASE.
LEMMA Divided ==
  ASSUME NEW n \in Nat
  PROVE  /\ n \div BASE \in Nat /\ n % BASE \in Digits /\ n % BASE \in Nat
         /\ n = (BASE * (n \div BASE)) + (n % BASE)
         /\ n # 0 => n \div BASE < n
         /\ n \div BASE = 0 <=> n < BASE
         /\ n < BASE => n % BASE = n
<1>0. BASE \in Nat /\ BASE >= 2
  BY IntAssumption
<1>1. n \div BASE \in Int /\ n % BASE \in 0..BASE-1 /\ n = (BASE * (n \div BASE)) + (n % BASE)
  BY <1>0
<1> DEFINE q == n \div BASE
           r == n % BASE
<1>2. q \in Int /\ r \in Int /\ 0 <= r /\ r < BASE /\ n = BASE * q + r
  BY <1>0, <1>1
<1> HIDE DEF q, r
<1>3. q >= 0
  <2>1. SUFFICES ASSUME q <= -1 PROVE FALSE
    BY <1>2
  <2>2. BASE * q <= BASE * (-1)
    BY <1>0, <1>2, <2>1
  <2> QED
    BY <1>0, <1>2, <2>2
<1>4. n # 0 => q < n
  <2>1. SUFFICES ASSUME n # 0, q >= n PROVE FALSE
    BY <1>2
  <2>2. BASE * q >= 2 * q
    BY <1>0, <1>2, <1>3
  <2> QED
    BY <1>0, <1>2, <2>1, <2>2
<1>5. q = 0 <=> n < BASE
  <2>1. ASSUME q # 0 PROVE n >= BASE
    <3>1. BASE * q >= BASE * 1
      BY <1>0, <1>2, <1>3, <2>1
    <3> QED
      BY <1>0, <1>2, <3>1
  <2>2. ASSUME q = 0 PROVE n = r
    BY <1>0, <1>2, <2>2
  <2> QED
    BY <1>0, <1>2, <2>1, <2>2
<1>6. n < BASE => r = n
  BY <1>0, <1>2, <1>5
<1> QED
  BY <1>1, <1>2, <1>3, <1>4, <1>5, <1>6 DEF q, r, Digits

LEMMA PowerFacts ==
  /\ Power \in [Nat -> Nat] /\ Power[0] = 1
  /\ \A k \in Nat : Power[k + 1] = BASE * Power[k] /\ Power[k] >= 1
<1>b. BASE \in Nat /\ BASE >= 2
  BY IntAssumption
<1> DEFINE times == [v \in Nat |-> BASE * v]
           Is(f) == f = [k \in Nat |-> IF k = 0 THEN 1 ELSE BASE * f[k - 1]]
<1>1. \E f \in [Nat -> Nat] : Iterates(f, 1, times)
  <2>1. times \in [Nat -> Nat]
    BY <1>b
  <2> HIDE DEF times
  <2> QED
    BY <2>1, RecursionNat
<1>2. PICK f \in [Nat -> Nat] : Iterates(f, 1, times)
  BY <1>1
<1>3. ASSUME NEW k \in Nat, k # 0 PROVE f[k] = BASE * f[k - 1]
  <2>1. k - 1 \in Nat
    BY <1>3
  <2>2. f[k] = times[f[k - 1]]
    <3> HIDE DEF times
    <3> QED
      BY <1>2, <1>3 DEF Iterates
  <2> QED
    BY <2>1, <2>2
<1>4. Is(f)
  <2>1. f[0] = 1
    <3> HIDE DEF times
    <3> QED
      BY <1>2 DEF Iterates
  <2>2. f = [k \in Nat |-> f[k]]
    OBVIOUS
  <2> QED
    BY <1>3, <2>1, <2>2
<1>5. Is(Power)
  <2>1. Power = CHOOSE g : Is(g)
    BY DEF Power
  <2> HIDE DEF Is
  <2> QED
    BY <1>4, <2>1
<1>6. Power[0] = 1 /\ \A k \in Nat : Power[k + 1] = BASE * Power[k]
  <2>1. Power[0] = 1
    BY <1>5
  <2>2. ASSUME NEW k \in Nat PROVE Power[k + 1] = BASE * Power[k]
    <3>1. k + 1 \in Nat /\ k + 1 # 0 /\ (k + 1) - 1 = k
      OBVIOUS
    <3> QED
      BY <1>5, <3>1
  <2> QED
    BY <2>1, <2>2
<1>7. ASSUME NEW k \in Nat PROVE Power[k] \in Nat /\ Power[k] >= 1
  <2> DEFINE P == {i \in Nat : Power[i] \in Nat /\ Power[i] >= 1}
  <2>1. 0 \in P
    BY <1>6
  <2>2. ASSUME NEW i \in 1..k, i - 1 \in P PROVE i \in P
    <3>1. i \in Nat /\ i - 1 \in Nat /\ (i - 1) + 1 = i
      OBVIOUS
    <3>2. Power[i] = BASE * Power[i - 1]
      BY <1>6, <3>1
    <3>3. Power[i - 1] \in Nat /\ Power[i - 1] >= 1
      BY <2>2
    <3> DEFINE v == Power[i - 1]
    <3>4. BASE * v \in Nat /\ BASE * v >= 1
      <4> HIDE DEF v
      <4>1. v \in Nat /\ v >= 1
        BY <3>3 DEF v
      <4>2. BASE * v >= BASE * 1
        BY <1>b, <4>1
      <4> QED
        BY <1>b, <4>1, <4>2
    <3> QED
      BY <3>1, <3>2, <3>4
  <2>3. k \in P
    <3>1. k \in 0..k
      OBVIOUS
    <3> HIDE DEF P
    <3> QED
      BY <2>1, <2>2, <3>1, UpTo
  <2> QED
    BY <2>3
<1>8. Power \in [Nat -> Nat]
  <2>1. Power = [k \in Nat |-> Power[k]]
    BY <1>5
  <2> QED
    BY <1>7, <2>1
<1> QED
  BY <1>6, <1>7, <1>8

LEMMA QuotientsOf ==
  ASSUME NEW n \in Nat
  PROVE  /\ Quotients(n) \in [Nat -> Nat] /\ Quotients(n)[0] = n
         /\ \A i \in Nat : Quotients(n)[i + 1] = Quotients(n)[i] \div BASE
<1> DEFINE divided == [v \in Nat |-> v \div BASE]
           Is(f) == f = [i \in Nat |-> IF i = 0 THEN n ELSE f[i - 1] \div BASE]
<1>1. divided \in [Nat -> Nat]
  BY Divided
<1>2. PICK f \in [Nat -> Nat] : Iterates(f, n, divided)
  <2> HIDE DEF divided
  <2> QED
    BY <1>1, RecursionNat
<1>3. ASSUME NEW k \in Nat, k # 0 PROVE f[k] = f[k - 1] \div BASE
  <2>1. k - 1 \in Nat
    BY <1>3
  <2>2. f[k] = divided[f[k - 1]]
    <3> HIDE DEF divided
    <3> QED
      BY <1>2, <1>3 DEF Iterates
  <2> QED
    BY <2>1, <2>2
<1>4. Is(f)
  <2>1. f[0] = n
    <3> HIDE DEF divided
    <3> QED
      BY <1>2 DEF Iterates
  <2>2. f = [k \in Nat |-> f[k]]
    OBVIOUS
  <2> QED
    BY <1>3, <2>1, <2>2
<1>5. Is(Quotients(n))
  <2>1. Quotients(n) = CHOOSE g : Is(g)
    BY DEF Quotients
  <2> HIDE DEF Is
  <2> QED
    BY <1>4, <2>1
<1> DEFINE q == Quotients(n)
<1>6. Is(q)
  BY <1>5
<1> HIDE DEF q
<1>7. q[0] = n
  BY <1>6
<1>8. ASSUME NEW k \in Nat PROVE q[k + 1] = q[k] \div BASE
  <2>1. k + 1 \in Nat /\ k + 1 # 0 /\ (k + 1) - 1 = k
    OBVIOUS
  <2> QED
    BY <1>6, <2>1
<1>9. ASSUME NEW k \in Nat PROVE q[k] \in Nat
  <2> DEFINE P == {i \in Nat : q[i] \in Nat}
  <2>1. 0 \in P
    BY <1>7
  <2>2. ASSUME NEW i \in 1..k, i - 1 \in P PROVE i \in P
    <3>1. i \in Nat /\ i - 1 \in Nat /\ (i - 1) + 1 = i
      OBVIOUS
    <3>2. q[i] = q[i - 1] \div BASE
      BY <1>8, <3>1
    <3>3. q[i - 1] \in Nat
      BY <2>2
    <3> QED
      BY <3>1, <3>2, <3>3, Divided
  <2>3. k \in P
    <3>1. k \in 0..k
      OBVIOUS
    <3> HIDE DEF P
    <3> QED
      BY <2>1, <2>2, <3>1, UpTo
  <2> QED
    BY <2>3
<1>10. q \in [Nat -> Nat]
  <2>1. q = [k \in Nat |-> q[k]]
    BY <1>6
  <2> QED
    BY <1>9, <2>1
<1> QED
  BY <1>7, <1>8, <1>10 DEF q

\* The divisions of n reach 0, where the count stops: cpt is the number of digits.
LEMMA CountOf ==
  ASSUME NEW n \in Int, NEW a \in Nat, a = Abs(n), NEW cpt, cpt = ft_count_integer(n)
  PROVE  /\ cpt \in Nat /\ cpt >= 1
         /\ Quotients(a)[cpt] = 0 /\ \A k \in 1..cpt-1 : Quotients(a)[k] # 0
<1> DEFINE q == Quotients(a)
           T == {i \in 1..a+1 : q[i] = 0}
<1>q. q \in [Nat -> Nat] /\ q[0] = a /\ \A i \in Nat : q[i + 1] = q[i] \div BASE
  BY QuotientsOf
<1>d. cpt = CHOOSE i \in 1..a+1 : q[i] = 0 /\ \A k \in 1..i-1 : q[k] # 0
  BY DEF ft_count_integer
<1> HIDE DEF q
<1>1. \A i \in 0..a+1 : q[i] = 0 \/ q[i] + i <= a
  <2> DEFINE P == {i \in 0..a+1 : q[i] = 0 \/ q[i] + i <= a}
  <2>1. 0 \in P
    BY <1>q
  <2>2. ASSUME NEW i \in 1..a+1, i - 1 \in P PROVE i \in P
    <3>1. i - 1 \in Nat /\ (i - 1) + 1 = i /\ i \in 0..a+1
      OBVIOUS
    <3>2. q[i] = q[i - 1] \div BASE /\ q[i - 1] \in Nat /\ q[i] \in Nat
      BY <1>q, <3>1
    <3>3. q[i - 1] = 0 \/ q[i - 1] + (i - 1) <= a
      BY <2>2
    <3> DEFINE v == q[i - 1]
               w == q[i]
    <3>4. v \in Nat /\ w \in Nat /\ (v # 0 => w < v) /\ (v = 0 => w = 0) /\ (v = 0 \/ v + (i - 1) <= a)
      <4>1. BASE > 0
        BY IntAssumption
      <4> QED
        BY <3>2, <3>3, <4>1, Divided
    <3> HIDE DEF v, w
    <3>5. w = 0 \/ w + i <= a
      BY <3>4
    <3> QED
      BY <3>1, <3>5 DEF w
  <2>3. a + 1 \in Nat
    OBVIOUS
  <2>4. \A i \in 0..a+1 : i \in P
    <3> HIDE DEF P
    <3> QED
      BY <2>1, <2>2, <2>3, UpTo
  <2> QED
    BY <2>4
<1>2. a + 1 \in T
  <2>1. a + 1 \in 0..a+1 /\ a + 1 \in Nat
    OBVIOUS
  <2>2. q[a + 1] \in Nat /\ (q[a + 1] = 0 \/ q[a + 1] + (a + 1) <= a)
    BY <1>q, <1>1, <2>1
  <2>3. q[a + 1] = 0
    BY <2>2
  <2> QED
    BY <2>3
<1>3. PICK c \in T : \A i \in T : c <= i
  <2>1. T \subseteq Nat
    OBVIOUS
  <2> HIDE DEF T
  <2> QED
    BY <1>2, <2>1, LeastNat
<1>4. c \in 1..a+1 /\ q[c] = 0 /\ \A k \in 1..c-1 : q[k] # 0
  <2>1. c \in 1..a+1 /\ q[c] = 0
    OBVIOUS
  <2>2. ASSUME NEW k \in 1..c-1 PROVE q[k] # 0
    <3>1. k \in 1..a+1 /\ ~(c <= k)
      BY <2>1
    <3>2. k \notin T
      <4> HIDE DEF T
      <4> QED
        BY <1>3, <3>1
    <3> QED
      BY <3>1, <3>2
  <2> QED
    BY <2>1, <2>2
<1>5. cpt \in 1..a+1 /\ q[cpt] = 0 /\ \A k \in 1..cpt-1 : q[k] # 0
  BY <1>4, <1>d
<1> QED
  BY <1>5 DEF q

\* f[k] is the value of the first k digits of d.
Reads(f, d, base) ==
  /\ f \in [0..Len(d) -> Nat] /\ f[0] = 0
  /\ \A k \in 1..Len(d) : f[k] = f[k - 1] * base + d[k]

LEMMA ValueIs ==
  ASSUME NEW d \in Seq(Nat), NEW base \in Nat, NEW f, Reads(f, d, base)
  PROVE  ValueOf(d, base) = f[Len(d)] /\ ValueOf(d, base) \in Nat
<1> DEFINE n == Len(d)
           Is(g) == g = [k \in 0..n |-> IF k = 0 THEN 0 ELSE g[k - 1] * base + d[k]]
<1>n. n \in Nat
  OBVIOUS
<1>1. Is(f)
  <2>1. f = [k \in 0..n |-> f[k]]
    BY DEF Reads
  <2>2. ASSUME NEW k \in 0..n PROVE f[k] = IF k = 0 THEN 0 ELSE f[k - 1] * base + d[k]
    <3>1. k # 0 => k \in 1..n
      OBVIOUS
    <3> QED
      BY <3>1 DEF Reads
  <2> HIDE DEF n
  <2> QED
    BY <2>1, <2>2
<1>2. PICK g : g = CHOOSE h : Is(h)
  OBVIOUS
<1>3. Is(g)
  <2> HIDE DEF Is
  <2> QED
    BY <1>1, <1>2
<1>4. ValueOf(d, base) = g[n]
  BY <1>2 DEF ValueOf
<1>5. n \in {i \in 0..n : f[i] = g[i]}
  <2> DEFINE P == {i \in 0..n : f[i] = g[i]}
  <2>1. 0 \in P
    BY <1>1, <1>3
  <2>2. ASSUME NEW i \in 1..n, i - 1 \in P PROVE i \in P
    <3>1. i \in 0..n /\ i # 0
      OBVIOUS
    <3> QED
      BY <1>1, <1>3, <2>2, <3>1
  <2>3. n \in P
    <3>1. n \in 0..n
      OBVIOUS
    <3> HIDE DEF P, n
    <3> QED
      BY <1>n, <2>1, <2>2, <3>1, UpTo
  <2> QED
    BY <2>3
<1>6. f[n] \in Nat
  <2>1. n \in 0..n
    OBVIOUS
  <2> QED
    BY <2>1 DEF Reads
<1> QED
  BY <1>4, <1>5, <1>6

LEMMA ValueReads ==
  ASSUME NEW d \in Seq(Nat), NEW base \in Nat
  PROVE  \E f : Reads(f, d, base) /\ f[Len(d)] = ValueOf(d, base)
<1> DEFINE n == Len(d)
           step == [p \in (1..n) \X Nat |-> p[2] * base + d[p[1]]]
<1>n. n \in Nat
  OBVIOUS
<1>1. step \in [(1..n) \X Nat -> Nat]
  <2>1. ASSUME NEW p \in (1..n) \X Nat PROVE p[2] * base + d[p[1]] \in Nat
    <3>1. p[1] \in 1..n /\ p[2] \in Nat
      OBVIOUS
    <3>2. d[p[1]] \in Nat
      BY <3>1
    <3> DEFINE u == p[2]
               v == d[p[1]]
    <3>3. u \in Nat /\ v \in Nat
      BY <3>1, <3>2
    <3> HIDE DEF u, v
    <3>4. u * base + v \in Nat
      BY <3>3
    <3> QED
      BY <3>4 DEF u, v
  <2> HIDE DEF n
  <2> QED
    BY <2>1
<1>2. PICK f \in [0..n -> Nat] : CountsUp(f, n, 0, step)
  <2> HIDE DEF step, n
  <2> QED
    BY <1>n, <1>1, RecursionUp
<1>3. f[0] = 0
  <2>1. 0 \in 0..n
    OBVIOUS
  <2> HIDE DEF step, n
  <2> QED
    BY <1>2, <2>1 DEF CountsUp
<1>4. ASSUME NEW k \in 1..n PROVE f[k] = f[k - 1] * base + d[k]
  <2>1. k \in 0..n /\ k - 1 \in 0..n /\ k # 0
    BY <1>n
  <2>2. f[k - 1] \in Nat
    BY <2>1
  <2>3. f[k] = step[<<k, f[k - 1]>>]
    <3> HIDE DEF step, n
    <3> QED
      BY <1>2, <2>1 DEF CountsUp
  <2> HIDE DEF n
  <2> QED
    BY <2>2, <2>3
<1>5. Reads(f, d, base)
  BY <1>3, <1>4 DEF Reads
<1> QED
  BY <1>5, ValueIs

LEMMA ValueOfConcat ==
  ASSUME NEW u \in Seq(Nat), NEW v \in Seq(Nat)
  PROVE  ValueOf(u \o v, BASE) = ValueOf(u, BASE) * Power[Len(v)] + ValueOf(v, BASE)
<1> DEFINE m == Len(u)
           n == Len(v)
           w == u \o v
<1>b. BASE \in Nat
  BY IntAssumption
<1>n. m \in Nat /\ n \in Nat /\ Len(w) = m + n /\ w \in Seq(Nat)
  BY ConcatProperties
<1>w. /\ \A k \in 1..m : w[k] = u[k]
      /\ \A k \in 1..n : w[m + k] = v[k]
  BY ConcatProperties
<1>1. PICK f : Reads(f, u, BASE) /\ f[m] = ValueOf(u, BASE)
  BY <1>b, ValueReads
<1>2. PICK g : Reads(g, v, BASE) /\ g[n] = ValueOf(v, BASE)
  BY <1>b, ValueReads
<1>f. f \in [0..m -> Nat] /\ f[0] = 0 /\ \A k \in 1..m : f[k] = f[k - 1] * BASE + u[k]
  BY <1>1 DEF Reads
<1>g. g \in [0..n -> Nat] /\ g[0] = 0 /\ \A k \in 1..n : g[k] = g[k - 1] * BASE + v[k]
  BY <1>2 DEF Reads
<1> DEFINE h == [k \in 0..m+n |-> IF k <= m THEN f[k] ELSE f[m] * Power[k - m] + g[k - m]]
<1> HIDE DEF m, n, w
<1>3. \A k \in 0..n : h[m + k] = f[m] * Power[k] + g[k]
  <2>1. ASSUME NEW k \in 0..n PROVE h[m + k] = f[m] * Power[k] + g[k]
    <3>1. m + k \in 0..m+n /\ (m + k) - m = k /\ f[m] \in Nat
      <4>1. m \in 0..m
        BY <1>n
      <4> QED
        BY <1>n, <1>f, <4>1
    <3>2. CASE k = 0
      <4> DEFINE a == f[m]
      <4>1. a \in Nat /\ m + k = m /\ m + k <= m /\ Power[k] = 1 /\ g[k] = 0
        BY <1>n, <1>g, <3>1, <3>2, PowerFacts
      <4>2. h[m + k] = f[m + k]
        BY <3>1, <4>1
      <4>3. h[m + k] = a
        BY <4>1, <4>2
      <4> HIDE DEF h, a
      <4>4. a * 1 + 0 = a
        BY <4>1
      <4>5. h[m + k] = a * Power[k] + g[k]
        BY <4>1, <4>3, <4>4
      <4> QED
        BY <4>5 DEF a
    <3>3. CASE k # 0
      <4>1. ~(m + k <= m)
        BY <1>n, <3>3
      <4> QED
        BY <3>1, <4>1
    <3> QED
      BY <3>2, <3>3
  <2> QED
    BY <2>1
<1>4. h \in [0..m+n -> Nat]
  <2>1. ASSUME NEW k \in 0..m+n PROVE h[k] \in Nat
    <3>1. CASE k <= m
      <4>1. k \in 0..m
        BY <1>n, <3>1
      <4> QED
        BY <1>f, <3>1, <4>1
    <3>2. CASE ~(k <= m)
      <4>1. k - m \in 0..n /\ m + (k - m) = k /\ k - m \in Nat /\ m \in 0..m
        BY <1>n, <3>2
      <4>2. h[k] = f[m] * Power[k - m] + g[k - m] /\ f[m] \in Nat /\ Power[k - m] \in Nat /\ g[k - m] \in Nat
        BY <1>3, <1>f, <1>g, <4>1, PowerFacts
      <4> DEFINE x == f[m]
                 y == Power[k - m]
                 z == g[k - m]
      <4>3. x \in Nat /\ y \in Nat /\ z \in Nat /\ h[k] = x * y + z
        BY <4>2
      <4> HIDE DEF x, y, z, h
      <4> DEFINE xy == x * y
      <4>4. xy \in Nat /\ h[k] = xy + z
        BY <4>3
      <4> HIDE DEF xy
      <4> QED
        BY <4>3, <4>4
    <3> QED
      BY <3>1, <3>2
  <2> QED
    BY <2>1
<1>5. ASSUME NEW k \in 1..m+n PROVE h[k] = h[k - 1] * BASE + w[k]
  <2>1. CASE k <= m
    <3>1. k \in 1..m /\ k \in 0..m+n /\ k - 1 \in 0..m+n /\ k - 1 <= m
      BY <1>n, <2>1
    <3> QED
      BY <1>f, <1>w, <2>1, <3>1
  <2>2. CASE ~(k <= m)
    <3> DEFINE j == k - m
    <3>1. j \in 1..n /\ j \in 0..n /\ j - 1 \in 0..n /\ k = m + j /\ k - 1 = m + (j - 1) /\ j - 1 \in Nat /\ (j - 1) + 1 = j /\ m \in 0..m
      BY <1>n, <2>2
    <3> HIDE DEF j
    <3>2. h[k] = f[m] * Power[j] + g[j] /\ h[k - 1] = f[m] * Power[j - 1] + g[j - 1]
      BY <1>3, <3>1
    <3>3. Power[j] = BASE * Power[j - 1] /\ g[j] = g[j - 1] * BASE + v[j] /\ w[k] = v[j]
      BY <1>g, <1>w, <3>1, PowerFacts
    <3>4. f[m] \in Nat /\ Power[j - 1] \in Nat /\ g[j - 1] \in Nat /\ v[j] \in Nat
      <4>1. v[j] \in Nat
        BY <3>1 DEF n
      <4> QED
        BY <1>f, <1>g, <3>1, <4>1, PowerFacts
    <3> DEFINE a == f[m]
               p == Power[j - 1]
               e == g[j - 1]
               x == v[j]
    <3>5. a \in Nat /\ p \in Nat /\ e \in Nat /\ x \in Nat
      BY <3>4
    <3>6. h[k] = a * (BASE * p) + (e * BASE + x) /\ h[k - 1] = a * p + e /\ w[k] = x
      BY <3>2, <3>3
    <3> HIDE DEF a, p, e, x, h
    <3>7. a * (BASE * p) + (e * BASE + x) = (a * p + e) * BASE + x
      BY <1>b, <3>5
    <3> QED
      BY <3>6, <3>7
  <2> QED
    BY <2>1, <2>2
<1>6. h[0] = 0
  <2>1. 0 \in 0..m+n /\ 0 <= m
    BY <1>n
  <2> QED
    BY <1>f, <2>1
<1>7. Reads(h, w, BASE)
  <2> HIDE DEF h
  <2> QED
    BY <1>n, <1>4, <1>5, <1>6 DEF Reads
<1>8. ValueOf(w, BASE) = h[m + n]
  <2> HIDE DEF h
  <2> QED
    BY <1>b, <1>n, <1>7, ValueIs
<1>9. n \in 0..n
  BY <1>n
<1> HIDE DEF h
<1> QED
  BY <1>1, <1>2, <1>3, <1>8, <1>9 DEF m, n, w

LEMMA ValueOfNone == ValueOf(<<>>, BASE) = 0
<1>b. BASE \in Nat
  BY IntAssumption
<1> DEFINE f == [k \in 0..0 |-> 0]
<1>1. Reads(f, <<>>, BASE) /\ f[0] = 0
  BY DEF Reads
<1>2. <<>> \in Seq(Nat) /\ Len(<<>>) = 0
  OBVIOUS
<1> HIDE DEF f
<1>3. ValueOf(<<>>, BASE) = f[Len(<<>>)]
  BY <1>b, <1>1, <1>2, ValueIs
<1> QED
  BY <1>1, <1>2, <1>3

\* The digits the loop of ft_itoa writes, from the last one to the first.
LEMMA ItoaDigits ==
  ASSUME NEW nb \in Nat, NEW cpt \in Nat, cpt >= 1, Quotients(nb)[cpt] = 0,
         \A k \in 1..cpt-1 : Quotients(nb)[k] # 0
  PROVE  /\ itoa_digits(nb, cpt) \in Seq(Digits) /\ Len(itoa_digits(nb, cpt)) = cpt
         /\ ValueOf(itoa_digits(nb, cpt), BASE) = nb
         /\ cpt > 1 => itoa_digits(nb, cpt)[1] # 0
<1> DEFINE q == Quotients(nb)
           d == [k \in 1..cpt |-> q[cpt - k] % BASE]
<1>b. BASE \in Nat /\ BASE >= 2
  BY IntAssumption
<1>q. q \in [Nat -> Nat] /\ q[0] = nb /\ \A i \in Nat : q[i + 1] = q[i] \div BASE
  BY QuotientsOf
<1>c. q[cpt] = 0 /\ \A k \in 1..cpt-1 : q[k] # 0
  OBVIOUS
<1>d. itoa_digits(nb, cpt) = d
  BY DEF itoa_digits
<1> HIDE DEF q
<1>1. ASSUME NEW k \in 1..cpt
      PROVE  cpt - k \in Nat /\ d[k] = q[cpt - k] % BASE /\ d[k] \in Digits /\ d[k] \in Nat
  <2>1. cpt - k \in Nat
    OBVIOUS
  <2>2. q[cpt - k] \in Nat
    BY <1>q, <2>1
  <2> QED
    BY <2>1, <2>2, Divided
<1>2. d \in Seq(Digits) /\ d \in Seq(Nat) /\ Len(d) = cpt
  BY <1>1
<1> DEFINE f == [k \in 0..cpt |-> q[cpt - k]]
<1>3. \A k \in 0..cpt : f[k] = q[cpt - k] /\ f[k] \in Nat
  BY <1>q
<1>4. ASSUME NEW k \in 1..cpt PROVE f[k] = f[k - 1] * BASE + d[k]
  <2> DEFINE j == cpt - k
  <2>1. j \in Nat /\ k - 1 \in 0..cpt /\ k \in 0..cpt /\ cpt - (k - 1) = j + 1
    OBVIOUS
  <2>2. f[k] = q[j] /\ f[k - 1] = q[j + 1] /\ d[k] = q[j] % BASE
    BY <1>1, <1>3, <2>1
  <2>3. q[j + 1] = q[j] \div BASE /\ q[j] \in Nat
    BY <1>q, <2>1
  <2> DEFINE x == q[j]
  <2>4. x \in Nat /\ f[k] = x /\ f[k - 1] = x \div BASE /\ d[k] = x % BASE
    BY <2>2, <2>3
  <2> HIDE DEF x, f, d
  <2>5. x = BASE * (x \div BASE) + (x % BASE) /\ x \div BASE \in Nat /\ x % BASE \in Nat
    BY <2>4, Divided
  <2> DEFINE y == x \div BASE
             z == x % BASE
  <2>6. y \in Nat /\ z \in Nat /\ x = BASE * y + z /\ f[k] = x /\ f[k - 1] = y /\ d[k] = z
    BY <2>4, <2>5
  <2> HIDE DEF y, z
  <2> QED
    BY <1>b, <2>6
<1>5. Reads(f, d, BASE) /\ f[Len(d)] = nb
  <2>1. f \in [0..cpt -> Nat]
    BY <1>3
  <2>2. f[0] = 0 /\ f[cpt] = nb
    BY <1>3, <1>c, <1>q
  <2> HIDE DEF f, d
  <2> QED
    BY <1>2, <1>4, <2>1, <2>2 DEF Reads
<1>6. ValueOf(d, BASE) = nb
  <2> HIDE DEF f, d
  <2> QED
    BY <1>b, <1>2, <1>5, ValueIs
<1>7. ASSUME cpt > 1 PROVE d[1] # 0
  <2>1. cpt - 1 \in 1..cpt-1 /\ cpt - 1 \in Nat /\ (cpt - 1) + 1 = cpt /\ 1 \in 1..cpt
    BY <1>7
  <2>2. q[cpt - 1] # 0 /\ q[cpt - 1] \in Nat /\ q[cpt - 1] \div BASE = 0 /\ d[1] = q[cpt - 1] % BASE
    BY <1>c, <1>q, <1>1, <2>1
  <2> QED
    BY <2>2, Divided
<1> HIDE DEF d
<1> QED
  BY <1>2, <1>6, <1>7, <1>d

LEMMA NumberOctets ==
  /\ BASE \in Nat /\ BASE >= 2 /\ INT_MAX \in Nat /\ Digits \subseteq Nat /\ Digits \subseteq Octets
  /\ MINUS \in Octets /\ PLUS \in Octets /\ DOT \in Octets
  /\ MINUS \notin Digits /\ PLUS \notin Digits /\ DOT \notin Digits /\ MINUS # PLUS /\ MINUS # DOT
  /\ BLANK \notin Digits \cup {MINUS, PLUS, DOT} /\ NUL \notin Octets
  /\ Digits \cup {MINUS, PLUS, DOT} \subseteq Letters
BY IntAssumption, OctetsAssumption DEF Digits, Octets

LEMMA Prefixed ==
  ASSUME NEW S, NEW x \in S, NEW d \in Seq(S)
  PROVE  /\ <<x>> \o d \in Seq(S) /\ Len(<<x>> \o d) = Len(d) + 1 /\ (<<x>> \o d)[1] = x
         /\ \A k \in 1..Len(d) : (<<x>> \o d)[k + 1] = d[k]
         /\ Tail(<<x>> \o d) = d
<1> DEFINE s == <<x>> \o d
<1>1. <<x>> \in Seq(S) /\ Len(<<x>>) = 1 /\ <<x>>[1] = x /\ Len(d) \in Nat
  OBVIOUS
<1>2. s \in Seq(S) /\ Len(s) = Len(d) + 1
  BY <1>1, ConcatProperties
<1>3. \A i \in 1..Len(d)+1 : s[i] = IF i <= 1 THEN <<x>>[i] ELSE d[i - 1]
  <2>1. Len(<<x>>) + Len(d) = Len(d) + 1
    BY <1>1
  <2>2. \A i \in 1..Len(<<x>>)+Len(d) : s[i] = IF i <= Len(<<x>>) THEN <<x>>[i] ELSE d[i - Len(<<x>>)]
    BY <1>1, ConcatProperties
  <2> HIDE DEF s
  <2> QED
    BY <1>1, <2>1, <2>2
<1> HIDE DEF s
<1>4. s[1] = x
  BY <1>1, <1>3
<1>5. ASSUME NEW k \in 1..Len(d) PROVE s[k + 1] = d[k]
  <2>1. k + 1 \in 1..Len(d)+1 /\ ~(k + 1 <= 1) /\ (k + 1) - 1 = k
    BY <1>1
  <2> QED
    BY <1>3, <2>1
<1>6. Tail(s) = d
  <2>1. s # <<>>
    BY <1>1, <1>2
  <2>2. Tail(s) \in Seq(S) /\ Len(Tail(s)) = Len(d) /\ \A i \in 1..Len(Tail(s)) : Tail(s)[i] = s[i + 1]
    BY <1>1, <1>2, <2>1, HeadTailProperties
  <2> QED
    BY <1>5, <2>2, SeqEqual
<1> QED
  BY <1>2, <1>4, <1>5, <1>6 DEF s

\* What ft_itoa and ft_putnbr write is a sign, if any, and the digits.
Text(nb, d) == IF nb < 0 THEN <<MINUS>> \o d ELSE d
Shortest(d, nb) ==
  /\ d \in Seq(Digits) /\ Len(d) >= 1 /\ ValueOf(d, BASE) = Abs(nb) /\ (Len(d) > 1 => d[1] # 0)

LEMMA ItoaOf ==
  ASSUME NEW nb \in Int
  PROVE  /\ Shortest(itoa_digits(Abs(nb), ft_count_integer(nb)), nb)
         /\ ft_itoa(nb) = Text(nb, itoa_digits(Abs(nb), ft_count_integer(nb)))
<1> DEFINE a == Abs(nb)
           cpt == ft_count_integer(nb)
           d == itoa_digits(a, cpt)
           q == Quotients(a)
<1>a. a \in Nat /\ (nb < 0 => a = -nb) /\ (~(nb < 0) => a = nb)
  BY DEF Abs
<1>1. cpt \in Nat /\ cpt >= 1 /\ q[cpt] = 0 /\ \A k \in 1..cpt-1 : q[k] # 0
  BY <1>a, CountOf
<1> HIDE DEF cpt, a
<1>2. /\ d \in Seq(Digits) /\ Len(d) = cpt /\ ValueOf(d, BASE) = a /\ (cpt > 1 => d[1] # 0)
  BY <1>1, <1>a, ItoaDigits
<1>3. Shortest(d, nb)
  <2> HIDE DEF d
  <2> QED
    BY <1>1, <1>2 DEF Shortest, a
<1>4. CASE nb < 0
  <2> DEFINE e == itoa_digits(a, cpt + 1)
             s == <<MINUS>> \o d
             g == [k \in 1..cpt+1 |-> IF k = 1 THEN MINUS ELSE q[(cpt + 1) - k] % BASE]
  <2>1. ft_itoa(nb) = [e EXCEPT ![1] = MINUS]
    BY <1>a, <1>4 DEF ft_itoa, cpt
  <2>2. [e EXCEPT ![1] = MINUS] = g
    BY DEF itoa_digits
  <2>3. d \in Seq(Octets) /\ MINUS \in Octets /\ Len(d) = cpt
    <3> HIDE DEF d
    <3> QED
      BY <1>2, NumberOctets, SeqMonotonic
  <2>4. \A k \in 1..cpt : d[k] = q[cpt - k] % BASE
    BY DEF itoa_digits
  <2> HIDE DEF d, e, q
  <2>5. s \in Seq(Octets) /\ Len(s) = cpt + 1 /\ s[1] = MINUS /\ \A k \in 1..cpt : s[k + 1] = d[k]
    BY <2>3, Prefixed
  <2> HIDE DEF s
  <2>6. ASSUME NEW k \in 1..cpt+1 PROVE g[k] = s[k]
    <3>1. CASE k = 1
      BY <2>5, <3>1
    <3>2. CASE k # 1
      <4>1. k - 1 \in 1..cpt /\ (k - 1) + 1 = k /\ cpt - (k - 1) = (cpt + 1) - k
        BY <1>1, <3>2
      <4>2. s[k] = q[(cpt + 1) - k] % BASE
        BY <2>4, <2>5, <4>1
      <4> QED
        BY <3>2, <4>2
    <3> QED
      BY <3>1, <3>2
  <2>7. s = [k \in 1..cpt+1 |-> s[k]]
    BY <2>5, LenProperties
  <2>8. s = g
    <3>1. g = [k \in 1..cpt+1 |-> g[k]]
      OBVIOUS
    <3> HIDE DEF g
    <3> QED
      BY <2>6, <2>7, <3>1
  <2> HIDE DEF g
  <2> QED
    BY <1>3, <1>4, <2>1, <2>2, <2>8 DEF Text, s, d, cpt, a
<1>5. CASE ~(nb < 0)
  <2>1. ft_itoa(nb) = d
    BY <1>a, <1>5 DEF ft_itoa, cpt
  <2> HIDE DEF d
  <2> QED
    BY <1>3, <1>5, <2>1 DEF Text, d, cpt, a
<1> QED
  BY <1>4, <1>5

LEMMA CountIs ==
  ASSUME NEW nb \in Nat, NEW cpt \in Nat, cpt >= 1, Quotients(nb)[cpt] = 0,
         \A k \in 1..cpt-1 : Quotients(nb)[k] # 0
  PROVE  ft_count_integer(nb) = cpt
<1> DEFINE e == ft_count_integer(nb)
           q == Quotients(nb)
<1>1. nb = Abs(nb)
  BY DEF Abs
<1>2. e \in Nat /\ e >= 1 /\ q[e] = 0 /\ \A k \in 1..e-1 : q[k] # 0
  BY <1>1, CountOf
<1>3. q[cpt] = 0 /\ \A k \in 1..cpt-1 : q[k] # 0
  OBVIOUS
<1> HIDE DEF q, e
<1>4. cpt \notin 1..e-1 /\ e \notin 1..cpt-1
  BY <1>2, <1>3
<1>5. cpt = e
  BY <1>2, <1>4
<1> QED
  BY <1>5 DEF e

\* The recursion of ft_putnbr ends with the same digits as the loop of ft_itoa.
LEMMA PutnbrDigits ==
  ASSUME NEW nb \in 0..INT_MAX
  PROVE  putnbr_digits[nb] = itoa_digits(nb, ft_count_integer(nb))
<1> DEFINE D == 0..INT_MAX
           P == [n \in D |-> itoa_digits(n, ft_count_integer(n))]
           Is(f) == f = [n \in D |-> IF n >= BASE THEN Append(f[n \div BASE], n % BASE) ELSE <<n>>]
<1>b. BASE \in Nat /\ BASE >= 2 /\ INT_MAX \in Nat
  BY NumberOctets
<1>1. ASSUME NEW n \in D
      PROVE  P[n] = IF n >= BASE THEN Append(P[n \div BASE], n % BASE) ELSE <<n>>
  <2> DEFINE q == Quotients(n)
             c == ft_count_integer(n)
  <2>n. n \in Nat /\ n = Abs(n)
    BY <1>b DEF Abs
  <2>q. q \in [Nat -> Nat] /\ q[0] = n /\ \A i \in Nat : q[i + 1] = q[i] \div BASE
    BY <2>n, QuotientsOf
  <2>p. P[n] = [k \in 1..c |-> q[c - k] % BASE]
    BY DEF itoa_digits
  <2>1. CASE n < BASE
    <3>1. n \div BASE = 0 /\ n % BASE = n
      BY <2>1, <2>n, Divided
    <3>2. q[1] = 0
      <4>1. q[0 + 1] = q[0] \div BASE
        BY <2>q
      <4> HIDE DEF q
      <4> QED
        BY <2>q, <3>1, <4>1
    <3>3. c = 1
      BY <2>n, <3>2, CountIs
    <3> HIDE DEF P, q, c
    <3>4. \A k \in 1..1 : q[1 - k] % BASE = n
      BY <2>q, <3>1
    <3>5. P[n] = [k \in 1..1 |-> n]
      BY <2>p, <3>3, <3>4
    <3>6. <<n>> = [k \in 1..1 |-> n]
      OBVIOUS
    <3> QED
      BY <1>b, <2>n, <2>1, <3>5, <3>6
  <2>2. CASE ~(n < BASE)
    <3> DEFINE m == n \div BASE
               r == Quotients(m)
               e == ft_count_integer(m)
    <3>m. m \in Nat /\ m # 0 /\ m < n /\ m \in D /\ n % BASE \in Digits
      <4>1. m \in Nat /\ m # 0 /\ m < n /\ n % BASE \in Digits
        BY <1>b, <2>2, <2>n, Divided
      <4> HIDE DEF m
      <4> QED
        BY <1>b, <2>n, <4>1
    <3>a. m = Abs(m)
      <4> HIDE DEF m
      <4> QED
        BY <3>m DEF Abs
    <3>r. r \in [Nat -> Nat] /\ r[0] = m /\ \A i \in Nat : r[i + 1] = r[i] \div BASE
      BY <3>m, QuotientsOf
    <3>e. e \in Nat /\ e >= 1 /\ r[e] = 0 /\ \A k \in 1..e-1 : r[k] # 0
      <4> HIDE DEF m
      <4> QED
        BY <3>m, <3>a, CountOf
    <3>0. q[0 + 1] = m
      BY <2>q
    <3>p. P[m] = [k \in 1..e |-> r[e - k] % BASE] /\ P[m] = itoa_digits(m, e)
      BY <3>m DEF itoa_digits
    <3>s. P[m] \in Seq(Digits) /\ Len(P[m]) = e
      <4> HIDE DEF P, m
      <4> QED
        BY <3>m, <3>e, <3>p, ItoaDigits
    <3>i. n = Abs(n) /\ n \in Nat /\ m = n \div BASE
      BY <2>n
    <3> HIDE DEF q, r, m, c, e, P
    <3>1. \A i \in 0..e : q[i + 1] = r[i]
      <4> DEFINE T == {i \in Nat : q[i + 1] = r[i]}
      <4>1. 0 \in T
        BY <3>0, <3>r
      <4>2. ASSUME NEW i \in 1..e, i - 1 \in T PROVE i \in T
        <5>1. i - 1 \in Nat /\ (i - 1) + 1 = i /\ i \in Nat
          BY <3>e
        <5>2. q[(i - 1) + 1] = r[i - 1]
          BY <4>2
        <5>3. q[i + 1] = q[i] \div BASE /\ r[i] = r[i - 1] \div BASE
          BY <2>q, <3>r, <5>1
        <5> QED
          BY <5>1, <5>2, <5>3
      <4>3. \A i \in 0..e : i \in T
        <5> HIDE DEF T
        <5> QED
          BY <3>e, <4>1, <4>2, UpTo
      <4> QED
        BY <4>3
    <3>2. q[e + 1] = 0
      BY <3>1, <3>e
    <3>3. ASSUME NEW k \in 1..(e + 1)-1 PROVE q[k] # 0
      <4>1. k - 1 \in 0..e /\ (k - 1) + 1 = k /\ (k # 1 => k - 1 \in 1..e-1)
        BY <3>e
      <4>2. q[k] = r[k - 1]
        BY <3>1, <4>1
      <4> QED
        BY <3>e, <3>m, <3>r, <4>1, <4>2
    <3>4. c = e + 1
      <4>1. e + 1 \in Nat /\ e + 1 >= 1
        BY <3>e
      <4> DEFINE c1 == e + 1
      <4> HIDE DEF c1
      <4>2. c1 \in Nat /\ c1 >= 1 /\ Quotients(n)[c1] = 0 /\ \A k \in 1..c1-1 : Quotients(n)[k] # 0
        BY <3>2, <3>3, <4>1 DEF c1, q
      <4>3. ft_count_integer(n) = c1
        BY <2>n, <4>2, CountIs
      <4> QED
        BY <4>3 DEF c1, c
    <3> DEFINE d == P[m]
               x == n % BASE
               t == Append(d, x)
    <3>5. t \in Seq(Digits) /\ Len(t) = e + 1 /\ t[e + 1] = x /\ \A k \in 1..e : t[k] = d[k]
      <4> HIDE DEF d
      <4>1. d \in Seq(Digits) /\ Len(d) = e
        BY <3>s DEF d
      <4>2. x \in Digits
        BY <3>m
      <4> HIDE DEF x
      <4> QED
        BY <3>e, <4>1, <4>2
    <3>6. t = [k \in 1..e+1 |-> t[k]]
      <4> HIDE DEF t
      <4> QED
        BY <3>5, LenProperties
    <3>7. \A k \in 1..e+1 : t[k] = q[(e + 1) - k] % BASE
      <4>1. ASSUME NEW k \in 1..e+1 PROVE t[k] = q[(e + 1) - k] % BASE
        <5>1. CASE k = e + 1
          <6>1. (e + 1) - k = 0
            BY <3>e, <5>1
          <6> HIDE DEF t
          <6> QED
            BY <2>q, <3>5, <5>1, <6>1
        <5>2. CASE k # e + 1
          <6>1. k \in 1..e /\ e - k \in 0..e /\ (e + 1) - k = (e - k) + 1
            BY <3>e, <5>2
          <6>2. t[k] = r[e - k] % BASE
            <7>1. t[k] = d[k]
              BY <3>5, <6>1
            <7> HIDE DEF t
            <7> QED
              BY <3>p, <6>1, <7>1
          <6> HIDE DEF t
          <6> QED
            BY <3>1, <6>1, <6>2
        <5> QED
          BY <5>1, <5>2
      <4> QED
        BY <4>1
    <3>8. P[n] = t
      <4> HIDE DEF t
      <4>1. P[n] = [k \in 1..e+1 |-> q[(e + 1) - k] % BASE]
        BY <2>p, <3>4
      <4> QED
        BY <3>6, <3>7, <4>1
    <3> QED
      BY <1>b, <2>2, <2>n, <3>8 DEF m
  <2> QED
    BY <2>1, <2>2
<1>2. Is(P)
  <2>1. P = [n \in D |-> P[n]]
    OBVIOUS
  <2> HIDE DEF P, D
  <2> QED
    BY <1>1, <2>1
<1>3. PICK g : g = putnbr_digits
  OBVIOUS
<1>4. Is(g)
  <2>1. g = CHOOSE f : Is(f)
    BY <1>3 DEF putnbr_digits
  <2> HIDE DEF Is, P
  <2> QED
    BY <1>2, <2>1
<1> DEFINE T == {n \in D : g[n] # P[n]}
<1>5. T = {}
  <2> SUFFICES ASSUME T # {} PROVE FALSE
    OBVIOUS
  <2>1. PICK n \in T : \A k \in T : n <= k
    <3>1. T \subseteq Nat
      BY <1>b
    <3> HIDE DEF T
    <3> QED
      BY <3>1, LeastNat
  <2>2. n \in D /\ g[n] # P[n]
    OBVIOUS
  <2>3. CASE n >= BASE
    <3> DEFINE m == n \div BASE
    <3>1. m \in D /\ ~(n <= m)
      <4>1. n \in Nat /\ n # 0
        BY <1>b, <2>2, <2>3
      <4>2. m \in Nat /\ m < n
        BY <4>1, Divided
      <4> HIDE DEF m
      <4> QED
        BY <1>b, <2>2, <4>1, <4>2
    <3>2. m \notin T
      <4> HIDE DEF T
      <4> QED
        BY <2>1, <3>1
    <3>3. g[m] = P[m]
      <4> HIDE DEF P
      <4> QED
        BY <3>1, <3>2
    <3>4. g[n] = Append(g[m], n % BASE)
      BY <1>4, <2>2, <2>3
    <3>5. P[n] = Append(P[m], n % BASE)
      <4> HIDE DEF P
      <4> QED
        BY <1>1, <2>2, <2>3
    <3> HIDE DEF P
    <3> QED
      BY <2>2, <3>3, <3>4, <3>5
  <2>4. CASE ~(n >= BASE)
    <3>1. g[n] = <<n>>
      BY <1>4, <2>2, <2>4
    <3> HIDE DEF P
    <3> QED
      BY <1>1, <2>2, <2>4, <3>1
  <2> QED
    BY <2>3, <2>4
<1>6. g[nb] = P[nb]
  <2> HIDE DEF P
  <2> QED
    BY <1>5
<1> QED
  BY <1>3, <1>6

\* INT_MIN is written in two parts, every other int as ft_itoa writes it.
LEMMA PutnbrOf ==
  ASSUME NEW nb \in INT_MIN..INT_MAX
  PROVE  \E d : Shortest(d, nb) /\ ft_putnbr(nb) = Text(nb, d)
<1>b. INT_MAX \in Nat /\ INT_MIN = -INT_MAX - 1 /\ nb \in Int
  BY NumberOctets DEF INT_MIN
<1> DEFINE a == Abs(nb)
           d == itoa_digits(a, ft_count_integer(nb))
<1>1. CASE nb # INT_MIN
  <2>1. a \in 0..INT_MAX /\ (nb < 0 => -nb = a) /\ (~(nb < 0) => nb = a) /\ Abs(a) = a
    BY <1>b, <1>1 DEF Abs
  <2>2. ft_count_integer(a) = ft_count_integer(nb)
    <3> HIDE DEF a
    <3> QED
      BY <2>1 DEF a, ft_count_integer
  <2>3. putnbr_digits[a] = d
    <3> HIDE DEF a
    <3> QED
      BY <2>1, <2>2, PutnbrDigits
  <2>4. Shortest(d, nb)
    BY <1>b, ItoaOf
  <2>5. ft_putnbr(nb) = Text(nb, d)
    <3> HIDE DEF a, d
    <3>1. ft_putnbr(nb) = IF nb < 0 THEN <<MINUS>> \o putnbr_digits[a] ELSE putnbr_digits[a]
      BY <1>1, <2>1 DEF ft_putnbr
    <3> QED
      BY <2>3, <3>1 DEF Text
  <2> QED
    BY <2>4, <2>5
<1>2. CASE nb = INT_MIN
  <2> DEFINE c == ft_count_integer(MIN_TAIL)
             t == itoa_digits(MIN_TAIL, c)
             e == <<MIN_HEAD>> \o t
  <2>a. /\ MIN_TAIL \in 0..INT_MAX /\ MIN_TAIL \in Nat /\ Abs(MIN_TAIL) = MIN_TAIL
        /\ MIN_HEAD \in Digits /\ MIN_HEAD # 0
        /\ MIN_HEAD * Power[c] + MIN_TAIL = INT_MAX + 1
    BY IntAssumption DEF Digits, Abs
  <2>1. Shortest(t, MIN_TAIL) /\ c \in Nat
    <3> HIDE DEF t
    <3>1. Shortest(t, MIN_TAIL)
      BY <2>a, ItoaOf DEF t
    <3> QED
      BY <2>a, <3>1, CountOf
  <2>2. putnbr_digits[MIN_TAIL] = t
    BY <2>a, PutnbrDigits
  <2>3. t \in Seq(Digits) /\ Len(t) >= 1 /\ ValueOf(t, BASE) = MIN_TAIL
    <3> HIDE DEF t
    <3> QED
      BY <2>a, <2>1 DEF Shortest
  <2>4. Len(t) = c
    <3>1. \A k \in 1..c : Quotients(MIN_TAIL)[c - k] % BASE \in Digits
      <4>1. ASSUME NEW k \in 1..c PROVE Quotients(MIN_TAIL)[c - k] % BASE \in Digits
        <5>1. c - k \in Nat
          BY <2>1
        <5> HIDE DEF c
        <5>2. Quotients(MIN_TAIL)[c - k] \in Nat
          BY <2>a, <5>1, QuotientsOf
        <5> QED
          BY <5>2, Divided
      <4> QED
        BY <4>1
    <3> HIDE DEF c
    <3> QED
      BY <2>1, <3>1 DEF itoa_digits
  <2> HIDE DEF t, c
  <2>5. e \in Seq(Digits) /\ Len(e) = Len(t) + 1 /\ e[1] = MIN_HEAD
    BY <2>a, <2>3, Prefixed
  <2>6. ValueOf(e, BASE) = INT_MAX + 1
    <3> DEFINE h == <<MIN_HEAD>>
    <3>1. h \in Seq(Nat) /\ t \in Seq(Nat) /\ Len(h) = 1
      <4>1. Digits \subseteq Nat
        BY NumberOctets
      <4>2. t \in Seq(Nat)
        BY <2>3, <4>1, SeqMonotonic
      <4>3. MIN_HEAD \in Nat
        BY <2>a, <4>1
      <4> QED
        BY <4>2, <4>3
    <3>2. ValueOf(h, BASE) = MIN_HEAD
      <4> DEFINE f == [k \in 0..1 |-> IF k = 0 THEN 0 ELSE MIN_HEAD]
      <4>1. MIN_HEAD \in Nat /\ BASE \in Nat
        BY <2>a, NumberOctets
      <4>2. Reads(f, h, BASE)
        <5>1. f \in [0..Len(h) -> Nat]
          BY <3>1, <4>1
        <5>2. f[0] = 0 /\ f[1] = MIN_HEAD /\ h[1] = MIN_HEAD
          OBVIOUS
        <5>3. ASSUME NEW k \in 1..Len(h) PROVE f[k] = f[k - 1] * BASE + h[k]
          <6>1. k = 1 /\ k - 1 = 0
            BY <3>1
          <6>2. 0 * BASE + MIN_HEAD = MIN_HEAD
            BY <4>1
          <6> HIDE DEF f, h
          <6> QED
            BY <5>2, <6>1, <6>2
        <5> HIDE DEF f, h
        <5> QED
          BY <5>1, <5>2, <5>3 DEF Reads
      <4>3. f[1] = MIN_HEAD
        OBVIOUS
      <4> HIDE DEF f, h
      <4> QED
        BY <3>1, <4>1, <4>2, <4>3, ValueIs
    <3> HIDE DEF h
    <3>3. ValueOf(h \o t, BASE) = ValueOf(h, BASE) * Power[Len(t)] + ValueOf(t, BASE)
      BY <3>1, ValueOfConcat
    <3> QED
      BY <2>a, <2>3, <2>4, <3>2, <3>3 DEF h
  <2>7. Shortest(e, nb)
    <3>1. Abs(nb) = INT_MAX + 1 /\ Len(t) \in Nat
      BY <1>b, <1>2, <2>3 DEF Abs
    <3> HIDE DEF e
    <3> QED
      BY <2>a, <2>3, <2>5, <2>6, <3>1 DEF Shortest
  <2>8. ft_putnbr(nb) = Text(nb, e)
    <3>1. <<MINUS, MIN_HEAD>> = <<MINUS>> \o <<MIN_HEAD>>
      OBVIOUS
    <3>2. <<MINUS>> \in Seq(Octets) /\ <<MIN_HEAD>> \in Seq(Octets) /\ t \in Seq(Octets)
      <4>1. Digits \subseteq Octets /\ MINUS \in Octets
        BY NumberOctets
      <4>2. t \in Seq(Octets)
        BY <2>3, <4>1, SeqMonotonic
      <4>3. MIN_HEAD \in Octets
        BY <2>a, <4>1
      <4> QED
        BY <4>1, <4>2, <4>3
    <3> DEFINE x == <<MINUS>>
               y == <<MIN_HEAD>>
    <3>3. x \in Seq(Octets) /\ y \in Seq(Octets) /\ t \in Seq(Octets)
      BY <3>2
    <3> HIDE DEF x, y
    <3>4. (x \o y) \o t = x \o (y \o t)
      BY <3>3, ConcatAssociative
    <3>5. ft_putnbr(nb) = (x \o y) \o t
      BY <1>2, <2>2, <3>1 DEF ft_putnbr, x, y
    <3>6. nb < 0
      BY <1>b, <1>2
    <3> QED
      BY <3>4, <3>5, <3>6 DEF Text, x, y
  <2> QED
    BY <2>7, <2>8
<1> QED
  BY <1>1, <1>2

-----------------------------------------------------------------------------
(* ft_atoi *)

LEMMA NextIs ==
  ASSUME NEW s \in Seq(Octets), NEW k \in Nat, NEW octets, NEW i \in k..Len(s),
         At(s, i) \in octets, \A j \in k..i-1 : At(s, j) \notin octets
  PROVE  Next_in(s, k, octets) = i
<1> DEFINE S == {j \in k..Len(s) : At(s, j) \in octets}
<1>1. S \subseteq Nat /\ i \in S
  OBVIOUS
<1>2. ASSUME NEW j \in S PROVE i <= j
  <2>1. j \in k..Len(s) /\ j \notin k..i-1
    OBVIOUS
  <2> QED
    BY <2>1
<1>3. Min(S) = i
  <2> HIDE DEF S
  <2> QED
    BY <1>1, <1>2, MinIs
<1> QED
  BY <1>3 DEF Next_in

\* The digits d are at the offset k of s, and no other follows them.
DigitsAt(s, k, d) ==
  /\ d \in Seq(Digits) /\ k \in Nat /\ k + Len(d) <= Len(s)
  /\ \A j \in 1..Len(d) : At(s, k + j - 1) = d[j]
  /\ At(s, k + Len(d)) \notin Digits

LEMMA AtoiDigits ==
  ASSUME NEW s \in Seq(Octets), NEW k, NEW d, DigitsAt(s, k, d)
  PROVE  atoi_digits(s, k) = ValueOf(d, BASE)
<1> DEFINE m == Len(d)
           Is(f) == f = [i \in 0..m |-> IF i = 0 THEN 0 ELSE BASE * f[i - 1] + At(s, k + i - 1)]
<1>d. /\ d \in Seq(Digits) /\ d \in Seq(Nat) /\ k \in Nat /\ m \in Nat /\ k + m <= Len(s) /\ Len(s) \in Nat
      /\ \A j \in 1..m : At(s, k + j - 1) = d[j] /\ d[j] \in Digits /\ d[j] \in Nat
  <2>1. d \in Seq(Digits) /\ d \in Seq(Nat)
    BY NumberOctets, SeqMonotonic DEF DigitsAt
  <2> QED
    BY <2>1, NumberOctets DEF DigitsAt
<1>b. BASE \in Nat
  BY NumberOctets
<1>1. Next_in(s, k, (Octets \ Digits) \cup {NUL}) - k = m
  <2> DEFINE i == k + m
             others == (Octets \ Digits) \cup {NUL}
  <2>1. At(s, i) \in others
    <3>1. At(s, i) \notin Digits
      BY DEF DigitsAt
    <3>2. At(s, i) \in Octets \cup {NUL}
      BY <1>d, AtText
    <3> QED
      BY <3>1, <3>2
  <2>2. ASSUME NEW j \in k..i-1 PROVE At(s, j) \notin others
    <3>1. (j - k) + 1 \in 1..m /\ k + ((j - k) + 1) - 1 = j
      BY <1>d
    <3>2. At(s, j) \in Digits
      BY <1>d, <3>1
    <3> QED
      BY <3>2, NumberOctets
  <2>3. i \in k..Len(s)
    BY <1>d
  <2>4. i - k = m
    BY <1>d
  <2>5. Next_in(s, k, others) = i
    <3> HIDE DEF i, others
    <3> QED
      BY <1>d, <2>1, <2>2, <2>3, NextIs
  <2> QED
    BY <2>4, <2>5
<1>2. PICK f : Reads(f, d, BASE) /\ f[m] = ValueOf(d, BASE)
  BY <1>b, <1>d, ValueReads
<1>f. f \in [0..m -> Nat] /\ f[0] = 0 /\ \A i \in 1..m : f[i] = f[i - 1] * BASE + d[i]
  BY <1>2 DEF Reads
<1> HIDE DEF m
<1>3. Is(f)
  <2>1. f = [i \in 0..m |-> f[i]]
    BY <1>f
  <2>2. ASSUME NEW i \in 0..m, i # 0 PROVE f[i] = BASE * f[i - 1] + At(s, k + i - 1)
    <3>1. i \in 1..m /\ i - 1 \in 0..m
      BY <1>d, <2>2
    <3>2. f[i] = f[i - 1] * BASE + d[i] /\ At(s, k + i - 1) = d[i] /\ f[i - 1] \in Nat /\ d[i] \in Nat
      BY <1>d, <1>f, <3>1
    <3> DEFINE x == f[i - 1]
    <3>3. x \in Nat /\ x * BASE = BASE * x
      <4>1. x \in Nat
        BY <3>2
      <4> HIDE DEF x
      <4> QED
        BY <1>b, <4>1
    <3> QED
      BY <3>2, <3>3
  <2> QED
    BY <1>f, <2>1, <2>2
<1>4. PICK r : r = CHOOSE g : Is(g)
  OBVIOUS
<1>5. Is(r)
  <2> HIDE DEF Is
  <2> QED
    BY <1>3, <1>4
<1>6. atoi_digits(s, k) = r[m]
  BY <1>1, <1>4 DEF atoi_digits
<1>7. r[m] = f[m]
  <2> DEFINE P == {i \in 0..m : r[i] = f[i]}
  <2>1. 0 \in P
    BY <1>d, <1>3, <1>5
  <2>2. ASSUME NEW i \in 1..m, i - 1 \in P PROVE i \in P
    <3>1. i \in 0..m /\ i # 0
      BY <1>d
    <3>2. f[i] = BASE * f[i - 1] + At(s, k + i - 1)
      BY <1>3, <3>1
    <3>3. r[i] = BASE * r[i - 1] + At(s, k + i - 1)
      BY <1>5, <3>1
    <3>4. r[i - 1] = f[i - 1]
      BY <2>2
    <3> HIDE DEF Is
    <3>5. r[i] = f[i]
      BY <3>2, <3>3, <3>4
    <3> QED
      BY <3>1, <3>5
  <2>3. m \in P
    <3>1. m \in 0..m
      BY <1>d
    <3> HIDE DEF P
    <3> QED
      BY <1>d, <2>1, <2>2, <3>1, UpTo
  <2> QED
    BY <2>3
<1> QED
  BY <1>2, <1>6, <1>7

\* The text from its first octet that is not blank: a sign, if any, and digits.
LEMMA AtoiOf ==
  ASSUME NEW s \in Seq(Octets), NEW i \in 0..Len(s), At(s, i) # BLANK,
         \A j \in 0..i-1 : At(s, j) = BLANK,
         NEW d, DigitsAt(s, IF At(s, i) \in {PLUS, MINUS} THEN i + 1 ELSE i, d)
  PROVE  /\ ValueOf(d, BASE) \in Nat
         /\ ft_atoi(s) = ToInt(IF At(s, i) = MINUS THEN -ValueOf(d, BASE) ELSE ValueOf(d, BASE))
<1>1. Next_in(s, 0, Letters \cup {NUL}) = i
  <2> DEFINE octets == Letters \cup {NUL}
  <2>1. At(s, i) \in octets
    <3>1. At(s, i) \in Octets \cup {NUL}
      BY AtText
    <3> QED
      BY <3>1 DEF Octets
  <2>2. BLANK \notin octets
    BY OctetsAssumption DEF Octets
  <2> HIDE DEF octets
  <2>3. Next_in(s, 0, octets) = i
    BY <2>1, <2>2, NextIs
  <2> QED
    BY <2>3 DEF octets
<1> DEFINE k == IF At(s, i) \in {PLUS, MINUS} THEN i + 1 ELSE i
<1>2. atoi_digits(s, k) = ValueOf(d, BASE)
  <2> HIDE DEF k
  <2> QED
    BY AtoiDigits DEF k
<1>3. ft_atoi(s) = ToInt(IF At(s, i) = MINUS THEN -atoi_digits(s, k) ELSE atoi_digits(s, k))
  BY <1>1 DEF ft_atoi
<1>4. ValueOf(d, BASE) \in Nat
  <2>1. d \in Seq(Nat) /\ BASE \in Nat
    BY NumberOctets, SeqMonotonic DEF DigitsAt
  <2>2. PICK f : Reads(f, d, BASE)
    BY <2>1, ValueReads
  <2> QED
    BY <2>1, <2>2, ValueIs
<1> HIDE DEF k
<1> QED
  BY <1>2, <1>3, <1>4

\* The offsets of a text in three parts.
InParts(s, u, v, w) ==
  /\ s \in Seq(Octets) /\ Len(s) = Len(u) + Len(v) + Len(w)
  /\ \A j \in 1..Len(u) : At(s, j - 1) = u[j] /\ s[j] = u[j]
  /\ \A j \in 1..Len(v) : At(s, Len(u) + j - 1) = v[j] /\ s[Len(u) + j] = v[j]
  /\ \A j \in 1..Len(w) : At(s, Len(u) + Len(v) + j - 1) = w[j] /\ s[Len(u) + Len(v) + j] = w[j]
  /\ At(s, Len(u) + Len(v)) = IF w = <<>> THEN NUL ELSE w[1]

LEMMA Parts ==
  ASSUME NEW u \in Seq(Octets), NEW v \in Seq(Octets), NEW w \in Seq(Octets)
  PROVE  InParts(u \o v \o w, u, v, w)
<1> DEFINE uv == u \o v
           l == Len(u)
           m == Len(v)
           n == Len(w)
<1>1. /\ uv \in Seq(Octets) /\ Len(uv) = l + m
      /\ \A j \in 1..l+m : uv[j] = IF j <= l THEN u[j] ELSE v[j - l]
  BY ConcatProperties
<1>2. PICK s : s = uv \o w
  OBVIOUS
<1>n. l \in Nat /\ m \in Nat /\ n \in Nat
  OBVIOUS
<1> HIDE DEF uv
<1>3. /\ s \in Seq(Octets) /\ Len(s) = (l + m) + n
      /\ \A j \in 1..(l+m)+n : s[j] = IF j <= l + m THEN uv[j] ELSE w[j - (l + m)]
  <2>1. /\ s \in Seq(Octets) /\ Len(s) = Len(uv) + Len(w)
        /\ \A j \in 1..Len(uv)+Len(w) : s[j] = IF j <= Len(uv) THEN uv[j] ELSE w[j - Len(uv)]
    <3>1. uv \in Seq(Octets) /\ w \in Seq(Octets)
      BY <1>1
    <3>2. /\ uv \o w \in Seq(Octets) /\ Len(uv \o w) = Len(uv) + Len(w)
          /\ \A j \in 1..Len(uv)+Len(w) : (uv \o w)[j] = IF j <= Len(uv) THEN uv[j] ELSE w[j - Len(uv)]
      BY <3>1, ConcatProperties
    <3> QED
      BY <1>2, <3>2
  <2> HIDE DEF l, m
  <2> QED
    BY <1>1, <2>1
<1> HIDE DEF l, m, n
<1>4. \A j \in 1..l : s[j] = u[j]
  <2>1. ASSUME NEW j \in 1..l PROVE s[j] = u[j]
    <3>1. j \in 1..(l+m)+n /\ j <= l + m /\ j \in 1..l+m /\ j <= l
      BY <1>n
    <3> QED
      BY <1>1, <1>3, <3>1
  <2> QED
    BY <2>1
<1>5. \A j \in 1..m : s[l + j] = v[j]
  <2>1. ASSUME NEW j \in 1..m PROVE s[l + j] = v[j]
    <3>1. l + j \in 1..(l+m)+n /\ l + j <= l + m /\ l + j \in 1..l+m /\ ~(l + j <= l) /\ (l + j) - l = j
      BY <1>n
    <3> QED
      BY <1>1, <1>3, <3>1
  <2> QED
    BY <2>1
<1>6. \A j \in 1..n : s[(l + m) + j] = w[j]
  <2>1. ASSUME NEW j \in 1..n PROVE s[(l + m) + j] = w[j]
    <3>1. (l + m) + j \in 1..(l+m)+n /\ ~((l + m) + j <= l + m) /\ ((l + m) + j) - (l + m) = j
      BY <1>n
    <3> QED
      BY <1>3, <3>1
  <2> QED
    BY <2>1
<1>7. ASSUME NEW j \in 1..(l+m)+n PROVE At(s, j - 1) = s[j]
  <2>1. j - 1 \in Nat /\ j - 1 < Len(s) /\ (j - 1) + 1 = j
    BY <1>n, <1>3
  <2>2. At(s, j - 1) = s[(j - 1) + 1]
    BY <1>3, <2>1, AtText
  <2> QED
    BY <2>1, <2>2
<1>8. ASSUME NEW j \in 1..l PROVE At(s, j - 1) = u[j]
  <2>1. j \in 1..(l+m)+n
    BY <1>n
  <2> QED
    BY <1>4, <1>7, <2>1
<1>9. ASSUME NEW j \in 1..m PROVE At(s, l + j - 1) = v[j]
  <2>1. l + j \in 1..(l+m)+n /\ (l + j) - 1 = l + j - 1
    BY <1>n
  <2>2. At(s, (l + j) - 1) = s[l + j]
    BY <1>7, <2>1
  <2> QED
    BY <1>5, <2>1, <2>2
<1>10. ASSUME NEW j \in 1..n PROVE At(s, l + m + j - 1) = w[j]
  <2>1. (l + m) + j \in 1..(l+m)+n /\ ((l + m) + j) - 1 = l + m + j - 1
    BY <1>n
  <2>2. At(s, ((l + m) + j) - 1) = s[(l + m) + j]
    BY <1>7, <2>1
  <2> QED
    BY <1>6, <2>1, <2>2
<1>11. At(s, l + m) = IF w = <<>> THEN NUL ELSE w[1]
  <2>1. CASE w = <<>>
    <3>1. n = 0
      BY <2>1 DEF n
    <3>2. l + m \in Nat /\ l + m >= Len(s)
      BY <1>n, <1>3, <3>1
    <3> QED
      BY <1>3, <2>1, <3>2, AtText
  <2>2. CASE w # <<>>
    <3>1. 1 \in 1..n
      BY <1>n, <2>2, EmptySeq DEF n
    <3>2. l + m + 1 - 1 = l + m
      BY <1>n
    <3>3. At(s, l + m + 1 - 1) = w[1]
      BY <1>10, <3>1
    <3> QED
      BY <2>2, <3>2, <3>3
  <2> QED
    BY <2>1, <2>2
<1> QED
  BY <1>2, <1>3, <1>4, <1>5, <1>6, <1>8, <1>9, <1>10, <1>11 DEF InParts, l, m, n, uv

LEMMA AtoiReadsBack ==
  ASSUME NEW nb \in INT_MIN..INT_MAX, NEW before \in Seq(Octets), NEW after \in Seq(Octets),
         \A k \in 1..Len(before) :
           before[k] = BLANK \/ (before[k] = PLUS /\ k = Len(before) /\ nb >= 0),
         after # <<>> => after[1] \notin Digits
  PROVE  ft_atoi(before \o ft_itoa(nb) \o after) = nb
<1>b. INT_MAX \in Nat /\ INT_MIN = -INT_MAX - 1 /\ nb \in Int /\ nb \in Ints
  BY NumberOctets DEF INT_MIN, Ints
<1>1. PICK d : Shortest(d, nb) /\ ft_itoa(nb) = Text(nb, d)
  BY <1>b, ItoaOf
<1>2. d \in Seq(Digits) /\ d \in Seq(Octets) /\ Len(d) >= 1 /\ Len(d) \in Nat /\ ValueOf(d, BASE) = Abs(nb)
  <2>1. d \in Seq(Digits) /\ Len(d) >= 1 /\ ValueOf(d, BASE) = Abs(nb)
    BY <1>1 DEF Shortest
  <2>2. d \in Seq(Octets)
    BY <2>1, NumberOctets, SeqMonotonic
  <2> QED
    BY <2>1, <2>2
<1> DEFINE t == Text(nb, d)
           p == Len(before)
<1>n. p \in Nat
  OBVIOUS
<1>t. /\ t \in Seq(Octets) /\ Len(t) \in Nat
      /\ nb < 0 => Len(t) = Len(d) + 1 /\ t[1] = MINUS /\ \A k \in 1..Len(d) : t[k + 1] = d[k]
      /\ ~(nb < 0) => t = d
  <2>1. CASE nb < 0
    <3>1. t = <<MINUS>> \o d
      BY <2>1 DEF Text
    <3> HIDE DEF t
    <3>2. MINUS \in Octets
      BY NumberOctets
    <3>3. <<MINUS>> \o d \in Seq(Octets) /\ Len(<<MINUS>> \o d) = Len(d) + 1 /\ (<<MINUS>> \o d)[1] = MINUS
          /\ \A k \in 1..Len(d) : (<<MINUS>> \o d)[k + 1] = d[k]
      BY <1>2, <3>2, Prefixed
    <3> QED
      BY <1>2, <2>1, <3>1, <3>3
  <2>2. CASE ~(nb < 0)
    BY <1>2, <2>2 DEF Text
  <2> QED
    BY <2>1, <2>2
<1> HIDE DEF t
<1>r. PICK s : s = before \o t \o after
  OBVIOUS
<1> SUFFICES ft_atoi(s) = nb
  BY <1>1, <1>r DEF t
<1>s. /\ s \in Seq(Octets) /\ Len(s) = p + Len(t) + Len(after) /\ Len(after) \in Nat
      /\ \A j \in 1..p : At(s, j - 1) = before[j]
      /\ \A j \in 1..Len(t) : At(s, p + j - 1) = t[j]
      /\ At(s, p + Len(t)) = IF after = <<>> THEN NUL ELSE after[1]
  <2>1. InParts(s, before, t, after)
    BY <1>r, <1>t, Parts
  <2> QED
    BY <2>1 DEF InParts
<1> HIDE DEF p
<1>e. At(s, p + Len(t)) \notin Digits
  BY <1>s, NumberOctets
<1>v. ToInt(nb) = nb
  BY <1>b, ToIntFits
<1>d. \A j \in 1..Len(d) : d[j] \in Digits
  BY <1>2
<1>3. CASE p # 0 /\ before[p] = PLUS
  <2> DEFINE i == p - 1
  <2>1. p \in 1..p /\ i \in Nat /\ i \in 0..Len(s) /\ i + 1 = p
    BY <1>n, <1>s, <1>t, <1>3
  <2>2. At(s, i) = PLUS
    BY <1>s, <1>3, <2>1
  <2>3. nb >= 0 /\ ~(nb < 0)
    <3>1. before[p] = BLANK \/ (before[p] = PLUS /\ nb >= 0)
      BY <2>1 DEF p
    <3> QED
      BY <1>b, <1>3, <3>1, NumberOctets
  <2>4. \A j \in 0..i-1 : At(s, j) = BLANK
    <3>1. ASSUME NEW j \in 0..i-1 PROVE At(s, j) = BLANK
      <4>1. j + 1 \in 1..p /\ j + 1 # p /\ (j + 1) - 1 = j
        BY <1>n, <2>1
      <4>2. before[j + 1] = BLANK
        BY <4>1 DEF p
      <4>3. At(s, (j + 1) - 1) = before[j + 1]
        BY <1>s, <4>1
      <4> QED
        BY <4>1, <4>2, <4>3
    <3> QED
      BY <3>1
  <2>5. t = d
    BY <1>t, <2>3
  <2>6. DigitsAt(s, p, d)
    <3>1. p + Len(d) <= Len(s)
      BY <1>2, <1>n, <1>s, <2>5
    <3> QED
      BY <1>2, <1>n, <1>s, <1>e, <2>5, <3>1 DEF DigitsAt
  <2> HIDE DEF i
  <2>7. ft_atoi(s) = ToInt(IF At(s, i) = MINUS THEN -ValueOf(d, BASE) ELSE ValueOf(d, BASE))
    <3>1. DigitsAt(s, IF At(s, i) \in {PLUS, MINUS} THEN i + 1 ELSE i, d)
      BY <2>1, <2>2, <2>6
    <3>2. At(s, i) # BLANK
      BY <2>2, NumberOctets
    <3> QED
      BY <1>s, <2>1, <2>4, <3>1, <3>2, AtoiOf
  <2>8. Abs(nb) = nb
    BY <2>3 DEF Abs
  <2> QED
    BY <1>2, <1>v, <2>2, <2>7, <2>8, NumberOctets
<1>4. CASE ~(p # 0 /\ before[p] = PLUS)
  <2>1. \A j \in 0..p-1 : At(s, j) = BLANK
    <3>1. ASSUME NEW j \in 0..p-1 PROVE At(s, j) = BLANK
      <4>1. j + 1 \in 1..p /\ (j + 1) - 1 = j /\ p # 0
        BY <1>n
      <4>2. before[j + 1] = BLANK
        BY <1>4, <4>1 DEF p
      <4>3. At(s, (j + 1) - 1) = before[j + 1]
        BY <1>s, <4>1
      <4> QED
        BY <4>1, <4>2, <4>3
    <3> QED
      BY <3>1
  <2>2. 1 \in 1..Len(t)
    BY <1>2, <1>t
  <2>3. p \in 0..Len(s) /\ p + 1 - 1 = p /\ At(s, p) = t[1]
    <3>1. p \in 0..Len(s) /\ p + 1 - 1 = p
      BY <1>n, <1>s, <1>t
    <3>2. At(s, p + 1 - 1) = t[1]
      BY <1>s, <2>2
    <3> QED
      BY <3>1, <3>2
  <2>4. CASE nb < 0
    <3>1. At(s, p) = MINUS /\ Len(t) = Len(d) + 1
      BY <1>t, <2>3, <2>4
    <3> DEFINE k == p + 1
    <3>2. DigitsAt(s, k, d)
      <4>1. k \in Nat /\ k + Len(d) = p + Len(t) /\ k + Len(d) <= Len(s)
        BY <1>2, <1>n, <1>s, <3>1
      <4>2. ASSUME NEW j \in 1..Len(d) PROVE At(s, k + j - 1) = d[j]
        <5>1. j + 1 \in 1..Len(t) /\ p + (j + 1) - 1 = k + j - 1
          BY <1>2, <1>n, <3>1
        <5>2. At(s, p + (j + 1) - 1) = t[j + 1]
          BY <1>s, <5>1
        <5>3. t[j + 1] = d[j]
          BY <1>t, <2>4
        <5> HIDE DEF k
        <5> QED
          BY <5>1, <5>2, <5>3
      <4>3. At(s, k + Len(d)) \notin Digits
        <5> HIDE DEF k
        <5> QED
          BY <1>e, <4>1
      <4> HIDE DEF k
      <4> QED
        BY <1>2, <4>1, <4>2, <4>3 DEF DigitsAt
    <3>3. ft_atoi(s) = ToInt(IF At(s, p) = MINUS THEN -ValueOf(d, BASE) ELSE ValueOf(d, BASE))
      <4>1. DigitsAt(s, IF At(s, p) \in {PLUS, MINUS} THEN p + 1 ELSE p, d)
        BY <3>1, <3>2
      <4>2. At(s, p) # BLANK
        BY <3>1, NumberOctets
      <4> QED
        BY <1>s, <2>1, <2>3, <4>1, <4>2, AtoiOf
    <3>4. -ValueOf(d, BASE) = nb
      <4>1. Abs(nb) = -nb
        BY <2>4 DEF Abs
      <4> QED
        BY <1>2, <1>b, <4>1
    <3> QED
      BY <1>v, <3>1, <3>3, <3>4
  <2>5. CASE ~(nb < 0)
    <3>1. t = d /\ At(s, p) \in Digits
      BY <1>2, <1>d, <1>t, <2>2, <2>3, <2>5
    <3>2. DigitsAt(s, p, d)
      <4>1. p + Len(d) <= Len(s)
        BY <1>2, <1>n, <1>s, <3>1
      <4> QED
        BY <1>2, <1>n, <1>s, <1>e, <3>1, <4>1 DEF DigitsAt
    <3>3. At(s, p) \notin {PLUS, MINUS, BLANK}
      BY <3>1, NumberOctets
    <3>4. ft_atoi(s) = ToInt(IF At(s, p) = MINUS THEN -ValueOf(d, BASE) ELSE ValueOf(d, BASE))
      <4>1. DigitsAt(s, IF At(s, p) \in {PLUS, MINUS} THEN p + 1 ELSE p, d)
        BY <3>2, <3>3
      <4> QED
        BY <1>s, <2>1, <2>3, <3>3, <4>1, AtoiOf
    <3>5. Abs(nb) = nb
      BY <2>5 DEF Abs
    <3> QED
      BY <1>2, <1>v, <3>3, <3>4, <3>5
  <2> QED
    BY <2>4, <2>5
<1> QED
  BY <1>3, <1>4

-----------------------------------------------------------------------------
(* ft_atolf *)

Negative(before) == before # <<>> /\ before[1] = MINUS

\* The part before of a decimal, which the text s starts with, is read with its sign.
LEMMA AtoiSigned ==
  ASSUME NEW before \in Seq(Digits \cup {MINUS}), Magnitude(before) \in Seq(Digits),
         ValueOf(Magnitude(before), BASE) <= INT_MAX,
         NEW s \in Seq(Octets), Len(before) <= Len(s),
         \A j \in 1..Len(before) : At(s, j - 1) = before[j],
         At(s, Len(before)) = NUL \/ (At(s, Len(before)) = DOT /\ before # <<>>)
  PROVE  /\ ValueOf(Magnitude(before), BASE) \in Nat
         /\ ft_atoi(s) = IF Negative(before) THEN -ValueOf(Magnitude(before), BASE)
                         ELSE ValueOf(Magnitude(before), BASE)
<1> DEFINE d == Magnitude(before)
           v == ValueOf(d, BASE)
           l == Len(before)
<1>b. INT_MAX \in Nat /\ INT_MIN = -INT_MAX - 1
  BY NumberOctets DEF INT_MIN
<1>l. l \in Nat /\ l <= Len(s) /\ Len(s) \in Nat /\ 0 \in 0..Len(s) /\ At(s, l) \notin Digits
  <2>1. NUL \notin Digits /\ DOT \notin Digits
    BY NumberOctets
  <2>2. At(s, l) = NUL \/ At(s, l) = DOT
    OBVIOUS
  <2>3. l \in Nat /\ l <= Len(s) /\ Len(s) \in Nat
    OBVIOUS
  <2> HIDE DEF l
  <2> QED
    BY <2>1, <2>2, <2>3
<1>v. v \in Nat
  <2>1. d \in Seq(Nat) /\ BASE \in Nat
    BY NumberOctets, SeqMonotonic
  <2> HIDE DEF d
  <2>2. PICK f : Reads(f, d, BASE)
    BY <2>1, ValueReads
  <2> QED
    BY <2>1, <2>2, ValueIs
<1>w. v <= INT_MAX
  OBVIOUS
<1>0. \A j \in 0..0-1 : At(s, j) = BLANK
  OBVIOUS
<1>1. CASE Negative(before)
  <2>1. before # <<>> /\ before[1] = MINUS /\ d = Tail(before)
    BY <1>1 DEF Negative, Magnitude
  <2>2. d \in Seq(Digits) /\ Len(d) = l - 1 /\ (\A j \in 1..Len(d) : d[j] = before[j + 1]) /\ l >= 1
    <3>1. l \in Nat \ {0}
      BY <2>1, EmptySeq
    <3>2. Len(Tail(before)) = Len(before) - 1 /\ \A j \in 1..Len(Tail(before)) : Tail(before)[j] = before[j + 1]
      BY <2>1, HeadTailProperties
    <3>3. d \in Seq(Digits)
      OBVIOUS
    <3> HIDE DEF d
    <3> QED
      BY <2>1, <3>1, <3>2, <3>3
  <2>3. At(s, 0) = MINUS
    <3>1. 1 \in 1..l /\ 1 - 1 = 0
      BY <2>2
    <3> QED
      BY <2>1, <3>1
  <2> HIDE DEF d
  <2>4. DigitsAt(s, 0 + 1, d)
    <3>1. (0 + 1) + Len(d) = l /\ Len(d) \in Nat
      BY <2>2, <1>l
    <3>2. ASSUME NEW j \in 1..Len(d) PROVE At(s, (0 + 1) + j - 1) = d[j]
      <4>1. j + 1 \in 1..l /\ (j + 1) - 1 = (0 + 1) + j - 1
        BY <3>1, <1>l
      <4>2. At(s, (j + 1) - 1) = before[j + 1]
        BY <4>1
      <4> QED
        BY <2>2, <4>1, <4>2
    <3> HIDE DEF l
    <3> QED
      BY <1>l, <2>2, <3>1, <3>2 DEF DigitsAt
  <2>5. ft_atoi(s) = ToInt(IF At(s, 0) = MINUS THEN -ValueOf(d, BASE) ELSE ValueOf(d, BASE))
    <3>1. At(s, 0) # BLANK
      BY <2>3, NumberOctets
    <3>2. DigitsAt(s, IF At(s, 0) \in {PLUS, MINUS} THEN 0 + 1 ELSE 0, d)
      BY <2>3, <2>4
    <3> QED
      BY <1>l, <1>0, <3>1, <3>2, AtoiOf
  <2>6. ToInt(-v) = -v
    <3> HIDE DEF v
    <3>1. -v \in Ints
      BY <1>b, <1>v, <1>w DEF Ints
    <3> QED
      BY <3>1, ToIntFits
  <2> QED
    BY <1>1, <1>v, <2>3, <2>5, <2>6 DEF d
<1>2. CASE ~Negative(before)
  <2>1. d = before /\ d \in Seq(Digits)
    BY <1>2 DEF Negative, Magnitude
  <2> HIDE DEF d
  <2>2. At(s, 0) \notin {BLANK, PLUS, MINUS}
    <3>1. CASE before = <<>>
      <4>1. l = 0
        BY <3>1
      <4>2. At(s, 0) = NUL
        BY <3>1, <4>1
      <4> QED
        BY <4>2, NumberOctets, OctetsAssumption DEF Octets
    <3>2. CASE before # <<>>
      <4>1. 1 \in 1..l /\ 1 - 1 = 0
        BY <3>2, <1>l, EmptySeq
      <4>2. before[1] \in Digits
        BY <2>1, <4>1
      <4>3. At(s, 0) = before[1]
        BY <4>1
      <4> QED
        BY <4>2, <4>3, NumberOctets
    <3> QED
      BY <3>1, <3>2
  <2>3. DigitsAt(s, 0, d)
    <3>1. ASSUME NEW j \in 1..Len(d) PROVE At(s, 0 + j - 1) = d[j]
      <4>1. 0 + j - 1 = j - 1 /\ j \in 1..l
        BY <2>1
      <4> QED
        BY <2>1, <4>1
    <3>2. 0 + Len(d) = l /\ 0 \in Nat
      BY <2>1, <1>l
    <3> HIDE DEF l
    <3> QED
      BY <1>l, <2>1, <3>1, <3>2 DEF DigitsAt
  <2>4. ft_atoi(s) = ToInt(IF At(s, 0) = MINUS THEN -ValueOf(d, BASE) ELSE ValueOf(d, BASE))
    <3>1. DigitsAt(s, IF At(s, 0) \in {PLUS, MINUS} THEN 0 + 1 ELSE 0, d)
      BY <2>2, <2>3
    <3> QED
      BY <1>l, <1>0, <2>2, <3>1, AtoiOf
  <2>5. ToInt(v) = v
    <3> HIDE DEF v
    <3>1. v \in Ints
      BY <1>b, <1>v, <1>w DEF Ints
    <3> QED
      BY <3>1, ToIntFits
  <2> QED
    BY <1>2, <1>v, <2>2, <2>4, <2>5 DEF d
<1> QED
  BY <1>1, <1>2

\* The words of a decimal are its two parts, when they are not empty.
LEMMA DecimalWords ==
  ASSUME NEW before \in Seq(Digits \cup {MINUS}), before # <<>>, NEW after \in Seq(Digits),
         NEW s, InParts(s, before, <<DOT>>, after)
  PROVE  LET l == Len(before)
             n == Len(after)
         IN WordsOf(s, DOT) = {<<1, l>>} \cup (IF n = 0 THEN {} ELSE {<<l + 2, l + 1 + n>>})
<1> DEFINE l == Len(before)
           n == Len(after)
           A == <<1, l>>
           B == <<l + 2, l + 1 + n>>
           W == WordsOf(s, DOT)
<1>n. l \in Nat /\ n \in Nat /\ l >= 1
  BY EmptySeq
<1>b. \A j \in 1..l : before[j] # DOT
  <2>1. ASSUME NEW j \in 1..l PROVE before[j] # DOT
    <3>1. before[j] \in Digits \cup {MINUS}
      OBVIOUS
    <3> QED
      BY <3>1, NumberOctets
  <2> QED
    BY <2>1
<1>a. \A j \in 1..n : after[j] # DOT
  <2>1. ASSUME NEW j \in 1..n PROVE after[j] # DOT
    <3>1. after[j] \in Digits
      OBVIOUS
    <3> QED
      BY <3>1, NumberOctets
  <2> QED
    BY <2>1
<1>s. Len(s) = (l + 1) + n /\ s[l + 1] = DOT
  <2>1. Len(<<DOT>>) = 1 /\ <<DOT>>[1] = DOT /\ 1 \in 1..1
    OBVIOUS
  <2> QED
    BY <1>n, <2>1 DEF InParts
<1>1. \A j \in 1..l : s[j] # DOT
  BY <1>b DEF InParts
<1>2. ASSUME NEW j \in (l+2)..((l+1)+n) PROVE s[j] # DOT
  <2> DEFINE k == j - (l + 1)
  <2>1. k \in 1..n /\ (l + 1) + k = j
    BY <1>n, <1>2
  <2>2. s[(l + 1) + k] = after[k]
    <3>1. Len(<<DOT>>) = 1
      OBVIOUS
    <3> HIDE DEF k
    <3> QED
      BY <2>1, <3>1 DEF InParts
  <2> HIDE DEF k
  <2> QED
    BY <1>a, <2>1, <2>2
<1> HIDE DEF l, n
<1>3. ASSUME NEW w \in W PROVE w = A \/ (n # 0 /\ w = B)
  <2>1. /\ w = <<w[1], w[2]>> /\ w[1] \in 1..Len(s) /\ w[2] \in 1..Len(s) /\ w[1] <= w[2]
        /\ \A k \in w[1]..w[2] : s[k] # DOT
        /\ w[1] = 1 \/ s[w[1] - 1] = DOT
        /\ w[2] = Len(s) \/ s[w[2] + 1] = DOT
    BY DEF WordsOf
  <2>2. w[2] <= l \/ w[1] >= l + 2
    <3>1. l + 1 \notin w[1]..w[2]
      BY <1>s, <2>1
    <3> QED
      BY <1>n, <1>s, <2>1, <3>1
  <2>3. CASE w[2] <= l
    <3>1. w[1] = 1
      <4>1. w[1] # 1 => w[1] - 1 \in 1..l
        BY <1>n, <2>1, <2>3, <1>s
      <4> QED
        BY <1>1, <2>1, <4>1
    <3>2. w[2] = l
      <4>1. w[2] # l => w[2] + 1 \in 1..l /\ w[2] # Len(s)
        BY <1>n, <2>1, <2>3, <1>s
      <4> QED
        BY <1>1, <2>1, <4>1
    <3> QED
      BY <2>1, <3>1, <3>2
  <2>4. CASE w[1] >= l + 2
    <3>1. w[1] = l + 2
      <4>1. w[1] # l + 2 => w[1] - 1 \in (l+2)..((l+1)+n) /\ w[1] # 1
        BY <1>n, <2>1, <2>4, <1>s
      <4> QED
        BY <1>2, <2>1, <4>1
    <3>2. w[2] = l + 1 + n /\ n # 0
      <4>1. w[2] # Len(s) => w[2] + 1 \in (l+2)..((l+1)+n)
        BY <1>n, <2>1, <2>4, <1>s
      <4>2. w[2] = Len(s)
        BY <1>2, <2>1, <4>1
      <4> QED
        BY <1>n, <1>s, <2>1, <3>1, <4>2
    <3> QED
      BY <2>1, <3>1, <3>2
  <2> QED
    BY <2>2, <2>3, <2>4
<1>4. A \in W
  <2>1. 1 \in 1..Len(s) /\ l \in 1..Len(s) /\ 1 <= l
    BY <1>n, <1>s
  <2> QED
    BY <1>1, <1>s, <2>1 DEF WordsOf
<1>5. n # 0 => B \in W
  <2> SUFFICES ASSUME n # 0 PROVE B \in W
    OBVIOUS
  <2>1. l + 2 \in 1..Len(s) /\ l + 1 + n \in 1..Len(s) /\ l + 2 <= l + 1 + n /\ l + 1 + n = Len(s)
        /\ (l + 2) - 1 = l + 1 /\ l + 1 + n = (l + 1) + n
    BY <1>n, <1>s
  <2>2. \A k \in (l + 2)..(l + 1 + n) : s[k] # DOT
    BY <1>2, <2>1
  <2> QED
    BY <1>s, <2>1, <2>2 DEF WordsOf
<1>6. W = {A} \cup (IF n = 0 THEN {} ELSE {B})
  <2> HIDE DEF A, B, W
  <2> QED
    BY <1>3, <1>4, <1>5
<1> QED
  BY <1>6 DEF l, n

\* ft_strsplit gives the two parts, or the one that is not empty.
SplitsInto(parts, before, after) ==
  /\ Len(parts) \in Nat
  /\ after = <<>> => Len(parts) < 2
  /\ after # <<>> => Len(parts) >= 2 /\ parts[1] = before /\ parts[2] = after

LEMMA DecimalParts ==
  ASSUME NEW before \in Seq(Digits \cup {MINUS}), before # <<>>, NEW after \in Seq(Digits),
         NEW s, InParts(s, before, <<DOT>>, after)
  PROVE  SplitsInto(ft_strsplit(s, DOT), before, after)
<1>r. PICK parts : parts = ft_strsplit(s, DOT)
  OBVIOUS
<1> DEFINE l == Len(before)
           n == Len(after)
           A == <<1, l>>
           B == <<l + 2, l + 1 + n>>
           W == WordsOf(s, DOT)
           p == Len(parts)
<1>n. l \in Nat /\ n \in Nat /\ l >= 1 /\ (after = <<>> <=> n = 0)
  BY EmptySeq
<1>s. s \in Seq(Octets) /\ Len(s) = (l + 1) + n
  <2>1. Len(<<DOT>>) = 1
    OBVIOUS
  <2>2. s \in Seq(Octets) /\ Len(s) = Len(before) + Len(<<DOT>>) + Len(after)
    BY DEF InParts
  <2> QED
    BY <1>n, <2>1, <2>2
<1>1. parts \in Seq(Seq(Octets)) /\ AreWords(s, DOT, Len(s), parts)
  <2>1. DOT \in Octets \cup {NUL}
    BY NumberOctets
  <2> QED
    BY <1>r, <1>s, <2>1, SplitOf
<1>p. p \in Nat
  BY <1>1
<1>2. W = {A} \cup (IF n = 0 THEN {} ELSE {B})
  BY DecimalWords
<1>3. {w \in W : w[2] <= Len(s)} = W
  BY DEF WordsOf
<1>4. PICK at \in [1..p -> W] :
        /\ \A i \in 1..p : parts[i] = SubSeq(s, at[i][1], at[i][2])
        /\ \A i, j \in 1..p : i < j => at[i][1] < at[j][1]
        /\ Range(at) = W
  BY <1>1, <1>3 DEF AreWords
<1>5. A[1] = 1 /\ B[1] = l + 2 /\ A # B /\ A[2] = l /\ B[2] = l + 1 + n
  BY <1>n
<1>6. ASSUME after = <<>> PROVE p < 2
  <2> SUFFICES ASSUME p >= 2 PROVE FALSE
    BY <1>p
  <2>1. 1 \in 1..p /\ 2 \in 1..p
    BY <1>p
  <2>2. at[1] = A /\ at[2] = A
    <3>1. at[1] \in W /\ at[2] \in W
      BY <1>4, <2>1
    <3>2. W = {A}
      BY <1>2, <1>6, <1>n
    <3> HIDE DEF A, W
    <3> QED
      BY <3>1, <3>2
  <2>3. at[1][1] < at[2][1]
    BY <1>4, <2>1
  <2>4. A[1] < A[1] /\ A[1] = 1
    BY <1>5, <2>2, <2>3
  <2> HIDE DEF A
  <2> QED
    BY <2>4
<1>7. ASSUME after # <<>> PROVE p >= 2 /\ parts[1] = before /\ parts[2] = after
  <2>1. W = {A, B}
    BY <1>2, <1>7, <1>n
  <2>2. PICK i \in 1..p, j \in 1..p : at[i] = A /\ at[j] = B
    <3>1. A \in Range(at) /\ B \in Range(at)
      BY <1>4, <2>1
    <3> HIDE DEF A, B, W
    <3> QED
      BY <1>4, <3>1 DEF Range
  <2> HIDE DEF A, B
  <2>3. i # j
    BY <1>5, <2>2
  <2>4. p >= 2 /\ 1 \in 1..p /\ 2 \in 1..p
    BY <1>p, <2>3
  <2>5. at[1] \in {A, B} /\ at[2] \in {A, B}
    BY <1>4, <2>1, <2>4
  <2>6. at[1] = A
    <3> SUFFICES ASSUME at[1] = B PROVE FALSE
      BY <2>5
    <3>1. 1 < i
      BY <1>5, <2>2
    <3>2. at[1][1] < at[i][1]
      BY <1>4, <2>4, <3>1
    <3> QED
      BY <1>5, <1>n, <2>2, <3>2
  <2>7. at[2] = B
    <3> SUFFICES ASSUME at[2] = A PROVE FALSE
      BY <2>5
    <3>1. at[1][1] < at[2][1]
      BY <1>4, <2>4
    <3> QED
      BY <1>5, <2>6, <3>1
  <2>8. parts[1] = SubSeq(s, 1, l) /\ parts[2] = SubSeq(s, l + 2, l + 1 + n)
    BY <1>4, <1>5, <2>4, <2>6, <2>7
  <2>o. before \in Seq(Octets) /\ after \in Seq(Octets)
    <3>1. Digits \subseteq Octets /\ Digits \cup {MINUS} \subseteq Octets
      BY NumberOctets
    <3>2. before \in Seq(Octets)
      BY <3>1, SeqMonotonic
    <3>3. after \in Seq(Octets)
      BY <3>1, SeqMonotonic
    <3> QED
      BY <3>2, <3>3
  <2>d. Len(<<DOT>>) = 1
    OBVIOUS
  <2>9. SubSeq(s, 1, l) = before
    <3>1. \A k \in 1..l : s[k] = before[k] /\ s[k] \in Octets
      BY <2>o DEF InParts
    <3> DEFINE t == SubSeq(s, 1, l)
    <3>2. t \in Seq(Octets) /\ Len(t) = l /\ \A k \in 1..l : t[k] = before[k]
      <4>1. t \in Seq(Octets) /\ Len(t) = (IF 1 <= l THEN l - 1 + 1 ELSE 0)
            /\ \A k \in 1..l - 1 + 1 : t[k] = s[1 + k - 1]
        <5>1. \A k \in 1..l : s[k] \in Octets
          BY <3>1
        <5> HIDE DEF l
        <5> QED
          BY <1>n, <5>1, SubSeqProperties
      <4>2. \A k \in 1..l : 1 + k - 1 = k /\ k \in 1..l - 1 + 1
        BY <1>n
      <4> HIDE DEF t, l
      <4> QED
        BY <1>n, <3>1, <4>1, <4>2
    <3> HIDE DEF t
    <3> QED
      BY <2>o, <3>2, SeqEqual DEF t
  <2>10. SubSeq(s, l + 2, l + 1 + n) = after
    <3>1. \A k \in 1..n : s[(l + 1) + k] = after[k]
      BY <2>d DEF InParts
    <3> DEFINE t == SubSeq(s, l + 2, l + 1 + n)
    <3>2. \A k \in (l+2)..(l+1+n) : s[k] \in Octets
      <4>1. ASSUME NEW k \in (l+2)..(l+1+n) PROVE s[k] \in Octets
        <5>1. k \in 1..Len(s)
          BY <1>n, <1>s
        <5> QED
          BY <1>s, <5>1
      <4> QED
        BY <4>1
    <3> DEFINE a == l + 2
               b == l + 1 + n
    <3>3. a \in Int /\ b \in Int /\ a <= b /\ b - a + 1 = n /\ \A k \in a..b : s[k] \in Octets
      BY <1>n, <1>7, <3>2
    <3>4. t \in Seq(Octets) /\ Len(t) = n /\ \A k \in 1..n : t[k] = s[a + k - 1]
      <4> HIDE DEF a, b, n
      <4>1. SubSeq(s, a, b) \in Seq(Octets) /\ Len(SubSeq(s, a, b)) = (IF a <= b THEN b - a + 1 ELSE 0)
            /\ \A k \in 1..b - a + 1 : SubSeq(s, a, b)[k] = s[a + k - 1]
        BY <3>3, SubSeqProperties
      <4> QED
        BY <3>3, <4>1 DEF a, b, n
    <3>5. ASSUME NEW k \in 1..n PROVE t[k] = after[k]
      <4>1. a + k - 1 = (l + 1) + k
        BY <1>n
      <4> HIDE DEF t, a
      <4> QED
        BY <3>1, <3>4, <4>1
    <3> HIDE DEF t
    <3> QED
      BY <2>o, <3>4, <3>5, SeqEqual DEF t
  <2> QED
    BY <2>4, <2>8, <2>9, <2>10
<1> QED
  BY <1>p, <1>r, <1>6, <1>7 DEF SplitsInto

\* atolf's fraction, read against its decimal.
Decimal(f, before, after) ==
  f.num * Power[Len(after)] =
    (IF before # <<>> /\ before[1] = MINUS THEN -1 ELSE 1)
      * ValueOf(Magnitude(before) \o after, BASE) * Power[f.pow]

LEMMA AtolfOf ==
  ASSUME NEW before \in Seq(Digits \cup {MINUS}), NEW after \in Seq(Digits),
         Magnitude(before) \in Seq(Digits),
         ValueOf(Magnitude(before), BASE) <= INT_MAX, ValueOf(after, BASE) <= INT_MAX,
         ~(ft_atoi(before) = 0 /\ MINUS \in Range(before))
  PROVE  Decimal(ft_atolf(before \o <<DOT>> \o after), before, after)
<1> DEFINE mag == Magnitude(before)
           v == ValueOf(mag, BASE)
           w == ValueOf(after, BASE)
           p == Power[Len(after)]
           sgn == IF Negative(before) THEN -1 ELSE 1
<1>1. PICK s : s = before \o <<DOT>> \o after
  OBVIOUS
<1>o. before \in Seq(Octets) /\ after \in Seq(Octets) /\ <<DOT>> \in Seq(Octets) /\ DOT \in Octets
  <2>1. Digits \subseteq Octets /\ Digits \cup {MINUS} \subseteq Octets /\ DOT \in Octets
    BY NumberOctets
  <2>2. before \in Seq(Octets)
    BY <2>1, SeqMonotonic
  <2>3. after \in Seq(Octets)
    BY <2>1, SeqMonotonic
  <2> QED
    BY <2>1, <2>2, <2>3
<1>2. InParts(s, before, <<DOT>>, after)
  BY <1>1, <1>o, Parts
<1>n. mag \in Seq(Nat) /\ after \in Seq(Nat)
  <2>1. Digits \subseteq Nat
    BY NumberOctets
  <2>2. after \in Seq(Nat)
    BY <2>1, SeqMonotonic
  <2>3. mag \in Seq(Nat)
    BY <2>1, SeqMonotonic
  <2> QED
    BY <2>2, <2>3
<1>3. ValueOf(mag \o after, BASE) = v * p + w
  <2> HIDE DEF mag
  <2> QED
    BY <1>n, ValueOfConcat
\* before alone, and after, are read as the ints they are.
<1>4. v \in Nat /\ ft_atoi(before) = IF Negative(before) THEN -v ELSE v
  <2> DEFINE l == Len(before)
  <2>1. l \in Nat /\ l <= Len(before) /\ At(before, l) = NUL
    BY <1>o, AtText
  <2>2. ASSUME NEW j \in 1..l PROVE At(before, j - 1) = before[j]
    <3>1. j - 1 \in Nat /\ j - 1 < Len(before) /\ (j - 1) + 1 = j
      OBVIOUS
    <3>2. At(before, j - 1) = before[(j - 1) + 1]
      BY <1>o, <3>1, AtText
    <3> QED
      BY <3>1, <3>2
  <2> QED
    BY <1>o, <2>1, <2>2, AtoiSigned
<1>m. after \in Seq(Digits \cup {MINUS}) /\ Magnitude(after) = after /\ ~Negative(after)
  <2>1. Digits \subseteq Digits \cup {MINUS}
    OBVIOUS
  <2>2. after \in Seq(Digits \cup {MINUS})
    BY <2>1, SeqMonotonic
  <2>3. ASSUME after # <<>> PROVE after[1] # MINUS
    <3>1. 1 \in 1..Len(after)
      BY <2>3, EmptySeq
    <3>2. after[1] \in Digits
      BY <3>1
    <3> QED
      BY <3>2, NumberOctets
  <2> QED
    BY <2>2, <2>3 DEF Magnitude, Negative
<1>5. w \in Nat /\ ft_atoi(after) = w
  <2> DEFINE l == Len(after)
  <2>1. l \in Nat /\ l <= Len(after) /\ At(after, l) = NUL
    BY <1>o, AtText
  <2>2. ASSUME NEW j \in 1..l PROVE At(after, j - 1) = after[j]
    <3>1. j - 1 \in Nat /\ j - 1 < Len(after) /\ (j - 1) + 1 = j
      OBVIOUS
    <3>2. At(after, j - 1) = after[(j - 1) + 1]
      BY <1>o, <3>1, AtText
    <3> QED
      BY <3>1, <3>2
  <2>3. Magnitude(after) \in Seq(Digits) /\ ValueOf(Magnitude(after), BASE) <= INT_MAX
    BY <1>m
  <2>4. /\ ValueOf(Magnitude(after), BASE) \in Nat
        /\ ft_atoi(after) = IF Negative(after) THEN -ValueOf(Magnitude(after), BASE)
                            ELSE ValueOf(Magnitude(after), BASE)
    BY <1>m, <1>o, <2>1, <2>2, <2>3, AtoiSigned
  <2> QED
    BY <1>m, <2>4
<1>p. p \in Nat /\ Power[0] = 1 /\ Len(after) \in Nat
  BY PowerFacts
<1>g. get_floating_part(after) = [num |-> w, pow |-> Len(after)]
  BY <1>5 DEF get_floating_part
<1>f. ft_atolf(s) =
        IF At(s, 0) = DOT THEN get_floating_part(Tail(s))
        ELSE IF Len(ft_strsplit(s, DOT)) < 2 THEN [num |-> ft_atoi(s), pow |-> 0]
        ELSE [num |-> (IF ft_atoi(ft_strsplit(s, DOT)[1]) < 0 THEN -1 ELSE 1)
                        * (get_floating_part(ft_strsplit(s, DOT)[2]).num
                           + Abs(ft_atoi(ft_strsplit(s, DOT)[1]))
                             * Power[get_floating_part(ft_strsplit(s, DOT)[2]).pow]),
              pow |-> get_floating_part(ft_strsplit(s, DOT)[2]).pow]
  BY DEF ft_atolf
<1>d. \A f : Decimal(f, before, after) <=> f.num * p = sgn * (v * p + w) * Power[f.pow]
  BY <1>3 DEF Decimal, Negative
<1> HIDE DEF v, w, p, sgn, mag
<1>s. sgn \in {-1, 1}
  BY DEF sgn
<1>6. CASE before = <<>>
  <2>1. s = <<DOT>> \o after
    <3>1. <<>> \o <<DOT>> = <<DOT>>
      OBVIOUS
    <3> QED
      BY <1>1, <1>6, <3>1
  <2>2. Tail(s) = after
    BY <1>o, <2>1, Prefixed
  <2>3. At(s, 0) = DOT
    <3>1. s \in Seq(Octets) /\ Len(s) = Len(after) + 1 /\ s[1] = DOT
      BY <1>o, <2>1, Prefixed
    <3>2. 0 < Len(s) /\ 0 + 1 = 1
      BY <1>p, <3>1
    <3> QED
      BY <3>1, <3>2 DEF At
  <2>4. ft_atolf(s) = [num |-> w, pow |-> Len(after)]
    BY <1>f, <1>g, <2>2, <2>3
  <2>5. v = 0 /\ sgn = 1
    BY <1>6, ValueOfNone DEF v, mag, sgn, Magnitude, Negative
  <2>6. w * p = 1 * (0 * p + w) * p
    BY <1>5, <1>p
  <2>7. ft_atolf(s).num = w /\ Power[ft_atolf(s).pow] = p
    BY <2>4 DEF p
  <2>8. ft_atolf(s).num * p = sgn * (v * p + w) * Power[ft_atolf(s).pow]
    BY <2>5, <2>6, <2>7
  <2> QED
    BY <1>1, <1>d, <2>8
<1>7. CASE before # <<>>
  <2> DEFINE l == Len(before)
             parts == ft_strsplit(s, DOT)
  <2>1. At(s, 0) # DOT
    <3>1. 1 \in 1..l /\ 1 - 1 = 0
      BY <1>7, EmptySeq
    <3>2. At(s, 0) = before[1]
      BY <1>2, <3>1 DEF InParts
    <3>3. before[1] \in Digits \cup {MINUS}
      BY <3>1
    <3> QED
      BY <3>2, <3>3, NumberOctets
  <2>2. /\ Len(parts) \in Nat
        /\ after = <<>> => Len(parts) < 2
        /\ after # <<>> => Len(parts) >= 2 /\ parts[1] = before /\ parts[2] = after
    <3>1. SplitsInto(parts, before, after)
      BY <1>2, <1>7, DecimalParts
    <3> HIDE DEF parts
    <3> QED
      BY <3>1 DEF SplitsInto
  <2> HIDE DEF parts
  <2>3. CASE after = <<>>
    <3>1. ft_atoi(s) = IF Negative(before) THEN -v ELSE v
      <4>1. Len(<<DOT>>) = 1 /\ <<DOT>>[1] = DOT /\ 1 \in 1..1 /\ Len(after) = 0 /\ l \in Nat
        BY <2>3
      <4>2. s \in Seq(Octets) /\ Len(s) = l + 1 + 0 /\ \A j \in 1..l : At(s, j - 1) = before[j]
        BY <1>2, <4>1 DEF InParts
      <4>3. l + 1 - 1 = l /\ l <= Len(s)
        BY <4>1, <4>2
      <4>4. At(s, l + 1 - 1) = DOT
        BY <1>2, <4>1 DEF InParts
      <4>5. At(s, l) = DOT
        BY <4>3, <4>4
      <4> QED
        BY <1>7, <4>2, <4>3, <4>5, AtoiSigned DEF v, mag
    <3>2. ft_atolf(s) = [num |-> ft_atoi(s), pow |-> 0]
      BY <1>f, <2>1, <2>2, <2>3 DEF parts
    <3>3. p = 1 /\ w = 0
      <4>1. Len(after) = 0
        BY <2>3
      <4> QED
        BY <1>p, <2>3, <4>1, ValueOfNone DEF p, w
    <3>4. ft_atoi(s) = sgn * v
      BY <1>4, <3>1 DEF sgn
    <3>5. ft_atolf(s).num = sgn * v /\ Power[ft_atolf(s).pow] = 1
      BY <1>p, <3>2, <3>4
    <3>6. (sgn * v) * 1 = sgn * (v * 1 + 0) * 1
      BY <1>4, <1>s
    <3>7. ft_atolf(s).num * p = sgn * (v * p + w) * Power[ft_atolf(s).pow]
      BY <3>3, <3>5, <3>6
    <3> QED
      BY <1>1, <1>d, <3>7
  <2>4. CASE after # <<>>
    <3>1. ft_atolf(s) =
            [num |-> (IF ft_atoi(before) < 0 THEN -1 ELSE 1) * (w + Abs(ft_atoi(before)) * p),
             pow |-> Len(after)]
      <4>1. ~(Len(parts) < 2)
        BY <2>2, <2>4
      <4>2. get_floating_part(parts[2]).num = w /\ get_floating_part(parts[2]).pow = Len(after)
        BY <1>g, <2>2, <2>4
      <4>3. ft_atoi(parts[1]) = ft_atoi(before)
        BY <2>2, <2>4
      <4> QED
        BY <1>f, <2>1, <4>1, <4>2, <4>3 DEF parts, p
    <3>2. Negative(before) => v # 0
      <4>1. SUFFICES ASSUME Negative(before), v = 0 PROVE FALSE
        OBVIOUS
      <4>2. ft_atoi(before) = 0
        <5>1. ft_atoi(before) = -v
          BY <1>4, <4>1
        <5>2. \A x \in Nat : x < 1 => -x = 0
          OBVIOUS
        <5>3. v < 1
          BY <4>1
        <5>4. -v = 0
          BY <1>4, <5>2, <5>3
        <5> QED
          BY <5>1, <5>4
      <4>3. 1 \in 1..l /\ before[1] = MINUS
        BY <1>7, <4>1, EmptySeq DEF Negative
      <4>4. MINUS \in Range(before)
        BY <4>3 DEF Range
      <4> QED
        BY <4>2, <4>4
    <3>3. (IF ft_atoi(before) < 0 THEN -1 ELSE 1) = sgn /\ Abs(ft_atoi(before)) = v
      BY <1>4, <3>2 DEF sgn, Abs
    <3>4. ft_atolf(s).num = sgn * (w + v * p) /\ Power[ft_atolf(s).pow] = p
      BY <3>1, <3>3 DEF p
    <3>5. (sgn * (w + v * p)) * p = sgn * (v * p + w) * p
      BY <1>4, <1>5, <1>p, <1>s
    <3>6. ft_atolf(s).num * p = sgn * (v * p + w) * Power[ft_atolf(s).pow]
      BY <3>4, <3>5
    <3> QED
      BY <1>1, <1>d, <3>6
  <2> QED
    BY <2>3, <2>4
<1> QED
  BY <1>6, <1>7

-----------------------------------------------------------------------------
(* The dumps of print_memory                                                *)

\* f[k] is what is kept of the first k elements of s.
Keeps(f, s, S) ==
  /\ f[0] = <<>>
  /\ \A k \in 1..Len(s) : f[k] = IF s[k] \in S THEN Append(f[k - 1], s[k]) ELSE f[k - 1]

LEMMA KeptIs ==
  ASSUME NEW X, NEW s \in Seq(X), NEW S, NEW f, Keeps(f, s, S)
  PROVE  Kept(s, S) = f[Len(s)]
<1> DEFINE n == Len(s)
           Is(g) == g = [k \in 0..n |-> IF k = 0 THEN <<>>
                                         ELSE IF s[k] \in S THEN Append(g[k - 1], s[k]) ELSE g[k - 1]]
           h == [k \in 0..n |-> f[k]]
<1>n. n \in Nat
  OBVIOUS
<1>1. Is(h)
  <2>1. h = [k \in 0..n |-> h[k]]
    OBVIOUS
  <2>2. ASSUME NEW k \in 0..n
        PROVE  h[k] = IF k = 0 THEN <<>> ELSE IF s[k] \in S THEN Append(h[k - 1], s[k]) ELSE h[k - 1]
    <3>1. h[k] = f[k] /\ (k # 0 => k \in 1..n /\ h[k - 1] = f[k - 1])
      BY <1>n
    <3> HIDE DEF h
    <3> QED
      BY <3>1 DEF Keeps
  <2> HIDE DEF h, n
  <2> QED
    BY <2>1, <2>2
<1>2. PICK g : g = CHOOSE u : Is(u)
  OBVIOUS
<1>3. Is(g)
  <2> HIDE DEF Is
  <2> QED
    BY <1>1, <1>2
<1>4. Kept(s, S) = g[n]
  BY <1>2 DEF Kept
<1>5. n \in {k \in 0..n : g[k] = f[k]}
  <2> DEFINE P == {k \in 0..n : g[k] = f[k]}
  <2>1. 0 \in P
    BY <1>n, <1>3 DEF Keeps
  <2>2. ASSUME NEW k \in 1..n, k - 1 \in P PROVE k \in P
    <3>1. k \in 0..n /\ k # 0 /\ g[k - 1] = f[k - 1]
      BY <1>n, <2>2
    <3>2. g[k] = IF s[k] \in S THEN Append(g[k - 1], s[k]) ELSE g[k - 1]
      BY <1>3, <3>1
    <3>3. f[k] = IF s[k] \in S THEN Append(f[k - 1], s[k]) ELSE f[k - 1]
      BY DEF Keeps
    <3>4. g[k] = f[k]
      BY <3>1, <3>2, <3>3
    <3> QED
      BY <3>1, <3>4
  <2>3. n \in P
    <3>1. n \in 0..n
      BY <1>n
    <3> HIDE DEF P, n
    <3> QED
      BY <1>n, <2>1, <2>2, <3>1, UpTo
  <2> QED
    BY <2>3
<1> QED
  BY <1>4, <1>5

LEMMA KeptOf ==
  ASSUME NEW X, NEW s \in Seq(X), NEW S
  PROVE  \E f \in [0..Len(s) -> Seq(X)] : Keeps(f, s, S) /\ f[Len(s)] = Kept(s, S)
<1> DEFINE n == Len(s)
           step == [p \in (1..n) \X Seq(X) |->
                      IF s[p[1]] \in S THEN Append(p[2], s[p[1]]) ELSE p[2]]
<1>n. n \in Nat /\ <<>> \in Seq(X)
  OBVIOUS
<1>1. step \in [(1..n) \X Seq(X) -> Seq(X)]
  <2>1. ASSUME NEW p \in (1..n) \X Seq(X)
        PROVE  (IF s[p[1]] \in S THEN Append(p[2], s[p[1]]) ELSE p[2]) \in Seq(X)
    <3>1. p[1] \in 1..n /\ p[2] \in Seq(X)
      OBVIOUS
    <3>2. s[p[1]] \in X
      BY <3>1
    <3> DEFINE u == p[2]
               x == s[p[1]]
    <3>3. u \in Seq(X) /\ x \in X
      BY <3>1, <3>2
    <3> HIDE DEF u, x
    <3>4. Append(u, x) \in Seq(X)
      BY <3>3
    <3> QED
      BY <3>3, <3>4 DEF u, x
  <2> HIDE DEF n
  <2> QED
    BY <2>1
<1>2. PICK f \in [0..n -> Seq(X)] : CountsUp(f, n, <<>>, step)
  <2> HIDE DEF step, n
  <2> DEFINE V == Seq(X)
             b == <<>>
  <2>1. b \in V /\ step \in [(1..n) \X V -> V]
    BY <1>n, <1>1
  <2> HIDE DEF V, b
  <2>2. \E f \in [0..n -> V] : CountsUp(f, n, b, step)
    BY <1>n, <2>1, RecursionUp
  <2> QED
    BY <2>2 DEF V, b
<1>3. f[0] = <<>>
  <2>1. 0 \in 0..n
    BY <1>n
  <2> HIDE DEF step, n
  <2> QED
    BY <1>2, <2>1 DEF CountsUp
<1>4. ASSUME NEW k \in 1..n
      PROVE  f[k] = IF s[k] \in S THEN Append(f[k - 1], s[k]) ELSE f[k - 1]
  <2>1. k \in 0..n /\ k - 1 \in 0..n /\ k # 0
    BY <1>n
  <2>2. f[k - 1] \in Seq(X)
    BY <2>1
  <2>3. f[k] = step[<<k, f[k - 1]>>]
    <3> HIDE DEF step, n
    <3> QED
      BY <1>2, <2>1 DEF CountsUp
  <2> HIDE DEF n
  <2> QED
    BY <2>2, <2>3
<1>5. Keeps(f, s, S)
  BY <1>3, <1>4 DEF Keeps
<1> QED
  BY <1>5, KeptIs

KeepsBoth(X, u, v, S) ==
  /\ Kept(u, S) \in Seq(X) /\ Kept(v, S) \in Seq(X)
  /\ Kept(u \o v, S) = Kept(u, S) \o Kept(v, S)

LEMMA KeptConcat ==
  ASSUME NEW X, NEW u \in Seq(X), NEW v \in Seq(X), NEW S
  PROVE  KeepsBoth(X, u, v, S)
<1> DEFINE m == Len(u)
           n == Len(v)
           w == u \o v
           ku == Kept(u, S)
<1>n. m \in Nat /\ n \in Nat /\ w \in Seq(X) /\ Len(w) = m + n
  BY ConcatProperties
<1>w. (\A k \in 1..m : w[k] = u[k]) /\ (\A k \in 1..n : w[m + k] = v[k])
  <2>1. \A k \in 1..m+n : w[k] = IF k <= m THEN u[k] ELSE v[k - m]
    BY ConcatProperties
  <2> HIDE DEF w, m, n
  <2>2. ASSUME NEW k \in 1..m PROVE w[k] = u[k]
    <3>1. k \in 1..m+n /\ k <= m
      BY <1>n
    <3> QED
      BY <2>1, <3>1
  <2>3. ASSUME NEW k \in 1..n PROVE w[m + k] = v[k]
    <3>1. m + k \in 1..m+n /\ ~(m + k <= m) /\ (m + k) - m = k
      BY <1>n
    <3> QED
      BY <2>1, <3>1
  <2> QED
    BY <2>2, <2>3
<1>1. PICK f \in [0..m -> Seq(X)] : Keeps(f, u, S) /\ f[m] = ku
  BY KeptOf
<1>2. PICK g \in [0..n -> Seq(X)] : Keeps(g, v, S) /\ g[n] = Kept(v, S)
  BY KeptOf
<1>f. f[0] = <<>> /\ \A k \in 1..m : f[k] = IF u[k] \in S THEN Append(f[k - 1], u[k]) ELSE f[k - 1]
  BY <1>1 DEF Keeps
<1>g. g[0] = <<>> /\ \A k \in 1..n : g[k] = IF v[k] \in S THEN Append(g[k - 1], v[k]) ELSE g[k - 1]
  BY <1>2 DEF Keeps
<1>v. \A k \in 1..n : v[k] \in X
  OBVIOUS
<1>k. ku \in Seq(X) /\ Kept(v, S) \in Seq(X)
  <2>1. m \in 0..m /\ n \in 0..n
    BY <1>n
  <2> QED
    BY <1>1, <1>2, <2>1
<1> DEFINE h == [k \in 0..m+n |-> IF k <= m THEN f[k] ELSE ku \o g[k - m]]
<1> HIDE DEF m, n, w, ku
<1>3. \A k \in 0..n : h[m + k] = ku \o g[k]
  <2>1. ASSUME NEW k \in 0..n PROVE h[m + k] = ku \o g[k]
    <3>1. m + k \in 0..m+n /\ (m + k) - m = k
      BY <1>n
    <3>2. CASE k = 0
      <4>1. h[m + k] = ku
        <5>1. m + k = m /\ m <= m /\ m \in 0..m+n
          BY <1>n, <3>2
        <5>2. h[m] = f[m]
          BY <5>1
        <5> HIDE DEF h
        <5> QED
          BY <1>1, <5>1, <5>2
      <4>2. ku \o <<>> = ku
        BY <1>k, ConcatEmptySeq
      <4> HIDE DEF h
      <4> QED
        BY <1>g, <3>2, <4>1, <4>2
    <3>3. CASE k # 0
      <4>1. ~(m + k <= m)
        BY <1>n, <3>3
      <4> QED
        BY <3>1, <4>1
    <3> QED
      BY <3>2, <3>3
  <2> QED
    BY <2>1
<1>4. ASSUME NEW k \in 1..m+n
      PROVE  h[k] = IF w[k] \in S THEN Append(h[k - 1], w[k]) ELSE h[k - 1]
  <2>1. CASE k <= m
    <3>1. k \in 1..m /\ k \in 0..m+n /\ k - 1 \in 0..m+n /\ k - 1 <= m
      BY <1>n, <2>1
    <3>2. h[k] = f[k] /\ h[k - 1] = f[k - 1]
      BY <2>1, <3>1
    <3> HIDE DEF h
    <3> QED
      BY <1>f, <1>w, <3>1, <3>2
  <2>2. CASE ~(k <= m)
    <3> DEFINE j == k - m
    <3>1. j \in 1..n /\ j \in 0..n /\ j - 1 \in 0..n /\ k = m + j /\ k - 1 = m + (j - 1)
      BY <1>n, <2>2
    <3> HIDE DEF j
    <3>2. h[k] = ku \o g[j] /\ h[k - 1] = ku \o g[j - 1]
      BY <1>3, <3>1
    <3>3. w[k] = v[j]
      BY <1>w, <3>1
    <3>4. ku \o Append(g[j - 1], v[j]) = Append(ku \o g[j - 1], v[j])
      <4> DEFINE a == g[j - 1]
                 x == v[j]
      <4>1. a \in Seq(X) /\ x \in X
        BY <1>2, <1>v, <3>1
      <4> HIDE DEF a, x
      <4>2. ku \in Seq(X)
        BY <1>k
      <4> QED
        BY <4>1, <4>2
    <3> HIDE DEF h
    <3> QED
      BY <1>g, <3>1, <3>2, <3>3, <3>4
  <2> QED
    BY <2>1, <2>2
<1>5. h[0] = <<>>
  <2>1. 0 \in 0..m+n /\ 0 <= m
    BY <1>n
  <2> QED
    BY <1>f, <2>1
<1>6. Keeps(h, w, S)
  <2> HIDE DEF h
  <2> QED
    BY <1>n, <1>4, <1>5 DEF Keeps
<1>7. Kept(w, S) = h[m + n]
  <2> HIDE DEF h
  <2> QED
    BY <1>n, <1>6, KeptIs
<1>8. h[m + n] = ku \o g[n]
  <2>1. n \in 0..n
    BY <1>n
  <2> HIDE DEF h
  <2> QED
    BY <1>3, <2>1
<1> HIDE DEF h
<1> QED
  BY <1>2, <1>7, <1>8, <1>k DEF w, ku, KeepsBoth

\* A sequence of elements of S is kept, a single other element is not.
LEMMA KeptAll ==
  ASSUME NEW S, NEW s \in Seq(S)
  PROVE  Kept(s, S) = s
<1> DEFINE n == Len(s)
           f == [k \in 0..n |-> SubSeq(s, 1, k)]
<1>n. n \in Nat
  OBVIOUS
<1>1. f[0] = <<>>
  <2>1. 0 \in 0..n /\ SubSeq(s, 1, 0) = <<>>
    BY <1>n, SubSeqEmpty
  <2> QED
    BY <2>1
<1>2. ASSUME NEW k \in 1..n PROVE f[k] = IF s[k] \in S THEN Append(f[k - 1], s[k]) ELSE f[k - 1]
  <2>1. k \in 0..n /\ k - 1 \in 0..n /\ s[k] \in S /\ k \in 1..Len(s) /\ 1 \in 1..Len(s) /\ k \in 1..k
    BY <1>n
  <2> DEFINE a == SubSeq(s, 1, k - 1)
             x == s[k]
  <2>2. SubSeq(s, 1, k) = a \o <<x>>
    <3>1. k \in 1..Len(s)
      BY <2>1
    <3> QED
      BY <2>1, SubSeqRecursiveSecond
  <2>3. a \in Seq(S)
    <3>1. \A i \in 1..k-1 : s[i] \in S
      BY <1>n
    <3> QED
      BY <3>1, SubSeqProperties
  <2>4. a \o <<x>> = Append(a, x)
    <3>1. x \in S
      BY <2>1
    <3> HIDE DEF a, x
    <3> QED
      BY <2>3, <3>1
  <2>5. f[k] = SubSeq(s, 1, k) /\ f[k - 1] = a
    BY <2>1
  <2> HIDE DEF f, a
  <2> QED
    BY <2>1, <2>2, <2>4, <2>5
<1>3. Keeps(f, s, S)
  <2> HIDE DEF f
  <2> QED
    BY <1>1, <1>2 DEF Keeps
<1>4. Kept(s, S) = f[n]
  <2> HIDE DEF f
  <2> QED
    BY <1>3, KeptIs
<1>5. f[n] = s
  <2>1. n \in 0..n /\ SubSeq(s, 1, n) = s
    BY <1>n, SubSeqFull
  <2> QED
    BY <2>1
<1> QED
  BY <1>4, <1>5

LEMMA KeptNone ==
  ASSUME NEW x, NEW S, x \notin S
  PROVE  Kept(<<x>>, S) = <<>> /\ Kept(<<>>, S) = <<>>
<1> DEFINE f == [k \in 0..1 |-> <<>>]
<1>1. <<x>> \in Seq({x}) /\ Len(<<x>>) = 1 /\ <<x>>[1] = x /\ <<>> \in Seq({x}) /\ Len(<<>>) = 0
  OBVIOUS
<1>2. f[0] = <<>> /\ f[1] = <<>>
  OBVIOUS
<1> HIDE DEF f
<1>3. Keeps(f, <<>>, S)
  BY <1>2 DEF Keeps
<1>4. Keeps(f, <<x>>, S)
  <2>1. ASSUME NEW k \in 1..1 PROVE k = 1 /\ k - 1 = 0
    OBVIOUS
  <2> DEFINE s == <<x>>
  <2>2. Len(s) = 1 /\ s[1] \notin S
    BY <1>1
  <2> HIDE DEF s
  <2>3. Keeps(f, s, S)
    BY <1>2, <2>1, <2>2 DEF Keeps
  <2> QED
    BY <2>3 DEF s
<1>5. Kept(<<>>, S) = f[0]
  BY <1>1, <1>3, KeptIs
<1>6. Kept(<<x>>, S) = f[1]
  BY <1>1, <1>4, KeptIs
<1> QED
  BY <1>2, <1>5, <1>6

\* FlattenSeq, one chunk after the other.
LEMMA Flattened ==
  ASSUME NEW X, NEW chunks \in Seq(Seq(X))
  PROVE  \E g \in [0..Len(chunks) -> Seq(X)] :
           /\ g[0] = <<>> /\ \A k \in 1..Len(chunks) : g[k] = g[k - 1] \o chunks[k]
           /\ FlattenSeq(chunks) = g[Len(chunks)]
<1> DEFINE n == Len(chunks)
           V == Seq(X)
           b == <<>>
           step == [p \in (1..n) \X V |-> p[2] \o chunks[p[1]]]
           Is(f) == f = [i \in 1..n |-> IF i = 1 THEN chunks[i] ELSE f[i - 1] \o chunks[i]]
<1>n. n \in Nat /\ b \in V
  OBVIOUS
<1>c. \A k \in 1..n : chunks[k] \in V
  OBVIOUS
<1>1. step \in [(1..n) \X V -> V]
  <2>1. ASSUME NEW p \in (1..n) \X V PROVE p[2] \o chunks[p[1]] \in V
    <3>1. p[1] \in 1..n /\ p[2] \in V /\ chunks[p[1]] \in V
      BY <1>c
    <3> QED
      BY <3>1, ConcatProperties
  <2> HIDE DEF n, V
  <2> QED
    BY <2>1
<1>2. PICK g \in [0..n -> V] : CountsUp(g, n, b, step)
  <2> HIDE DEF step, n, V, b
  <2> QED
    BY <1>n, <1>1, RecursionUp
<1>3. g[0] = <<>>
  <2>1. 0 \in 0..n
    BY <1>n
  <2> HIDE DEF step, n
  <2> QED
    BY <1>2, <2>1 DEF CountsUp
<1>4. ASSUME NEW k \in 1..n PROVE g[k] = g[k - 1] \o chunks[k]
  <2>1. k \in 0..n /\ k - 1 \in 0..n /\ k # 0
    BY <1>n
  <2>2. g[k - 1] \in V
    BY <2>1
  <2>3. g[k] = step[<<k, g[k - 1]>>]
    <3> HIDE DEF step, n, V
    <3> QED
      BY <1>2, <2>1 DEF CountsUp
  <2> HIDE DEF n, V
  <2> QED
    BY <2>2, <2>3
<1>5. FlattenSeq(chunks) = g[n]
  <2>1. CASE n = 0
    <3>1. FlattenSeq(chunks) = chunks /\ chunks = <<>>
      BY <2>1, EmptySeq DEF FlattenSeq
    <3> HIDE DEF n
    <3> QED
      BY <1>3, <2>1, <3>1
  <2>2. CASE n # 0
    <3> DEFINE f == [i \in 1..n |-> g[i]]
    <3>1. Is(f)
      <4>1. ASSUME NEW i \in 1..n
            PROVE  f[i] = IF i = 1 THEN chunks[i] ELSE f[i - 1] \o chunks[i]
        <5>1. CASE i = 1
          <6>1. g[1] = <<>> \o chunks[1]
            <7>1. i - 1 = 0
              BY <5>1
            <7> HIDE DEF n, V, step
            <7> QED
              BY <1>3, <1>4, <5>1, <7>1
          <6>2. <<>> \o chunks[1] = chunks[1]
            BY <1>c, <5>1, ConcatEmptySeq
          <6> QED
            BY <5>1, <6>1, <6>2
        <5>2. CASE i # 1
          <6>1. i - 1 \in 1..n
            BY <1>n, <5>2
          <6>2. f[i] = g[i] /\ f[i - 1] = g[i - 1]
            BY <6>1
          <6> HIDE DEF f
          <6> QED
            BY <1>4, <5>2, <6>2
        <5> QED
          BY <5>1, <5>2
      <4>2. f = [i \in 1..n |-> f[i]]
        OBVIOUS
      <4> HIDE DEF f, n
      <4> QED
        BY <4>1, <4>2
    <3>2. PICK e : e = CHOOSE u : Is(u)
      OBVIOUS
    <3>3. Is(e)
      <4> HIDE DEF Is
      <4> QED
        BY <3>1, <3>2
    <3>4. FlattenSeq(chunks) = e[n]
      BY <2>2, <3>2 DEF FlattenSeq
    <3>5. n \in {i \in 0..n : i = 0 \/ e[i] = g[i]}
      <4> DEFINE P == {i \in 0..n : i = 0 \/ e[i] = g[i]}
      <4>1. 0 \in P
        BY <1>n
      <4>2. ASSUME NEW i \in 1..n, i - 1 \in P PROVE i \in P
        <5>i. i \in 0..n
          BY <1>n
        <5>g. g[i] = g[i - 1] \o chunks[i]
          <6> HIDE DEF n, V, step
          <6> QED
            BY <1>4
        <5>1. i \in 0..n /\ g[i] = g[i - 1] \o chunks[i]
          BY <5>i, <5>g
        <5>2. CASE i = 1
          <6>1. e[i] = chunks[i]
            BY <3>3, <5>2
          <6>2. i - 1 = 0
            BY <5>2
          <6>3. <<>> \o chunks[i] = chunks[i]
            BY <1>c, ConcatEmptySeq
          <6>4. e[i] = g[i]
            BY <1>3, <5>1, <6>1, <6>2, <6>3
          <6> QED
            BY <5>1, <6>4
        <5>3. CASE i # 1
          <6>1. i - 1 # 0 /\ e[i - 1] = g[i - 1]
            BY <4>2, <5>3
          <6>2. e[i] = e[i - 1] \o chunks[i]
            BY <3>3, <5>3
          <6>3. e[i] = g[i]
            BY <5>1, <6>1, <6>2
          <6> QED
            BY <5>1, <6>3
        <5> QED
          BY <5>2, <5>3
      <4>3. n \in P
        <5>1. n \in 0..n
          BY <1>n
        <5> HIDE DEF P, n
        <5> QED
          BY <1>n, <4>1, <4>2, <5>1, UpTo
      <4> QED
        BY <4>3
    <3>6. e[n] = g[n]
      BY <2>2, <3>5
    <3> HIDE DEF n
    <3> QED
      BY <3>4, <3>6
  <2> QED
    BY <2>1, <2>2
<1> QED
  BY <1>3, <1>4, <1>5

\* An octet's digits, in binary and in hexadecimal, are read as the octet.
LEMMA OctetDigits ==
  ASSUME NEW p \in 0..255
  PROVE  /\ print_octet(p) \in Seq(0..15) /\ Len(print_octet(p)) = 8 /\ ValueOf(print_octet(p), 2) = p
         /\ print_octet_hex(p) \in Seq(0..15) /\ Len(print_octet_hex(p)) = 2
         /\ ValueOf(print_octet_hex(p), 16) = p
<1>a. /\ p \div 128 = (p \div 128) % 2
      /\ p \div 64 = (p \div 128) * 2 + ((p \div 64) % 2)
      /\ p \div 32 = (p \div 64) * 2 + ((p \div 32) % 2)
      /\ p \div 16 = (p \div 32) * 2 + ((p \div 16) % 2)
      /\ p \div 8 = (p \div 16) * 2 + ((p \div 8) % 2)
      /\ p \div 4 = (p \div 8) * 2 + ((p \div 4) % 2)
      /\ p \div 2 = (p \div 4) * 2 + ((p \div 2) % 2)
      /\ p = (p \div 2) * 2 + (p % 2)
      /\ p \div 16 = (p \div 16) % 16 /\ p = (p \div 16) * 16 + (p % 16)
  OBVIOUS
<1> DEFINE d == print_octet(p)
           x == print_octet_hex(p)
<1>1. /\ d[1] = (p \div 128) % 2 /\ d[2] = (p \div 64) % 2 /\ d[3] = (p \div 32) % 2
      /\ d[4] = (p \div 16) % 2 /\ d[5] = (p \div 8) % 2 /\ d[6] = (p \div 4) % 2
      /\ d[7] = (p \div 2) % 2 /\ d[8] = p % 2
  <2>1. 2^7 = 128 /\ 2^6 = 64 /\ 2^5 = 32 /\ 2^4 = 16 /\ 2^3 = 8 /\ 2^2 = 4 /\ 2^1 = 2 /\ 2^0 = 1
    OBVIOUS
  <2>2. /\ d[1] = (p \div 2^7) % 2 /\ d[2] = (p \div 2^6) % 2 /\ d[3] = (p \div 2^5) % 2
        /\ d[4] = (p \div 2^4) % 2 /\ d[5] = (p \div 2^3) % 2 /\ d[6] = (p \div 2^2) % 2
        /\ d[7] = (p \div 2^1) % 2 /\ d[8] = (p \div 2^0) % 2
    BY DEF print_octet
  <2> HIDE DEF d
  <2> QED
    BY <2>1, <2>2
<1>2. d \in Seq(0..15) /\ Len(d) = 8
  <2>1. ASSUME NEW b \in 1..8 PROVE d[b] \in 0..15
    <3>1. b = 1 \/ b = 2 \/ b = 3 \/ b = 4 \/ b = 5 \/ b = 6 \/ b = 7 \/ b = 8
      OBVIOUS
    <3> HIDE DEF d
    <3> QED
      BY <1>1, <3>1
  <2>2. d = [b \in 1..8 |-> d[b]]
    BY DEF print_octet
  <2> HIDE DEF d
  <2> QED
    BY <2>1, <2>2
<1>3. ValueOf(d, 2) = p
  <2> DEFINE f == [k \in 0..8 |->
        CASE k = 0 -> 0 [] k = 1 -> p \div 128 [] k = 2 -> p \div 64 [] k = 3 -> p \div 32
          [] k = 4 -> p \div 16 [] k = 5 -> p \div 8 [] k = 6 -> p \div 4 [] k = 7 -> p \div 2
          [] OTHER -> p]
  <2>1. /\ f[0] = 0 /\ f[1] = p \div 128 /\ f[2] = p \div 64 /\ f[3] = p \div 32 /\ f[4] = p \div 16
        /\ f[5] = p \div 8 /\ f[6] = p \div 4 /\ f[7] = p \div 2 /\ f[8] = p
    OBVIOUS
  <2>2. ASSUME NEW k \in 0..8 PROVE f[k] \in Nat
    <3>1. k = 0 \/ k = 1 \/ k = 2 \/ k = 3 \/ k = 4 \/ k = 5 \/ k = 6 \/ k = 7 \/ k = 8
      OBVIOUS
    <3> HIDE DEF f
    <3> QED
      BY <2>1, <3>1
  <2>3. f \in [0..8 -> Nat]
    <3>1. f = [k \in 0..8 |-> f[k]]
      OBVIOUS
    <3> HIDE DEF f
    <3> QED
      BY <2>2, <3>1
  <2>4. ASSUME NEW k \in 1..8 PROVE f[k] = f[k - 1] * 2 + d[k]
    <3> HIDE DEF f, d
    <3>1. CASE k = 1
      BY <1>a, <1>1, <2>1, <3>1, 1 - 1 = 0
    <3>2. CASE k = 2
      BY <1>a, <1>1, <2>1, <3>2, 2 - 1 = 1
    <3>3. CASE k = 3
      BY <1>a, <1>1, <2>1, <3>3, 3 - 1 = 2
    <3>4. CASE k = 4
      BY <1>a, <1>1, <2>1, <3>4, 4 - 1 = 3
    <3>5. CASE k = 5
      BY <1>a, <1>1, <2>1, <3>5, 5 - 1 = 4
    <3>6. CASE k = 6
      BY <1>a, <1>1, <2>1, <3>6, 6 - 1 = 5
    <3>7. CASE k = 7
      BY <1>a, <1>1, <2>1, <3>7, 7 - 1 = 6
    <3>8. CASE k = 8
      BY <1>a, <1>1, <2>1, <3>8, 8 - 1 = 7
    <3> QED
      BY <3>1, <3>2, <3>3, <3>4, <3>5, <3>6, <3>7, <3>8
  <2> HIDE DEF f, d
  <2>5. Reads(f, d, 2)
    BY <1>2, <2>1, <2>3, <2>4 DEF Reads
  <2>6. d \in Seq(Nat)
    BY <1>2, SeqMonotonic
  <2>7. ValueOf(d, 2) = f[Len(d)]
    <3>1. 2 \in Nat
      OBVIOUS
    <3> QED
      BY <2>5, <2>6, <3>1, ValueIs
  <2> QED
    BY <1>2, <2>1, <2>7
<1>4. x \in Seq(0..15) /\ Len(x) = 2 /\ x[1] = (p \div 16) % 16 /\ x[2] = p % 16
  BY DEF print_octet_hex
<1>5. ValueOf(x, 16) = p
  <2> DEFINE f == [k \in 0..2 |-> CASE k = 0 -> 0 [] k = 1 -> p \div 16 [] OTHER -> p]
  <2>1. f[0] = 0 /\ f[1] = p \div 16 /\ f[2] = p /\ f \in [0..2 -> Nat]
    OBVIOUS
  <2>2. ASSUME NEW k \in 1..2 PROVE f[k] = f[k - 1] * 16 + x[k]
    <3> HIDE DEF f, x
    <3>1. CASE k = 1
      <4>1. x[1] = p \div 16 /\ f[1] = p \div 16 /\ f[0] = 0 /\ p \div 16 \in Nat
        BY <1>a, <1>4, <2>1
      <4> QED
        BY <3>1, <4>1
    <3>2. CASE k = 2
      BY <1>a, <1>4, <2>1, <3>2, 2 - 1 = 1
    <3> QED
      BY <3>1, <3>2
  <2> HIDE DEF f, x
  <2>3. Reads(f, x, 16)
    BY <1>4, <2>1, <2>2 DEF Reads
  <2>4. x \in Seq(Nat)
    BY <1>4, SeqMonotonic
  <2>5. ValueOf(x, 16) = f[Len(x)]
    <3>1. 16 \in Nat
      OBVIOUS
    <3> QED
      BY <2>3, <2>4, <3>1, ValueIs
  <2> QED
    BY <1>4, <2>1, <2>5
<1> QED
  BY <1>2, <1>3, <1>4, <1>5

\* D holds the digits of the octets numbered in A, width of them for each.
InRows(D, A, width, digits) ==
  /\ A \in Seq(Nat) /\ Len(D) = width * Len(A)
  /\ \A m \in 1..Len(A), b \in 1..width : D[((m - 1) * width) + b] = digits[A[m]][b]

LEMMA RowAdded ==
  ASSUME NEW X, NEW D \in Seq(X), NEW A, NEW width \in {2, 8}, NEW digits, NEW i \in Nat,
         digits[i] \in Seq(X), Len(digits[i]) = width, InRows(D, A, width, digits)
  PROVE  InRows(D \o digits[i], Append(A, i), width, digits)
<1> DEFINE n == Len(A)
           d == digits[i]
           E == D \o d
           B == Append(A, i)
<1>1. A \in Seq(Nat) /\ Len(D) = width * n
      /\ \A m \in 1..n, b \in 1..width : D[((m - 1) * width) + b] = digits[A[m]][b]
  BY DEF InRows
<1>n. n \in Nat
  BY <1>1
<1>2. B \in Seq(Nat) /\ Len(B) = n + 1 /\ B[n + 1] = i /\ \A m \in 1..n : B[m] = A[m]
  BY <1>1, AppendProperties
<1>3. /\ Len(E) = Len(D) + width
      /\ \A k \in 1..Len(D)+width : E[k] = IF k <= Len(D) THEN D[k] ELSE d[k - Len(D)]
  BY ConcatProperties
<1> HIDE DEF n, d, E, B
<1>4. Len(E) = width * Len(B)
  <2>1. CASE width = 2
    BY <1>1, <1>2, <1>3, <1>n, <2>1
  <2>2. CASE width = 8
    BY <1>1, <1>2, <1>3, <1>n, <2>2
  <2> QED
    BY <2>1, <2>2
<1>5. ASSUME NEW m \in 1..n+1, NEW b \in 1..width
      PROVE  E[((m - 1) * width) + b] = digits[B[m]][b]
  <2> DEFINE k == ((m - 1) * width) + b
  <2>1. CASE m \in 1..n
    <3>1. k \in 1..Len(D)+width /\ k <= Len(D)
      <4>1. CASE width = 2
        BY <1>1, <1>n, <2>1, <4>1
      <4>2. CASE width = 8
        BY <1>1, <1>n, <2>1, <4>2
      <4> QED
        BY <4>1, <4>2
    <3>2. D[k] = digits[A[m]][b]
      BY <1>1, <2>1
    <3> HIDE DEF k
    <3>3. E[k] = D[k] /\ B[m] = A[m]
      BY <1>2, <1>3, <2>1, <3>1
    <3>4. E[k] = digits[B[m]][b]
      BY <3>2, <3>3
    <3> QED
      BY <3>4 DEF k
  <2>2. CASE m \notin 1..n
    <3>0. m = n + 1
      BY <1>n, <2>2
    <3>1. k \in 1..Len(D)+width /\ ~(k <= Len(D)) /\ k - Len(D) = b
      <4>1. CASE width = 2
        BY <1>1, <1>n, <3>0, <4>1
      <4>2. CASE width = 8
        BY <1>1, <1>n, <3>0, <4>2
      <4> QED
        BY <4>1, <4>2
    <3> HIDE DEF k
    <3>2. E[k] = d[b] /\ B[m] = i
      BY <1>2, <1>3, <3>0, <3>1
    <3>3. E[k] = digits[B[m]][b]
      BY <3>2 DEF d
    <3> QED
      BY <3>3 DEF k
  <2> QED
    BY <2>1, <2>2
<1>6. InRows(E, B, width, digits)
  BY <1>2, <1>4, <1>5 DEF InRows
<1> QED
  BY <1>6 DEF E, B, d

\* The digits kept of a dump, when the octets in H, and no others, have theirs in
\* their chunk.
InDump(X, chunks, H, width, digits) ==
  /\ Kept(FlattenSeq(chunks), 0..15) \in Seq(X)
  /\ Kept([k \in 1..Len(chunks) |-> k], H) \in Seq(1..Len(chunks))
  /\ InRows(Kept(FlattenSeq(chunks), 0..15), Kept([k \in 1..Len(chunks) |-> k], H), width, digits)

LEMMA DumpRows ==
  ASSUME NEW X, NEW chunks \in Seq(Seq(X)), NEW H, NEW width \in {2, 8}, NEW digits,
         \A k \in 1..Len(chunks) : Len(digits[k]) = width,
         \A k \in 1..Len(chunks) : Kept(chunks[k], 0..15) = IF k \in H THEN digits[k] ELSE <<>>
  PROVE  InDump(X, chunks, H, width, digits)
<1> DEFINE n == Len(chunks)
           ids == [k \in 1..n |-> k]
<1>n. n \in Nat
  OBVIOUS
<1>i. ids \in Seq(1..n) /\ Len(ids) = n
  OBVIOUS
<1>1. PICK g \in [0..n -> Seq(X)] :
           /\ g[0] = <<>> /\ \A k \in 1..n : g[k] = g[k - 1] \o chunks[k]
           /\ FlattenSeq(chunks) = g[n]
  BY Flattened
<1>2. PICK a \in [0..n -> Seq(1..n)] : Keeps(a, ids, H) /\ a[n] = Kept(ids, H)
  <2> HIDE DEF n, ids
  <2>1. \E f \in [0..Len(ids) -> Seq(1..n)] : Keeps(f, ids, H) /\ f[Len(ids)] = Kept(ids, H)
    BY <1>i, KeptOf
  <2> QED
    BY <1>i, <2>1
<1>a. a[0] = <<>> /\ \A k \in 1..n : a[k] = IF k \in H THEN Append(a[k - 1], k) ELSE a[k - 1]
  <2>1. \A k \in 1..n : ids[k] = k
    OBVIOUS
  <2> HIDE DEF n, ids
  <2> QED
    BY <1>i, <1>2, <2>1 DEF Keeps
<1>c. \A k \in 1..n : chunks[k] \in Seq(X)
  OBVIOUS
<1> DEFINE D(k) == Kept(g[k], 0..15)
           P == {k \in 0..n : D(k) \in Seq(X) /\ InRows(D(k), a[k], width, digits)}
<1>3. 0 \in P
  <2>1. D(0) = <<>>
    <3>1. 16 \notin 0..15
      OBVIOUS
    <3> HIDE DEF n
    <3> QED
      BY <1>1, <3>1, KeptNone
  <2>2. 0 \in 0..n
    BY <1>n
  <2>3. InRows(<<>>, <<>>, width, digits)
    <3>1. Len(<<>>) = 0 /\ <<>> \in Seq(Nat) /\ width * 0 = 0 /\ 1..0 = {}
      OBVIOUS
    <3> QED
      BY <3>1 DEF InRows
  <2>4. <<>> \in Seq(X)
    OBVIOUS
  <2> HIDE DEF n
  <2> QED
    BY <1>a, <2>1, <2>2, <2>3, <2>4
<1>4. ASSUME NEW k \in 1..n, k - 1 \in P PROVE k \in P
  <2>1. k \in 0..n /\ k - 1 \in 0..n /\ k \in Nat
    BY <1>n
  <2>2. D(k - 1) \in Seq(X) /\ InRows(D(k - 1), a[k - 1], width, digits)
    BY <1>4
  <2> DEFINE c == Kept(chunks[k], 0..15)
  <2> HIDE DEF P, n
  <2>3. c \in Seq(X) /\ D(k) = D(k - 1) \o c
    <3>1. g[k - 1] \in Seq(X) /\ chunks[k] \in Seq(X) /\ g[k] = g[k - 1] \o chunks[k]
      BY <1>1, <1>c, <2>1
    <3>2. PICK u, v, S : u = g[k - 1] /\ v = chunks[k] /\ S = 0..15
      OBVIOUS
    <3>3. u \in Seq(X) /\ v \in Seq(X) /\ g[k] = u \o v
      BY <3>1, <3>2
    <3>4. Kept(v, S) \in Seq(X) /\ Kept(g[k], S) = Kept(u, S) \o Kept(v, S)
      <4>1. KeepsBoth(X, u, v, S)
        BY <3>3, KeptConcat
      <4> QED
        BY <3>3, <4>1 DEF KeepsBoth
    <3>5. Kept(v, S) = c /\ Kept(u, S) = D(k - 1) /\ Kept(g[k], S) = D(k)
      BY <3>2 DEF c
    <3> HIDE DEF c, D
    <3> QED
      BY <3>4, <3>5
  <2>4. c = IF k \in H THEN digits[k] ELSE <<>>
    BY DEF n
  <2>5. Len(digits[k]) = width
    BY DEF n
  <2> HIDE DEF D, c
  <2>6. D(k) \in Seq(X)
    BY <2>2, <2>3, ConcatProperties
  <2>7. InRows(D(k), a[k], width, digits)
    <3>1. CASE k \in H
      <4>1. digits[k] \in Seq(X)
        BY <2>3, <2>4, <3>1
      <4>2. InRows(D(k - 1) \o digits[k], Append(a[k - 1], k), width, digits)
        BY <2>1, <2>2, <2>5, <4>1, RowAdded
      <4> QED
        BY <1>a, <2>3, <2>4, <3>1, <4>2
    <3>2. CASE k \notin H
      <4>1. D(k) = D(k - 1)
        BY <2>2, <2>3, <2>4, <3>2, ConcatEmptySeq
      <4> QED
        BY <1>a, <2>2, <3>2, <4>1
    <3> QED
      BY <3>1, <3>2
  <2> QED
    BY <2>1, <2>6, <2>7 DEF P
<1>5. n \in P
  <2>1. n \in 0..n
    BY <1>n
  <2> HIDE DEF P, n
  <2> QED
    BY <1>n, <1>3, <1>4, <2>1, UpTo
<1>6. D(n) \in Seq(X) /\ InRows(D(n), a[n], width, digits) /\ a[n] \in Seq(1..n)
  <2>1. n \in 0..n
    BY <1>n
  <2> HIDE DEF n
  <2> QED
    BY <1>2, <1>5, <2>1
<1> HIDE DEF n
<1> QED
  BY <1>1, <1>2, <1>6 DEF n, InDump

RowsOf(D, A, width, digits) ==
  /\ Len(D) \div width = Len(A)
  /\ \A m \in 1..Len(A) : SubSeq(D, (m - 1) * width + 1, m * width) = digits[A[m]]

LEMMA RowsAre ==
  ASSUME NEW X, NEW D \in Seq(X), NEW n \in Nat, NEW A \in Seq(1..n), NEW width \in {2, 8}, NEW digits,
         \A k \in 1..n : digits[k] \in Seq(0..15) /\ Len(digits[k]) = width,
         InRows(D, A, width, digits)
  PROVE  RowsOf(D, A, width, digits)
<1> DEFINE j == Len(A)
<1>1. /\ j \in Nat /\ Len(D) = width * j
      /\ \A m \in 1..j, b \in 1..width : D[((m - 1) * width) + b] = digits[A[m]][b]
  BY DEF InRows
<1> HIDE DEF j
<1>2. Len(D) \div width = j
  <2>1. CASE width = 2
    BY <1>1, <2>1
  <2>2. CASE width = 8
    BY <1>1, <2>2
  <2> QED
    BY <2>1, <2>2
<1>3. ASSUME NEW m \in 1..j
      PROVE  SubSeq(D, (m - 1) * width + 1, m * width) = digits[A[m]]
  <2> DEFINE lo == (m - 1) * width + 1
             hi == m * width
             e == digits[A[m]]
             row == SubSeq(D, lo, hi)
  <2>1. lo \in 1..Len(D) /\ hi \in 1..Len(D) /\ lo <= hi /\ (hi - lo) + 1 = width
    <3>m. m \in Nat /\ 1 <= m /\ m <= j /\ Len(D) = width * j /\ j \in Nat
      BY <1>1
    <3>1. CASE width = 2
      BY <3>m, <3>1
    <3>2. CASE width = 8
      BY <3>m, <3>2
    <3> QED
      BY <3>1, <3>2
  <2>2. \A b \in 1..width : (lo + b) - 1 = ((m - 1) * width) + b
    <3>1. CASE width = 2
      BY <1>1, <3>1
    <3>2. CASE width = 8
      BY <1>1, <3>2
    <3> QED
      BY <3>1, <3>2
  <2>3. e \in Seq(0..15) /\ Len(e) = width
    <3>1. A[m] \in 1..n
      BY DEF j
    <3> QED
      BY <3>1
  <2> HIDE DEF lo, hi, e
  <2>4. row \in Seq(X) /\ Len(row) = width
        /\ \A b \in 1..width : row[b] = D[(lo + b) - 1]
    <3>1. \A i \in lo..hi : D[i] \in X
      BY <2>1
    <3>2. row \in Seq(X)
      BY <2>1, <3>1, SubSeqProperties
    <3>3. Len(row) = (hi - lo) + 1
      BY <2>1, <3>1, SubSeqProperties
    <3>4. \A b \in 1..(hi - lo) + 1 : row[b] = D[lo + b - 1]
      BY <2>1, <3>1, SubSeqProperties
    <3>5. ASSUME NEW b \in 1..width PROVE row[b] = D[(lo + b) - 1]
      <4>1. b \in 1..(hi - lo) + 1 /\ lo + b - 1 = (lo + b) - 1
        BY <2>1
      <4> HIDE DEF row
      <4> QED
        BY <3>4, <4>1
    <3> HIDE DEF row
    <3> QED
      BY <2>1, <3>2, <3>3, <3>5
  <2> HIDE DEF row
  <2>5. ASSUME NEW b \in 1..width PROVE row[b] = e[b]
    <3>1. D[((m - 1) * width) + b] = e[b]
      BY <1>1 DEF e
    <3> QED
      BY <2>2, <2>4, <3>1
  <2>6. row = e
    <3>1. row \in Seq(X \cup (0..15)) /\ e \in Seq(X \cup (0..15))
      <4>1. row \in Seq(X \cup (0..15))
        BY <2>4, SeqMonotonic
      <4>2. e \in Seq(X \cup (0..15))
        BY <2>3, SeqMonotonic
      <4> QED
        BY <4>1, <4>2
    <3> QED
      BY <2>3, <2>4, <2>5, <3>1, SeqEqual
  <2> QED
    BY <2>6 DEF row, lo, hi, e
<1> QED
  BY <1>2, <1>3 DEF j, RowsOf

\* The digits of text, read back, are the octets whose number is in H.
ReadsBack(text, octets, H, base, width) ==
  LET digits == Kept(text, 0..15)
      all == Kept([k \in 1..Len(octets) |-> k], H)
  IN [k \in 1..Len(digits) \div width |->
        ValueOf(SubSeq(digits, (k - 1) * width + 1, k * width), base)]
       = [k \in 1..Len(all) |-> octets[all[k]]]

LEMMA DumpRead ==
  ASSUME NEW X, NEW octets \in Seq(0..255), NEW chunks \in Seq(Seq(X)), Len(chunks) = Len(octets),
         NEW H, NEW width \in {2, 8}, NEW base, NEW digits,
         \A k \in 1..Len(octets) :
           digits[k] \in Seq(0..15) /\ Len(digits[k]) = width /\ ValueOf(digits[k], base) = octets[k],
         \A k \in 1..Len(octets) :
           Kept(chunks[k], 0..15) = IF k \in H THEN digits[k] ELSE <<>>
  PROVE  ReadsBack(FlattenSeq(chunks), octets, H, base, width)
<1>n. PICK n \in Nat : n = Len(octets) /\ n = Len(chunks)
  OBVIOUS
<1>1. PICK D, A : D = Kept(FlattenSeq(chunks), 0..15) /\ A = Kept([k \in 1..n |-> k], H)
  OBVIOUS
<1>2. D \in Seq(X) /\ A \in Seq(1..n) /\ InRows(D, A, width, digits)
  <2>1. InDump(X, chunks, H, width, digits)
    <3>1. \A k \in 1..Len(chunks) : Len(digits[k]) = width
      OBVIOUS
    <3> QED
      BY <3>1, DumpRows
  <2> QED
    BY <1>n, <1>1, <2>1 DEF InDump
<1>3. /\ Len(D) \div width = Len(A)
      /\ \A m \in 1..Len(A) : SubSeq(D, (m - 1) * width + 1, m * width) = digits[A[m]]
  <2>1. RowsOf(D, A, width, digits)
    <3>1. \A k \in 1..n : digits[k] \in Seq(0..15) /\ Len(digits[k]) = width
      BY <1>n
    <3> QED
      BY <1>2, <3>1, RowsAre
  <2> QED
    BY <2>1 DEF RowsOf
<1>4. \A m \in 1..Len(A) : ValueOf(SubSeq(D, (m - 1) * width + 1, m * width), base) = octets[A[m]]
  <2>1. ASSUME NEW m \in 1..Len(A)
        PROVE  ValueOf(SubSeq(D, (m - 1) * width + 1, m * width), base) = octets[A[m]]
    <3>1. A[m] \in 1..n
      BY <1>2
    <3>2. ValueOf(digits[A[m]], base) = octets[A[m]]
      BY <1>n, <3>1
    <3>3. SubSeq(D, (m - 1) * width + 1, m * width) = digits[A[m]]
      BY <1>3
    <3> QED
      BY <3>2, <3>3
  <2> QED
    BY <2>1
<1>5. [k \in 1..Len(D) \div width |-> ValueOf(SubSeq(D, (k - 1) * width + 1, k * width), base)]
        = [k \in 1..Len(A) |-> octets[A[k]]]
  BY <1>3, <1>4
<1> QED
  BY <1>n, <1>1, <1>5 DEF ReadsBack

\* The octets whose digits are in a dump: all of them in binary, not the heads of
\* the rows in hexadecimal.
Shown(octets, base) ==
  {k \in 1..Len(octets) : base = 2 \/ k \notin {i \in 1..Len(octets) : i # 1 /\ (i - 1) % ROW16 = 0}}

\* A mark is not kept.
LEMMA MarkKept ==
  ASSUME NEW x \in {NEWLINE, BAR, BLANK}
  PROVE  Kept(<<x>>, 0..15) = <<>> /\ Kept(<<>>, 0..15) = <<>>
<1>1. PICK S : S = 0..15
  OBVIOUS
<1>2. x \notin S
  BY <1>1, MarksAssumption
<1>3. Kept(<<x>>, S) = <<>> /\ Kept(<<>>, S) = <<>>
  BY <1>2, KeptNone
<1> QED
  BY <1>1, <1>3

\* Digits between marks.
Between(X, u, d, x) ==
  /\ u \o d \o <<x>> \in Seq(X) /\ Kept(u \o d \o <<x>>, 0..15) = d
  /\ d \o <<x>> \in Seq(X) /\ Kept(d \o <<x>>, 0..15) = d
  /\ u \o <<x>> \in Seq(X) /\ Kept(u \o <<x>>, 0..15) = <<>>

LEMMA Marked ==
  ASSUME NEW X, X = (0..15) \cup {NEWLINE, BAR, BLANK},
         NEW u \in Seq(X), NEW d \in Seq(0..15), NEW x \in {NEWLINE, BAR, BLANK},
         u = <<>> \/ u = <<NEWLINE>>
  PROVE  Between(X, u, d, x)
<1>1. PICK S, v, w : S = 0..15 /\ v = <<x>> /\ w = u \o d
  OBVIOUS
<1>2. v \in Seq(X) /\ d \in Seq(X)
  <2>1. v \in Seq(X)
    BY <1>1
  <2>2. d \in Seq(X)
    BY SeqMonotonic
  <2> QED
    BY <2>1, <2>2
<1>3. w \in Seq(X)
  BY <1>1, <1>2, ConcatProperties
<1>4. Kept(v, S) = <<>> /\ Kept(u, S) = <<>> /\ Kept(d, S) = d
  <2>1. Kept(<<x>>, 0..15) = <<>> /\ Kept(<<>>, 0..15) = <<>>
    BY MarkKept
  <2>2. Kept(<<NEWLINE>>, 0..15) = <<>>
    BY MarkKept
  <2>3. Kept(d, S) = d
    BY <1>1, KeptAll
  <2> QED
    BY <1>1, <2>1, <2>2, <2>3
<1>5. KeepsBoth(X, w, v, S) /\ KeepsBoth(X, u, d, S) /\ KeepsBoth(X, d, v, S) /\ KeepsBoth(X, u, v, S)
  BY <1>2, <1>3, KeptConcat
<1>6. <<>> \o d = d /\ d \o <<>> = d /\ <<>> \in Seq(X) /\ <<>> \o <<>> = <<>>
  <2>1. <<>> \in Seq(X)
    OBVIOUS
  <2> QED
    BY <1>2, <2>1, ConcatEmptySeq
<1>7. Kept(w, S) = d
  BY <1>1, <1>4, <1>5, <1>6 DEF KeepsBoth
<1>8. Kept(w \o v, S) = d /\ Kept(d \o v, S) = d /\ Kept(u \o v, S) = <<>>
  BY <1>4, <1>5, <1>6, <1>7 DEF KeepsBoth
<1>9. w \o v \in Seq(X) /\ d \o v \in Seq(X) /\ u \o v \in Seq(X)
  BY <1>2, <1>3, ConcatProperties
<1> QED
  BY <1>1, <1>8, <1>9 DEF Between

LEMMA BinaryDump ==
  ASSUME NEW octets \in Seq(0..255)
  PROVE  ReadsBack(print_memory_binary(octets), octets, Shown(octets, 2), 2, 8)
<1> DEFINE n == Len(octets)
           X == (0..15) \cup {NEWLINE, BAR, BLANK}
           pre(k) == IF k > 1 /\ (k - 1) % ROW2 = 0 THEN <<NEWLINE>> ELSE <<>>
           chunk(k) == pre(k) \o print_octet(octets[k]) \o <<BAR>>
           chunks == [k \in 1..n |-> chunk(k)]
           digits == [k \in 1..n |-> print_octet(octets[k])]
           H == Shown(octets, 2)
<1>n. n \in Nat /\ \A k \in 1..n : octets[k] \in 0..255 /\ k \in H
  <2>1. n \in Nat /\ \A k \in 1..n : octets[k] \in 0..255
    <3>1. n \in Nat
      OBVIOUS
    <3>2. ASSUME NEW k \in 1..n PROVE octets[k] \in 0..255
      BY ElementOfSeq
    <3> HIDE DEF n
    <3> QED
      BY <3>1, <3>2
  <2>2. \A k \in 1..n : k \in H
    BY DEF Shown
  <2> HIDE DEF n, H
  <2> QED
    BY <2>1, <2>2
<1>1. ASSUME NEW k \in 1..n
      PROVE  /\ chunk(k) \in Seq(X) /\ Kept(chunk(k), 0..15) = digits[k]
             /\ digits[k] \in Seq(0..15) /\ Len(digits[k]) = 8 /\ ValueOf(digits[k], 2) = octets[k]
  <2>1. PICK d : d = print_octet(octets[k])
    OBVIOUS
  <2>2. d \in Seq(0..15) /\ Len(d) = 8 /\ ValueOf(d, 2) = octets[k]
    BY <1>n, <2>1, OctetDigits
  <2>3. PICK u : u = pre(k)
    OBVIOUS
  <2>4. u = <<>> \/ u = <<NEWLINE>>
    BY <2>3
  <2>x. NEWLINE \in X
    OBVIOUS
  <2> HIDE DEF pre, X
  <2>5. u \in Seq(X)
    <3>1. <<>> \in Seq(X) /\ <<NEWLINE>> \in Seq(X)
      BY <2>x
    <3> QED
      BY <2>4, <3>1
  <2>6. u \o d \o <<BAR>> \in Seq(X) /\ Kept(u \o d \o <<BAR>>, 0..15) = d
    <3>1. X = (0..15) \cup {NEWLINE, BAR, BLANK} /\ BAR \in {NEWLINE, BAR, BLANK}
      BY DEF X
    <3>2. Between(X, u, d, BAR)
      BY <2>2, <2>4, <2>5, <3>1, Marked
    <3> QED
      BY <3>2 DEF Between
  <2>7. chunk(k) = u \o d \o <<BAR>> /\ digits[k] = d
    BY <2>1, <2>3
  <2> HIDE DEF chunk, digits
  <2> QED
    BY <2>2, <2>6, <2>7
<1> HIDE DEF chunk, digits, X, H
<1>2. chunks \in Seq(Seq(X)) /\ Len(chunks) = n /\ \A k \in 1..n : chunks[k] = chunk(k)
  BY <1>n, <1>1
<1>3. print_memory_binary(octets) = FlattenSeq(chunks)
  BY DEF print_memory_binary, chunk
<1> HIDE DEF chunks
<1>4. \A k \in 1..n :
        digits[k] \in Seq(0..15) /\ Len(digits[k]) = 8 /\ ValueOf(digits[k], 2) = octets[k]
  BY <1>1
<1>5. \A k \in 1..n : Kept(chunks[k], 0..15) = IF k \in H THEN digits[k] ELSE <<>>
  BY <1>n, <1>1, <1>2
<1>6. 8 \in {2, 8}
  OBVIOUS
<1>7. ReadsBack(FlattenSeq(chunks), octets, H, 2, 8)
  BY <1>2, <1>4, <1>5, <1>6, DumpRead
<1> QED
  BY <1>3, <1>7 DEF H

LEMMA HexaDump ==
  ASSUME NEW octets \in Seq(0..255), NEW base, base # 2
  PROVE  ReadsBack(print_memory_hexa(octets), octets, Shown(octets, base), 16, 2)
<1> DEFINE n == Len(octets)
           X == (0..15) \cup {NEWLINE, BAR, BLANK}
           chunk(k) == (IF (k - 1) % ROW16 = 0 /\ k # 1 THEN <<NEWLINE>> ELSE print_octet_hex(octets[k]))
                         \o <<BLANK>>
           chunks == [k \in 1..n |-> chunk(k)]
           digits == [k \in 1..n |-> print_octet_hex(octets[k])]
           H == Shown(octets, base)
<1>n. /\ n \in Nat /\ \A k \in 1..n : octets[k] \in 0..255
      /\ \A k \in 1..n : k \in H <=> ~((k - 1) % ROW16 = 0 /\ k # 1)
  <2>1. n \in Nat /\ \A k \in 1..n : octets[k] \in 0..255
    <3>1. n \in Nat
      OBVIOUS
    <3>2. ASSUME NEW k \in 1..n PROVE octets[k] \in 0..255
      BY ElementOfSeq
    <3> HIDE DEF n
    <3> QED
      BY <3>1, <3>2
  <2>2. ASSUME NEW k \in 1..n PROVE k \in H <=> ~((k - 1) % ROW16 = 0 /\ k # 1)
    <3> DEFINE heads == {i \in 1..n : i # 1 /\ (i - 1) % ROW16 = 0}
    <3>1. k \in H <=> k \notin heads
      BY DEF Shown
    <3>2. k \in heads <=> (k # 1 /\ (k - 1) % ROW16 = 0)
      OBVIOUS
    <3> HIDE DEF heads, H
    <3> QED
      BY <3>1, <3>2
  <2> HIDE DEF n, H
  <2> QED
    BY <2>1, <2>2
<1>1. ASSUME NEW k \in 1..n
      PROVE  /\ chunk(k) \in Seq(X)
             /\ Kept(chunk(k), 0..15) = IF k \in H THEN digits[k] ELSE <<>>
             /\ digits[k] \in Seq(0..15) /\ Len(digits[k]) = 2 /\ ValueOf(digits[k], 16) = octets[k]
  <2>1. PICK d : d = print_octet_hex(octets[k])
    OBVIOUS
  <2>2. d \in Seq(0..15) /\ Len(d) = 2 /\ ValueOf(d, 16) = octets[k]
    BY <1>n, <2>1, OctetDigits
  <2>3. PICK u : u = <<NEWLINE>>
    OBVIOUS
  <2>4. u \in Seq(X)
    BY <2>3
  <2>5. digits[k] = d
    BY <2>1
  <2> HIDE DEF X
  <2>6. /\ d \o <<BLANK>> \in Seq(X) /\ Kept(d \o <<BLANK>>, 0..15) = d
        /\ u \o <<BLANK>> \in Seq(X) /\ Kept(u \o <<BLANK>>, 0..15) = <<>>
    <3>1. X = (0..15) \cup {NEWLINE, BAR, BLANK} /\ BLANK \in {NEWLINE, BAR, BLANK}
      BY DEF X
    <3>2. Between(X, u, d, BLANK)
      BY <2>2, <2>3, <2>4, <3>1, Marked
    <3> QED
      BY <3>2 DEF Between
  <2>7. CASE k \in H
    <3>1. chunk(k) = d \o <<BLANK>>
      BY <1>n, <2>1, <2>7
    <3> HIDE DEF chunk, digits, H
    <3> QED
      BY <2>2, <2>5, <2>6, <2>7, <3>1
  <2>8. CASE k \notin H
    <3>1. chunk(k) = u \o <<BLANK>>
      BY <1>n, <2>3, <2>8
    <3> HIDE DEF chunk, digits, H
    <3> QED
      BY <2>2, <2>5, <2>6, <2>8, <3>1
  <2> QED
    BY <2>7, <2>8
<1> HIDE DEF chunk, digits, X, H
<1>2. chunks \in Seq(Seq(X)) /\ Len(chunks) = n /\ \A k \in 1..n : chunks[k] = chunk(k)
  BY <1>n, <1>1
<1>3. print_memory_hexa(octets) = FlattenSeq(chunks)
  BY DEF print_memory_hexa, chunk
<1> HIDE DEF chunks
<1>4. \A k \in 1..n :
        digits[k] \in Seq(0..15) /\ Len(digits[k]) = 2 /\ ValueOf(digits[k], 16) = octets[k]
  BY <1>1
<1>5. \A k \in 1..n : Kept(chunks[k], 0..15) = IF k \in H THEN digits[k] ELSE <<>>
  BY <1>1, <1>2
<1>6. 2 \in {2, 8}
  OBVIOUS
<1>7. ReadsBack(FlattenSeq(chunks), octets, H, 16, 2)
  BY <1>2, <1>4, <1>5, <1>6, DumpRead
<1> QED
  BY <1>3, <1>7 DEF H

-----------------------------------------------------------------------------
(* The calls                                                                *)

\* A call is one of those the code makes sense of, and what it returned is what
\* its function computes.
Called ==
  /\ LegalCall(call) \/ LegalNumberCall(call)
  /\ out # NONE =>
       /\ call.f = "strsplit" => out = ft_strsplit(call.s, call.c)
       /\ call.f = "strtrim" => out = ft_strtrim(call.s)
       /\ call.f = "strstr" => out = ft_strstr(call.s, call.nd)
       /\ call.f = "strnstr" => out = ft_strnstr(call.s, call.nd, call.n)
       /\ call.f = "itoa" => out = ft_itoa(call.nb)
       /\ call.f = "putnbr" => out = ft_putnbr(call.nb)
       /\ call.f = "atoi" => out = ft_atoi(call.before \o ft_itoa(call.nb) \o call.after)
       /\ call.f = "atolf" => out = ft_atolf(call.before \o <<DOT>> \o call.after)
       /\ call.f = "sqrt" => out = ft_sqrt(call.nb)
       /\ call.f = "print_memory" => out = print_memory(call.octets, call.base)
       /\ call.f = "print_memory_hexa" =>
            out = [text |-> print_memory_hexa(call.octets), left |-> Left_by_hexa(call.octets)]

\* Called is kept by every function.
LEMMA CallsAreLegal == NumbersSpec => []Called
<1>1. NumbersInit => Called
  BY CallsAssumption, NumberCallsAssumption DEF NumbersInit, Called
<1>2. Called /\ [NumbersNext]_vars => Called'
  <2> SUFFICES ASSUME Called, [NumbersNext]_vars PROVE Called'
    OBVIOUS
  <2> USE DEF Returns, Called
  <2>1. CASE strsplit
    BY <2>1 DEF strsplit
  <2>2. CASE strtrim
    BY <2>2 DEF strtrim
  <2>3. CASE strstr
    BY <2>3 DEF strstr
  <2>4. CASE strnstr
    BY <2>4 DEF strnstr
  <2>5. CASE itoa
    BY <2>5 DEF itoa
  <2>6. CASE putnbr
    BY <2>6 DEF putnbr
  <2>7. CASE atoi
    BY <2>7 DEF atoi
  <2>8. CASE atolf
    BY <2>8 DEF atolf
  <2>9. CASE sqrt
    BY <2>9 DEF sqrt
  <2>10. CASE memory
    BY <2>10 DEF memory
  <2>11. CASE hexa
    BY <2>11 DEF hexa
  <2>12. CASE returned \/ UNCHANGED vars
    BY <2>12 DEF returned, vars
  <2> QED
    BY <2>1, <2>2, <2>3, <2>4, <2>5, <2>6, <2>7, <2>8, <2>9, <2>10, <2>11, <2>12 DEF NumbersNext, Next
<1> QED
  BY <1>1, <1>2, PTL DEF NumbersSpec

\* What each function is given.
LEMMA Arguments ==
  ASSUME LegalCall(call) \/ LegalNumberCall(call)
  PROVE  /\ call.f = "strsplit" => call.s \in Seq(Octets) /\ call.c \in Octets \cup {NUL}
         /\ call.f = "strtrim" => call.s \in Seq(Octets)
         /\ call.f = "strstr" => call.s \in Seq(Octets) /\ call.nd \in Seq(Octets)
         /\ call.f = "strnstr" => call.s \in Seq(Octets) /\ call.nd \in Seq(Octets) /\ call.n \in Nat
         /\ call.f \in {"itoa", "putnbr", "sqrt", "atoi"} => call.nb \in INT_MIN..INT_MAX
         /\ call.f = "atoi" =>
              /\ call.before \in Seq(Octets) /\ call.after \in Seq(Octets)
              /\ \A k \in 1..Len(call.before) :
                   call.before[k] = BLANK \/ (call.before[k] = PLUS /\ k = Len(call.before) /\ call.nb >= 0)
              /\ call.after # <<>> => call.after[1] \notin Digits
         /\ call.f = "atolf" =>
              /\ call.before \in Seq(Digits \cup {MINUS}) /\ call.after \in Seq(Digits)
              /\ Magnitude(call.before) \in Seq(Digits)
              /\ ValueOf(Magnitude(call.before), BASE) <= INT_MAX /\ ValueOf(call.after, BASE) <= INT_MAX
         /\ call.f = "print_memory" => call.octets \in Seq(0..255) /\ call.base \in {2, 8, 16}
         /\ call.f = "print_memory_hexa" => call.octets \in Seq(0..255)
BY DEF LegalCall, LegalNumberCall

\* ft_strsplit gives every longest run of a text without the separator, in order,
\* and nothing else, for every text and separator, the NUL too.
THEOREM SplitsIntoWordsCorrect == NumbersSpec => []SplitsIntoWords
<1>1. Called => SplitsIntoWords
  <2> SUFFICES ASSUME Called, Returned("strsplit") PROVE SplitsIntoWords
    BY DEF SplitsIntoWords
  <2> DEFINE s == call.s
             c == call.c
  <2>1. s \in Seq(Octets) /\ c \in Octets \cup {NUL} /\ out = ft_strsplit(s, c)
    BY Arguments DEF Called, Returned
  <2>2. {w \in WordsOf(s, c) : w[2] <= Len(s)} = WordsOf(s, c)
    BY DEF WordsOf
  <2> HIDE DEF s, c
  <2>3. AreWords(s, c, Len(s), out)
    BY <2>1, SplitOf
  <2>4. \E at \in [1..Len(out) -> WordsOf(s, c)] :
          /\ \A n \in 1..Len(out) : out[n] = SubSeq(s, at[n][1], at[n][2])
          /\ \A m, n \in 1..Len(out) : m < n => at[m][1] < at[n][1]
          /\ Range(at) = WordsOf(s, c)
    BY <2>2, <2>3 DEF AreWords
  <2> QED
    BY <2>4 DEF SplitsIntoWords, WordsOf, s, c
<1> QED
  BY <1>1, CallsAreLegal, PTL

\* ft_strtrim drops the blanks at both ends of a text and nothing else, when the
\* text has an octet that is not blank.
THEOREM TrimsBlanksCorrect == NumbersSpec => []TrimsBlanks
<1>1. Called => TrimsBlanks
  <2> SUFFICES ASSUME Called, Returned("strtrim"), ~out.outside PROVE TrimsBlanks
    BY DEF TrimsBlanks
  <2>1. call.s \in Seq(Octets) /\ out = ft_strtrim(call.s)
    BY Arguments DEF Called, Returned
  <2> QED
    BY <2>1, TrimOf DEF TrimsBlanks
<1> QED
  BY <1>1, CallsAreLegal, PTL

\* ft_strstr and ft_strnstr find the first occurrence of a text, or none when there
\* is none, for every pair of texts and every bound.
THEOREM FindsFirstCorrect == NumbersSpec => []FindsFirst
<1>1. Called => FindsFirst
  <2> SUFFICES ASSUME Called PROVE FindsFirst
    OBVIOUS
  <2>1. ASSUME Returned("strstr")
        PROVE  IsFirst(out, {i \in 0..Len(call.s) : Occurs(call.nd, call.s, i)})
    <3>1. call.s \in Seq(Octets) /\ call.nd \in Seq(Octets) /\ out = ft_strstr(call.s, call.nd)
      BY <2>1, Arguments DEF Called, Returned
    <3> QED
      BY <3>1, StrstrFirst
  <2>2. ASSUME Returned("strnstr")
        PROVE  IsFirst(out, {i \in 0..Len(call.s) :
                 Occurs(call.nd, call.s, i) /\ (i + Len(call.nd) <= call.n \/ call.nd = <<>>)})
    <3>1. /\ call.s \in Seq(Octets) /\ call.nd \in Seq(Octets) /\ call.n \in Nat
          /\ out = ft_strnstr(call.s, call.nd, call.n)
      BY <2>2, Arguments DEF Called, Returned
    <3> QED
      BY <3>1, StrnstrFirst
  <2> QED
    BY <2>1, <2>2 DEF FindsFirst
<1> QED
  BY <1>1, CallsAreLegal, PTL

\* ft_sqrt gives the root of every square that is an int and 0 for every other int,
\* whatever the width of int.
THEOREM SqrtExactCorrect == NumbersSpec => []SqrtExact
<1>1. Called => SqrtExact
  <2> SUFFICES ASSUME Called, Returned("sqrt") PROVE SqrtExact
    BY DEF SqrtExact
  <2>1. call.nb \in Ints /\ out = ft_sqrt(call.nb)
    BY Arguments DEF Called, Returned, Ints
  <2> QED
    BY <2>1, SqrtOf DEF SqrtExact
<1> QED
  BY <1>1, CallsAreLegal, PTL

LEMMA ShortestIs ==
  ASSUME NEW d, Shortest(d, call.nb), out = Text(call.nb, d)
  PROVE  ShortestText
<1>1. d \in Seq(Digits) /\ ValueOf(d, BASE) = Abs(call.nb) /\ (Len(d) > 1 => d[1] # 0)
  BY DEF Shortest
<1>2. \A k \in 1..Len(d) : d[k] \in Digits
  BY <1>1
<1>3. CASE call.nb < 0
  <2>1. out = <<MINUS>> \o d
    BY <1>3 DEF Text
  <2>2. d \in Seq(Octets) /\ MINUS \in Octets
    BY <1>1, NumberOctets, SeqMonotonic
  <2>3. out[1] = MINUS /\ Tail(out) = d
    BY <2>1, <2>2, Prefixed
  <2> QED
    BY <1>1, <1>2, <1>3, <2>3 DEF ShortestText
<1>4. CASE ~(call.nb < 0)
  <2>1. out = d
    BY <1>4 DEF Text
  <2> QED
    BY <1>1, <1>2, <1>4, <2>1 DEF ShortestText
<1> QED
  BY <1>3, <1>4

\* ft_itoa and ft_putnbr write the shortest text of every int, INT_MIN too;
\* ft_atoi reads it back after blanks and a plus and before other octets; ft_atolf
\* reads decimals, but for a whole part of -0.
THEOREM NumbersReadBackCorrect == NumbersSpec => []NumbersReadBack
<1>1. Called => NumbersReadBack
  <2> SUFFICES ASSUME Called PROVE NumbersReadBack
    OBVIOUS
  <2>1. ASSUME Returned("itoa") PROVE ShortestText
    <3>1. call.nb \in INT_MIN..INT_MAX /\ out = ft_itoa(call.nb)
      BY <2>1, Arguments DEF Called, Returned
    <3>2. call.nb \in Int
      BY <3>1, IntFacts
    <3>3. \E d : Shortest(d, call.nb) /\ ft_itoa(call.nb) = Text(call.nb, d)
      BY <3>2, ItoaOf
    <3> QED
      BY <3>1, <3>3, ShortestIs
  <2>2. ASSUME Returned("putnbr") PROVE ShortestText
    <3>1. call.nb \in INT_MIN..INT_MAX /\ out = ft_putnbr(call.nb)
      BY <2>2, Arguments DEF Called, Returned
    <3>2. \E d : Shortest(d, call.nb) /\ ft_putnbr(call.nb) = Text(call.nb, d)
      BY <3>1, PutnbrOf
    <3> QED
      BY <3>1, <3>2, ShortestIs
  <2>3. ASSUME Returned("atoi") PROVE out = call.nb
    <3>1. /\ call.nb \in INT_MIN..INT_MAX /\ call.before \in Seq(Octets) /\ call.after \in Seq(Octets)
          /\ \A k \in 1..Len(call.before) :
               call.before[k] = BLANK \/ (call.before[k] = PLUS /\ k = Len(call.before) /\ call.nb >= 0)
          /\ call.after # <<>> => call.after[1] \notin Digits
      BY <2>3, Arguments DEF Called, Returned
    <3>2. out = ft_atoi(call.before \o ft_itoa(call.nb) \o call.after)
      BY <2>3 DEF Called, Returned
    <3>3. ft_atoi(call.before \o ft_itoa(call.nb) \o call.after) = call.nb
      BY <3>1, AtoiReadsBack
    <3> QED
      BY <3>2, <3>3
  <2>4. ASSUME Returned("atolf"), ~(ft_atoi(call.before) = 0 /\ MINUS \in Range(call.before))
        PROVE  DecimalRead
    <3>1. /\ call.before \in Seq(Digits \cup {MINUS}) /\ call.after \in Seq(Digits)
          /\ Magnitude(call.before) \in Seq(Digits)
          /\ ValueOf(Magnitude(call.before), BASE) <= INT_MAX /\ ValueOf(call.after, BASE) <= INT_MAX
      BY <2>4, Arguments DEF Called, Returned
    <3>2. out = ft_atolf(call.before \o <<DOT>> \o call.after)
      BY <2>4 DEF Called, Returned
    <3>3. Decimal(ft_atolf(call.before \o <<DOT>> \o call.after), call.before, call.after)
      BY <2>4, <3>1, AtolfOf
    <3> QED
      BY <3>2, <3>3 DEF Decimal, DecimalRead
  <2> QED
    BY <2>1, <2>2, <2>3, <2>4 DEF NumbersReadBack
<1> QED
  BY <1>1, CallsAreLegal, PTL

\* DumpsReadBack, of what was returned.
Dumped(base, width) ==
  LET digits == Kept(out.text, 0..15)
      shown == [k \in 1..Len(digits) \div width |->
                  ValueOf(SubSeq(digits, (k - 1) * width + 1, k * width), base)]
      heads == {k \in 1..Len(call.octets) : k # 1 /\ (k - 1) % ROW16 = 0}
      all == Kept([k \in 1..Len(call.octets) |-> k],
                  {k \in 1..Len(call.octets) : base = 2 \/ k \notin heads})
  IN /\ base \in {2, 16} => shown = [k \in 1..Len(all) |-> call.octets[all[k]]]
     /\ call.f = "print_memory" => out.left = call.octets
     /\ \A k \in 1..Len(call.octets) : k \in heads => out.left[k] = call.octets[k]

LEMMA DumpedIs ==
  ASSUME NEW base, NEW width, base = IF call.f = "print_memory" THEN call.base ELSE 16,
         width = IF base = 2 THEN 8 ELSE 2,
         base \in {2, 16} => ReadsBack(out.text, call.octets, Shown(call.octets, base), base, width),
         call.f = "print_memory" => out.left = call.octets,
         \A k \in 1..Len(call.octets) : k # 1 /\ (k - 1) % ROW16 = 0 => out.left[k] = call.octets[k]
  PROVE  DumpsReadBack
<1>1. Dumped(base, width)
  <2> DEFINE heads == {k \in 1..Len(call.octets) : k # 1 /\ (k - 1) % ROW16 = 0}
             digits == Kept(out.text, 0..15)
             shown == [k \in 1..Len(digits) \div width |->
                         ValueOf(SubSeq(digits, (k - 1) * width + 1, k * width), base)]
             all == Kept([k \in 1..Len(call.octets) |-> k], Shown(call.octets, base))
  <2>1. ASSUME NEW k \in 1..Len(call.octets), k \in heads PROVE out.left[k] = call.octets[k]
    BY <2>1
  <2>2. base \in {2, 16} => shown = [k \in 1..Len(all) |-> call.octets[all[k]]]
    BY DEF ReadsBack
  <2>3. Shown(call.octets, base) = {k \in 1..Len(call.octets) : base = 2 \/ k \notin heads}
    BY DEF Shown
  <2>4. \A k \in 1..Len(call.octets) : k \in heads => out.left[k] = call.octets[k]
    <3> HIDE DEF heads
    <3> QED
      BY <2>1
  <2> QED
    BY <2>2, <2>4 DEF Dumped, Shown
<1>2. Dumped(IF call.f = "print_memory" THEN call.base ELSE 16,
             IF (IF call.f = "print_memory" THEN call.base ELSE 16) = 2 THEN 8 ELSE 2)
  BY <1>1
<1> QED
  BY <1>2 DEF DumpsReadBack, Dumped

\* print_memory and print_memory_hexa write digits that read back as the octets in
\* their order, in hexadecimal without the heads of the rows; print_memory leaves
\* the memory as it was, print_memory_hexa the heads.  For every memory, every
\* width of the rows and every mark that is no digit.
THEOREM DumpsReadBackCorrect == NumbersSpec => []DumpsReadBack
<1>1. Called => DumpsReadBack
  <2>1. ASSUME Called, Returned("print_memory")
        PROVE  /\ call.f = "print_memory" /\ call.octets \in Seq(0..255) /\ call.base \in {2, 8, 16}
               /\ out = print_memory(call.octets, call.base)
    BY <2>1, Arguments DEF Called, Returned
  <2>2. ASSUME Called, Returned("print_memory_hexa")
        PROVE  /\ call.f = "print_memory_hexa" /\ call.octets \in Seq(0..255)
               /\ out = [text |-> print_memory_hexa(call.octets), left |-> Left_by_hexa(call.octets)]
    BY <2>2, Arguments DEF Called, Returned
  <2>3. ASSUME Called, Returned("print_memory") PROVE DumpsReadBack
    <3>1. out.left = call.octets
      BY <2>1, <2>3 DEF print_memory
    <3>2. CASE call.base = 2
      <4>1. out.text = print_memory_binary(call.octets)
        BY <2>1, <2>3, <3>2 DEF print_memory
      <4>2. ReadsBack(out.text, call.octets, Shown(call.octets, 2), 2, 8)
        BY <2>1, <2>3, <4>1, BinaryDump
      <4> QED
        BY <2>1, <2>3, <3>1, <3>2, <4>2, DumpedIs
    <3>3. CASE call.base = 16
      <4>1. out.text = print_memory_hexa(call.octets)
        BY <2>1, <2>3, <3>3 DEF print_memory
      <4>2. ReadsBack(out.text, call.octets, Shown(call.octets, 16), 16, 2)
        BY <2>1, <2>3, <4>1, HexaDump
      <4> QED
        BY <2>1, <2>3, <3>1, <3>3, <4>2, DumpedIs
    <3>4. CASE call.base = 8
      BY <2>1, <2>3, <3>1, <3>4, DumpedIs
    <3> QED
      BY <2>1, <2>3, <3>2, <3>3, <3>4
  <2>4. ASSUME Called, Returned("print_memory_hexa") PROVE DumpsReadBack
    <3>1. out.text = print_memory_hexa(call.octets) /\ out.left = Left_by_hexa(call.octets)
      BY <2>2, <2>4
    <3>2. ReadsBack(out.text, call.octets, Shown(call.octets, 16), 16, 2)
      BY <2>2, <2>4, <3>1, HexaDump
    <3>3. ASSUME NEW k \in 1..Len(call.octets), k # 1 /\ (k - 1) % ROW16 = 0
          PROVE  out.left[k] = call.octets[k]
      BY <3>1, <3>3 DEF Left_by_hexa
    <3> QED
      BY <2>2, <2>4, <3>2, <3>3, DumpedIs
  <2> QED
    BY <2>3, <2>4 DEF DumpsReadBack
<1> QED
  BY <1>1, CallsAreLegal, PTL
=============================================================================
