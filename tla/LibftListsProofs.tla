-------------------------- MODULE LibftListsProofs --------------------------
(***************************************************************************)
(* Proofs about LibftLists for every heap, every number of lists, every    *)
(* set of contents and every function given to lstiter and lstmap.         *)
(***************************************************************************)
EXTENDS LibftLists, TLAPS, FiniteSetTheorems, WellFoundedInduction

-----------------------------------------------------------------------------
(* The invariant.  It speaks of one link at a time; that the lists then are *)
(* apart, finite and hold every element is the lemma HeapInvOwns.           *)

Types ==
  /\ live \subseteq Nodes /\ used \subseteq Blocks /\ leaked \subseteq live \cup used
  /\ next \in [Nodes -> Nodes \cup {NULL}]
  /\ content \in [Nodes -> Blocks \cup {NULL}]
  /\ data \in [Blocks -> Values \cup {NULL}]
  /\ head \in [Lists -> Nodes \cup {NULL}] /\ made \in Nodes \cup {NULL}
  /\ pc \in {"idle", "lstdel", "lstiter", "lstmap", "segv"} /\ back \in BOOLEAN
  /\ pc \in {"lstdel", "lstiter", "lstmap"} => list \in Lists
  /\ stack \in Seq(Nodes) /\ fresh \in Seq(Nodes \cup {NULL}) /\ called \in Seq(Nodes)
  /\ start \in Seq(Nodes \X (Values \cup {NULL}))

\* The elements the program has not lost.
Owned == live \ leaked

\* The lists that start at R and go on by nx, over the elements V: no two links
\* lead to one element, none to the start of a list, and every element is
\* reached (whatever set of elements has one that is a start, or that an element
\* outside the set leads to).
Forest(V, nx, R) ==
  /\ R \subseteq V
  /\ \A n \in V : nx[n] \in V \cup {NULL}
  /\ \A n, m \in V : nx[n] = nx[m] /\ nx[n] # NULL => n = m
  /\ \A r \in R, n \in V : nx[n] # r
  /\ \A S \in SUBSET V : S # {} => \E n \in S : n \in R \/ \E m \in V \ S : nx[m] = n

\* Every pointer held by the caller or a frame is another one.
RootsApart ==
  /\ \A l, m \in Lists : head[l] = head[m] /\ head[l] # NULL => l = m
  /\ \A l \in Lists : made # NULL => head[l] # made
  /\ \A k, h \in 1..Len(fresh) : fresh[k] = fresh[h] /\ fresh[k] # NULL => k = h
  /\ \A k \in 1..Len(fresh) : fresh[k] # NULL =>
       fresh[k] # made /\ \A l \in Lists : fresh[k] # head[l]
  /\ made # NULL => next[made] = NULL

ContentsApart ==
  /\ \A n \in Nodes : content[n] # NULL =>
       n \in live /\ content[n] \in used /\ (n \in leaked <=> content[n] \in leaked)
  /\ \A b \in used \ leaked : \E n \in Owned : content[n] = b
  /\ \A n, m \in Nodes : content[n] = content[m] /\ content[n] # NULL => n = m

\* s is the list from n on.
Nth(s, k) == IF k \in 1..Len(s) THEN s[k] ELSE NULL
IsPath(s, n, nx) == n = Nth(s, 1) /\ \A k \in 1..Len(s) : nx[s[k]] = Nth(s, k + 1)

\* The elements of the list when the call was made, and the values they had.
Old(k) == start[k][1]
OldValue(k) == start[k][2]

\* How much of that list is left: lstdel frees it from its end.
Remaining == IF pc = "lstdel" /\ back THEN Len(stack) ELSE Len(start)

\* The frames are at the first elements of the list.
FramesInList ==
  /\ Len(stack) \in 1..Len(start) /\ head[list] = Old(1)
  /\ \A k \in 1..Len(stack) : stack[k] = Old(k)
  /\ \A k, h \in 1..Len(start) : Old(k) = Old(h) => k = h
  /\ \A k \in 1..Remaining : /\ Old(k) \in Owned
                             /\ next[Old(k)] = IF k < Remaining THEN Old(k + 1) ELSE NULL
  /\ \A k \in Remaining+1..Len(start) : Old(k) \notin live

\* Who has had its call.
CalledSoFar ==
  /\ pc \in {"lstdel", "lstiter"} =>
       called = [k \in 1..(IF back THEN Len(start) - Len(stack) ELSE 0) |-> Old(Len(start) + 1 - k)]
  /\ pc = "lstmap" => called = [k \in 1..(IF back THEN Len(start) ELSE Len(stack) - 1) |-> Old(k)]

\* What lstmap made so far: one element per frame, and behind the last of them
\* the list the deeper calls made.
Chain(s, n, from, length) ==
  /\ IsPath(s, n, next) /\ Len(s) \in {length, length - 1}
  /\ \A k \in 1..Len(s) : ValueOf(s[k]) = Mapped(OldValue(from + k))

FreshInv ==
  IF pc = "lstmap"
  THEN /\ Len(fresh) = IF back THEN Len(stack) ELSE Len(stack) - 1
       /\ \A k \in 1..Len(fresh) : k < Len(fresh) \/ ~back => fresh[k] # NULL /\ next[fresh[k]] = NULL
       /\ \A k \in 1..Len(fresh) : fresh[k] # NULL => ValueOf(fresh[k]) = Mapped(OldValue(k))
       /\ back => \E s \in Seq(Owned) :
            Chain(s, fresh[Len(fresh)], Len(stack) - 1, Len(start) - Len(stack) + 1)
  ELSE fresh = <<>>

OldValues ==
  /\ pc = "lstmap" => \A k \in 1..Len(start) : ValueOf(Old(k)) = OldValue(k)
  /\ pc = "lstiter" => \A k \in 1..Len(start) :
       ValueOf(Old(k)) = IF back /\ k > Len(stack) THEN Mapped(OldValue(k)) ELSE OldValue(k)

\* CallbacksInOrder, in terms of links.
Returned ==
  called # <<>> =>
    LET old == [k \in 1..Len(start) |-> Old(k)]
    IN /\ list \in Lists /\ Len(start) > 0
       /\ \/ called = Reverse(old) /\ head[list] = NULL /\ \A k \in 1..Len(start) : Old(k) \notin live
          \/ /\ called = Reverse(old) /\ IsPath(old, head[list], next)
             /\ \A k \in 1..Len(start) : ValueOf(Old(k)) = Mapped(OldValue(k))
          \/ /\ called = old /\ IsPath(old, head[list], next)
             /\ \A k \in 1..Len(start) : ValueOf(Old(k)) = OldValue(k)
             /\ \E m \in Lists \ {list}, s \in Seq(Owned) : Chain(s, head[m], 0, Len(start))

HeapInv == Forest(Owned, next, Roots) /\ RootsApart /\ ContentsApart
CallInv ==
  IF pc = "idle" THEN stack = <<>> /\ fresh = <<>> /\ Returned
  ELSE FramesInList /\ CalledSoFar /\ FreshInv /\ OldValues

IInv == Types /\ (pc # "segv" => HeapInv /\ CallInv)

-----------------------------------------------------------------------------
(* Walking along the links.  A set of naturals has a least member, which is *)
(* what induction comes down to here.                                       *)

LEMMA LeastNat ==
  ASSUME NEW T, T \subseteq Nat, T # {}
  PROVE  \E n \in T : \A k \in T : n <= k
<1> DEFINE Below == {p \in Nat \X Nat : p[1] < p[2]}
<1>1. IsWellFoundedOn(Below, Nat)
  BY NatLessThanWellFounded DEF OpToRel
<1>2. PICK n \in T : \A k \in T : <<k, n>> \notin Below
  <2> HIDE DEF Below
  <2> QED
    BY <1>1, WFMin, Zenon
<1>3. ASSUME NEW k \in T PROVE n <= k
  <2>1. <<k, n>> \in Nat \X Nat /\ ~(<<k, n>>[1] < <<k, n>>[2])
    BY <1>2
  <2> QED
    BY <2>1
<1> QED
  BY <1>3

Limit == Cardinality(Nodes)

LEMMA LimitNat == Limit \in Nat
BY HeapAssumption, FS_CardinalityType DEF Limit

\* Walk is the function its recursion describes.
LEMMA WalkDef ==
  ASSUME NEW n
  PROVE  Walk(n) = [k \in 0..Limit |->
            IF k = 0 THEN n ELSE IF Walk(n)[k - 1] = NULL THEN NULL ELSE next[Walk(n)[k - 1]]]
<1> DEFINE After(e) == IF e = NULL THEN NULL ELSE next[e]
           Walks(f, c) == f = [k \in 0..c |-> IF k = 0 THEN n ELSE After(f[k - 1])]
           T == {c \in Nat : ~ \E f : Walks(f, c)}
<1>1. T = {}
  <2> SUFFICES ASSUME T # {} PROVE FALSE
    OBVIOUS
  <2>1. PICK c \in T : \A k \in T : c <= k
    <3>1. T \subseteq Nat
      OBVIOUS
    <3> HIDE DEF T
    <3> QED
      BY <3>1, LeastNat
  <2>2. c # 0
    <3>1. Walks([k \in 0..0 |-> n], 0)
      OBVIOUS
    <3> QED
      BY <3>1
  <2>3. c - 1 \in Nat /\ c - 1 \notin T
    BY <2>1, <2>2
  <2>4. PICK f : Walks(f, c - 1)
    BY <2>3
  <2> DEFINE h == [k \in 0..c |-> IF k = c THEN After(f[c - 1]) ELSE f[k]]
  <2> HIDE DEF After
  <2>5. ASSUME NEW k \in 0..c
        PROVE  h[k] = IF k = 0 THEN n ELSE After(h[k - 1])
    <3>1. CASE k = c
      BY <2>2, <2>3, <3>1
    <3>2. CASE k # c
      <4>1. k \in 0..c-1 /\ (k # 0 => k - 1 \in 0..c /\ k - 1 # c)
        BY <2>3, <3>2
      <4>2. f[k] = IF k = 0 THEN n ELSE After(f[k - 1])
        BY <2>4, <4>1
      <4> QED
        BY <3>2, <4>1, <4>2
    <3> QED
      BY <3>1, <3>2
  <2>6. Walks(h, c)
    BY <2>5
  <2> QED
    BY <2>1, <2>6
<1>2. \E f : Walks(f, Limit)
  BY <1>1, LimitNat
<1>3. Walk(n) = CHOOSE f : Walks(f, Limit)
  BY DEF Walk, Limit
<1> HIDE DEF Walks
<1>4. Walks(Walk(n), Limit)
  BY <1>2, <1>3
<1> QED
  BY <1>4 DEF Walks

LEMMA WalkStep ==
  ASSUME NEW n
  PROVE  /\ Walk(n)[0] = n
         /\ \A k \in 1..Limit : Walk(n)[k] = IF Walk(n)[k - 1] = NULL THEN NULL ELSE next[Walk(n)[k - 1]]
<1> DEFINE W == Walk(n)
<1>1. W = [k \in 0..Limit |-> IF k = 0 THEN n ELSE IF W[k - 1] = NULL THEN NULL ELSE next[W[k - 1]]]
  BY WalkDef
<1> HIDE DEF W
<1>2. W[0] = n /\ \A k \in 1..Limit : W[k] = IF W[k - 1] = NULL THEN NULL ELSE next[W[k - 1]]
  BY <1>1, LimitNat
<1> QED
  BY <1>2 DEF W

\* The walk along a forest stays in it.
LEMMA WalkInForest ==
  ASSUME NEW V, NEW R, Forest(V, next, R), NEW r \in R
  PROVE  \A k \in 0..Limit : Walk(r)[k] \in V \cup {NULL}
<1> DEFINE W == Walk(r)
           T == {k \in 0..Limit : W[k] \notin V \cup {NULL}}
<1> SUFFICES ASSUME T # {} PROVE FALSE
  OBVIOUS
<1>1. PICK k \in T : \A h \in T : k <= h
  <2>1. T \subseteq Nat
    BY LimitNat
  <2> HIDE DEF T
  <2> QED
    BY <2>1, LeastNat
<1>2. W[0] = r /\ \A h \in 1..Limit : W[h] = IF W[h - 1] = NULL THEN NULL ELSE next[W[h - 1]]
  BY WalkStep
<1> HIDE DEF W
<1>3. k # 0
  BY <1>1, <1>2 DEF Forest
<1>4. k \in 1..Limit /\ k - 1 \in 0..Limit /\ ~(k <= k - 1)
  BY <1>1, <1>3, LimitNat
<1>5. W[k - 1] \in V \cup {NULL}
  BY <1>1, <1>4
<1>6. W[k] \in V \cup {NULL}
  BY <1>2, <1>4, <1>5 DEF Forest
<1> QED
  BY <1>1, <1>6

\* ... and meets no element twice.
LEMMA WalkApart ==
  ASSUME NEW V, NEW R, Forest(V, next, R), NEW r \in R, V \subseteq Nodes
  PROVE  \A k, h \in 0..Limit : k < h /\ Walk(r)[h] # NULL => Walk(r)[k] # Walk(r)[h]
<1> DEFINE W == Walk(r)
           T == {k \in 0..Limit : \E h \in 0..Limit : k < h /\ W[h] # NULL /\ W[k] = W[h]}
<1> SUFFICES ASSUME T # {} PROVE FALSE
  OBVIOUS
<1>1. PICK k \in T : \A h \in T : k <= h
  <2>1. T \subseteq Nat
    BY LimitNat
  <2> HIDE DEF T
  <2> QED
    BY <2>1, LeastNat
<1>2. PICK h \in 0..Limit : k < h /\ W[h] # NULL /\ W[k] = W[h]
  BY <1>1
<1>3. W[0] = r /\ \A i \in 1..Limit : W[i] = IF W[i - 1] = NULL THEN NULL ELSE next[W[i - 1]]
  BY WalkStep
<1>4. \A i \in 0..Limit : W[i] \in V \cup {NULL}
  BY WalkInForest
<1> HIDE DEF W
<1>5. k \in 0..Limit /\ h \in 1..Limit /\ h - 1 \in 0..Limit
  BY <1>1, <1>2, LimitNat
<1>6. W[h - 1] \in V /\ W[h] = next[W[h - 1]]
  BY <1>2, <1>3, <1>4, <1>5
<1>7. k # 0
  BY <1>2, <1>3, <1>6 DEF Forest
<1>8. k \in 1..Limit /\ k - 1 \in 0..Limit /\ k - 1 < h - 1 /\ ~(k <= k - 1)
  BY <1>2, <1>5, <1>7, LimitNat
<1>9. W[k - 1] \in V /\ W[k] = next[W[k - 1]]
  BY <1>2, <1>3, <1>4, <1>8
<1>10. W[k - 1] = W[h - 1] /\ W[h - 1] # NULL
  <2>1. W[h - 1] # NULL
    BY <1>2, <1>3, <1>5
  <2> QED
    BY <2>1, <1>2, <1>6, <1>9 DEF Forest
<1>11. k - 1 \in T
  BY <1>5, <1>8, <1>10
<1> QED
  BY <1>1, <1>8, <1>11

\* So it ends: there are no more elements than Nodes.
LEMMA WalkEnds ==
  ASSUME NEW V, NEW R, Forest(V, next, R), NEW r \in R, V \subseteq Nodes
  PROVE  \E m \in 1..Limit : \A k \in 0..Limit : Walk(r)[k] = NULL <=> m <= k
<1> DEFINE W == Walk(r)
<1>0. Limit \in Nat
  BY LimitNat
<1>1. W[0] = r /\ \A i \in 1..Limit : W[i] = IF W[i - 1] = NULL THEN NULL ELSE next[W[i - 1]]
  BY WalkStep
<1>2. \A i \in 0..Limit : W[i] \in V \cup {NULL}
  BY WalkInForest
<1>3. \A k, h \in 0..Limit : k < h /\ W[h] # NULL => W[k] # W[h]
  BY WalkApart
<1>4. r \in V /\ r # NULL
  BY FAssumption DEF Forest
<1> HIDE DEF W
<1> DEFINE T == {k \in 0..Limit : W[k] = NULL}
<1>5. T # {}
  <2> SUFFICES ASSUME \A k \in 0..Limit : W[k] # NULL PROVE FALSE
    OBVIOUS
  <2> DEFINE g == [k \in 0..Limit |-> W[k]]
  <2>1. g \in [0..Limit -> Nodes]
    BY <1>2
  <2>2. IsFiniteSet(0..Limit) /\ Cardinality(0..Limit) = Limit + 1
    BY <1>0, FS_Interval
  <2>3. IsFiniteSet(Nodes) /\ Cardinality(Nodes) < Cardinality(0..Limit)
    BY <1>0, <2>2, HeapAssumption DEF Limit
  <2> HIDE DEF g
  <2>4. PICK k, h \in 0..Limit : k # h /\ g[k] = g[h]
    BY <2>1, <2>2, <2>3, FS_PigeonHole
  <2>5. W[k] = W[h]
    BY <2>4 DEF g
  <2> QED
    BY <1>0, <1>3, <2>4, <2>5
<1>6. PICK m \in T : \A k \in T : m <= k
  <2>1. T \subseteq Nat
    BY <1>0
  <2> HIDE DEF T
  <2> QED
    BY <1>5, <2>1, LeastNat
<1>7. m \in 1..Limit
  BY <1>0, <1>1, <1>4, <1>6
<1>8. ASSUME NEW k \in 0..Limit, m <= k PROVE W[k] = NULL
  <2> DEFINE U == {h \in 0..Limit : m <= h /\ W[h] # NULL}
  <2> SUFFICES ASSUME U # {} PROVE FALSE
    BY <1>8
  <2>1. PICK h \in U : \A i \in U : h <= i
    <3>1. U \subseteq Nat
      BY <1>0
    <3> HIDE DEF U
    <3> QED
      BY <3>1, LeastNat
  <2>2. h # m
    BY <1>6, <2>1
  <2>3. h \in 1..Limit /\ h - 1 \in 0..Limit /\ m <= h - 1 /\ ~(h <= h - 1)
    BY <1>0, <1>7, <2>1, <2>2
  <2>4. W[h - 1] = NULL
    BY <2>1, <2>3
  <2> QED
    BY <1>1, <2>1, <2>3, <2>4
<1>9. ASSUME NEW k \in 0..Limit, W[k] = NULL PROVE m <= k
  BY <1>6, <1>9
<1> QED
  BY <1>7, <1>8, <1>9 DEF W

\* The list that starts at r is a path of its own elements, and no other is.
LEMMA ListIsPath ==
  ASSUME NEW V, NEW R, Forest(V, next, R), NEW r \in R, V \subseteq Nodes
  PROVE  /\ ListFrom(r) \in Seq(V) /\ Len(ListFrom(r)) > 0 /\ IsPath(ListFrom(r), r, next)
         /\ \A k, h \in 1..Len(ListFrom(r)) : ListFrom(r)[k] = ListFrom(r)[h] => k = h
<1> DEFINE W == Walk(r)
           s == ListFrom(r)
<1>0. Limit \in Nat
  BY LimitNat
<1>1. W[0] = r /\ \A i \in 1..Limit : W[i] = IF W[i - 1] = NULL THEN NULL ELSE next[W[i - 1]]
  BY WalkStep
<1>2. \A i \in 0..Limit : W[i] \in V \cup {NULL}
  BY WalkInForest
<1>3. \A k, h \in 0..Limit : k < h /\ W[h] # NULL => W[k] # W[h]
  BY WalkApart
<1>4. PICK m \in 1..Limit : \A k \in 0..Limit : W[k] = NULL <=> m <= k
  BY WalkEnds
<1>5. s = [k \in {k \in 1..Limit : W[k - 1] # NULL} |-> W[k - 1]]
  BY DEF ListFrom, Limit
<1> HIDE DEF W, s
<1>6. {k \in 1..Limit : W[k - 1] # NULL} = 1..m
  BY <1>0, <1>4
<1>7. s = [k \in 1..m |-> W[k - 1]]
  BY <1>5, <1>6
<1>8. \A k \in 1..m : W[k - 1] \in V /\ W[k - 1] # NULL
  BY <1>0, <1>2, <1>4
<1>9. s \in Seq(V) /\ Len(s) = m /\ m > 0
  BY <1>0, <1>7, <1>8
<1>10. IsPath(s, r, next)
  <2>1. Nth(s, 1) = r
    BY <1>0, <1>1, <1>7, <1>9 DEF Nth
  <2>2. ASSUME NEW k \in 1..m PROVE next[s[k]] = Nth(s, k + 1)
    <3>1. k \in 1..Limit /\ s[k] = W[k - 1] /\ s[k] # NULL
      BY <1>0, <1>7, <1>8
    <3>2. next[s[k]] = W[k]
      BY <1>1, <3>1
    <3>3. CASE k < m
      <4>1. k + 1 \in 1..m /\ s[k + 1] = W[k]
        BY <1>0, <1>7, <3>3
      <4> QED
        BY <1>9, <3>2, <4>1 DEF Nth
    <3>4. CASE k = m
      <4>1. W[k] = NULL /\ k + 1 \notin 1..m
        BY <1>0, <1>4, <3>1, <3>4
      <4> QED
        BY <1>9, <3>2, <4>1 DEF Nth
    <3> QED
      BY <1>0, <3>3, <3>4
  <2> QED
    BY <1>9, <2>1, <2>2 DEF IsPath
<1>11. ASSUME NEW k \in 1..m, NEW h \in 1..m, s[k] = s[h] PROVE k = h
  <2>1. k - 1 \in 0..Limit /\ h - 1 \in 0..Limit /\ W[k - 1] = W[h - 1] /\ W[k - 1] # NULL
    BY <1>0, <1>7, <1>8, <1>11
  <2>2. ~(k - 1 < h - 1) /\ ~(h - 1 < k - 1)
    BY <1>3, <2>1
  <2> QED
    BY <1>0, <2>2
<1> QED
  BY <1>9, <1>10, <1>11 DEF s

LEMMA NothingFromNull == ListFrom(NULL) = <<>>
<1> DEFINE W == Walk(NULL)
           T == {k \in 0..Limit : W[k] # NULL}
<1>0. Limit \in Nat
  BY LimitNat
<1>1. W[0] = NULL /\ \A i \in 1..Limit : W[i] = IF W[i - 1] = NULL THEN NULL ELSE next[W[i - 1]]
  BY WalkStep
<1>2. ListFrom(NULL) = [k \in {k \in 1..Limit : W[k - 1] # NULL} |-> W[k - 1]]
  BY DEF ListFrom, Limit
<1> HIDE DEF W
<1>3. T = {}
  <2> SUFFICES ASSUME T # {} PROVE FALSE
    OBVIOUS
  <2>1. PICK k \in T : \A h \in T : k <= h
    <3>1. T \subseteq Nat
      BY <1>0
    <3> HIDE DEF T
    <3> QED
      BY <3>1, LeastNat
  <2>2. k \in 1..Limit /\ k - 1 \in 0..Limit /\ ~(k <= k - 1)
    BY <1>0, <1>1, <2>1
  <2>3. W[k - 1] = NULL
    BY <2>1, <2>2
  <2> QED
    BY <1>1, <2>1, <2>2, <2>3
<1>4. {k \in 1..Limit : W[k - 1] # NULL} = {}
  BY <1>0, <1>3
<1> QED
  BY <1>2, <1>4

\* Two paths from the same element are one.
LEMMA PathUnique ==
  ASSUME NEW s \in Seq(Nodes), NEW t \in Seq(Nodes), NEW n, NEW nx, IsPath(s, n, nx), IsPath(t, n, nx)
  PROVE  s = t
<1> DEFINE T == {k \in 1..Len(s)+1 : Nth(s, k) # Nth(t, k)}
<1>1. Len(s) \in Nat /\ Len(t) \in Nat /\ (\A k \in 1..Len(s) : s[k] # NULL) /\ \A k \in 1..Len(t) : t[k] # NULL
  BY FAssumption
<1>2. T = {}
  <2> SUFFICES ASSUME T # {} PROVE FALSE
    OBVIOUS
  <2>1. PICK k \in T : \A h \in T : k <= h
    <3>1. T \subseteq Nat
      BY <1>1
    <3> HIDE DEF T
    <3> QED
      BY <3>1, LeastNat
  <2>2. k # 1
    BY <2>1 DEF IsPath
  <2>3. k - 1 \in 1..Len(s) /\ k - 1 \in 1..Len(s)+1 /\ ~(k <= k - 1) /\ (k - 1) + 1 = k
    BY <1>1, <2>1, <2>2
  <2>4. Nth(s, k - 1) = Nth(t, k - 1)
    BY <2>1, <2>3
  <2>5. k - 1 \in 1..Len(t) /\ s[k - 1] = t[k - 1]
    BY <1>1, <2>3, <2>4 DEF Nth
  <2>6. nx[s[k - 1]] = Nth(s, k) /\ nx[t[k - 1]] = Nth(t, k)
    <3>1. \A h \in 1..Len(s) : nx[s[h]] = Nth(s, h + 1)
      BY DEF IsPath
    <3>2. \A h \in 1..Len(t) : nx[t[h]] = Nth(t, h + 1)
      BY DEF IsPath
    <3>3. nx[s[k - 1]] = Nth(s, (k - 1) + 1) /\ nx[t[k - 1]] = Nth(t, (k - 1) + 1)
      BY <2>3, <2>5, <3>1, <3>2
    <3> QED
      BY <2>3, <3>3
  <2> QED
    BY <2>1, <2>5, <2>6
<1>3. \A k \in 1..Len(s)+1 : Nth(s, k) = Nth(t, k)
  BY <1>2
<1>4. \A k \in 1..Len(s) : k \in 1..Len(t) /\ s[k] = t[k]
  BY <1>1, <1>3 DEF Nth
<1>5. Len(s) + 1 \notin 1..Len(t)
  BY <1>1, <1>3 DEF Nth
<1>6. Len(s) = Len(t)
  BY <1>1, <1>4, <1>5
<1> QED
  BY <1>4, <1>6

\* Lists with different starts share nothing.
LEMMA PathsApart ==
  ASSUME NEW V, NEW R, NEW nx, Forest(V, nx, R), V \subseteq Nodes, NEW r \in R, NEW q \in R, r # q,
         NEW s \in Seq(V), NEW t \in Seq(V), IsPath(s, r, nx), IsPath(t, q, nx)
  PROVE  \A k \in 1..Len(s), h \in 1..Len(t) : s[k] # t[h]
<1> DEFINE T == {k \in 1..Len(s) : \E h \in 1..Len(t) : s[k] = t[h]}
<1> SUFFICES ASSUME T # {} PROVE FALSE
  OBVIOUS
<1>0. /\ Len(s) \in Nat /\ Len(t) \in Nat /\ NULL \notin V
      /\ (\A k \in 1..Len(s) : s[k] \in V) /\ (\A k \in 1..Len(t) : t[k] \in V)
  BY FAssumption
<1>1. PICK k \in T : \A h \in T : k <= h
  <2>1. T \subseteq Nat
    BY <1>0
  <2> HIDE DEF T
  <2> QED
    BY <2>1, LeastNat
<1>2. PICK h \in 1..Len(t) : s[k] = t[h]
  BY <1>1
<1>3. /\ \A i \in 1..Len(s) : i # 1 => i - 1 \in 1..Len(s) /\ nx[s[i - 1]] = s[i]
      /\ r = Nth(s, 1)
  <2>1. ASSUME NEW i \in 1..Len(s), i # 1 PROVE i - 1 \in 1..Len(s) /\ nx[s[i - 1]] = s[i]
    <3>1. i - 1 \in 1..Len(s) /\ (i - 1) + 1 = i
      BY <1>0, <2>1
    <3>2. nx[s[i - 1]] = Nth(s, (i - 1) + 1)
      BY <3>1 DEF IsPath
    <3> QED
      BY <3>1, <3>2 DEF Nth
  <2> QED
    BY <2>1 DEF IsPath
<1>4. /\ \A i \in 1..Len(t) : i # 1 => i - 1 \in 1..Len(t) /\ nx[t[i - 1]] = t[i]
      /\ q = Nth(t, 1)
  <2>1. ASSUME NEW i \in 1..Len(t), i # 1 PROVE i - 1 \in 1..Len(t) /\ nx[t[i - 1]] = t[i]
    <3>1. i - 1 \in 1..Len(t) /\ (i - 1) + 1 = i
      BY <1>0, <2>1
    <3>2. nx[t[i - 1]] = Nth(t, (i - 1) + 1)
      BY <3>1 DEF IsPath
    <3> QED
      BY <3>1, <3>2 DEF Nth
  <2> QED
    BY <2>1 DEF IsPath
<1>5. s[1] = r /\ t[1] = q
  BY <1>0, <1>1, <1>2, <1>3, <1>4 DEF Nth
<1>6. \A e \in V : nx[e] # r /\ nx[e] # q
  BY DEF Forest
<1>7. k # 1 /\ h # 1
  <2>1. ASSUME k # 1 PROVE h # 1
    <3>1. k - 1 \in 1..Len(s) /\ nx[s[k - 1]] = s[k]
      BY <1>1, <1>3, <2>1
    <3>2. s[k - 1] \in V
      BY <1>0, <3>1
    <3> QED
      BY <1>2, <1>5, <1>6, <3>1, <3>2
  <2>2. ASSUME h # 1 PROVE k # 1
    <3>1. h - 1 \in 1..Len(t) /\ nx[t[h - 1]] = t[h]
      BY <1>2, <1>4, <2>2
    <3>2. t[h - 1] \in V
      BY <1>0, <3>1
    <3> QED
      BY <1>2, <1>5, <1>6, <3>1, <3>2
  <2> QED
    BY <1>2, <1>5, <2>1, <2>2
<1>8. s[k - 1] = t[h - 1]
  <2>1. nx[s[k - 1]] = nx[t[h - 1]] /\ nx[s[k - 1]] # NULL /\ s[k - 1] \in V /\ t[h - 1] \in V
    BY <1>0, <1>1, <1>2, <1>3, <1>4, <1>7
  <2> QED
    BY <2>1 DEF Forest
<1>9. k - 1 \in T /\ ~(k <= k - 1)
  BY <1>0, <1>1, <1>3, <1>4, <1>7, <1>8
<1> QED
  BY <1>1, <1>9

\* Every element is in a list.
LEMMA ForestCovered ==
  ASSUME NEW V, NEW R, Forest(V, next, R), V \subseteq Nodes
  PROVE  UNION {Range(ListFrom(r)) : r \in R} = V
<1> DEFINE In(e) == \E r \in R : \E k \in 1..Len(ListFrom(r)) : ListFrom(r)[k] = e
           S == {e \in V : ~In(e)}
<1>0. ASSUME NEW r \in R
      PROVE  /\ ListFrom(r) \in Seq(V) /\ Len(ListFrom(r)) > 0 /\ IsPath(ListFrom(r), r, next)
             /\ Len(ListFrom(r)) \in Nat
             /\ Range(ListFrom(r)) = {ListFrom(r)[k] : k \in 1..Len(ListFrom(r))}
  <2>1. ListFrom(r) \in Seq(V) /\ Len(ListFrom(r)) > 0 /\ IsPath(ListFrom(r), r, next)
    BY ListIsPath
  <2> QED
    BY <2>1 DEF Range
<1>1. S = {}
  <2> SUFFICES ASSUME S # {} PROVE FALSE
    OBVIOUS
  <2>1. PICK n \in S : n \in R \/ \E m \in V \ S : next[m] = n
    <3>1. S \in SUBSET V
      OBVIOUS
    <3> HIDE DEF S
    <3> QED
      BY <3>1 DEF Forest
  <2>2. n \notin R
    <3> SUFFICES ASSUME n \in R PROVE FALSE
      OBVIOUS
    <3>1. 1 \in 1..Len(ListFrom(n)) /\ ListFrom(n)[1] = n
      BY <1>0 DEF IsPath, Nth
    <3> QED
      BY <2>1, <3>1
  <2>3. PICK m \in V \ S : next[m] = n
    BY <2>1, <2>2
  <2> PICK r \in R : \E k \in 1..Len(ListFrom(r)) : ListFrom(r)[k] = m
    BY <2>3
  <2>4. PICK k \in 1..Len(ListFrom(r)) : ListFrom(r)[k] = m
    OBVIOUS
  <2>5. n = Nth(ListFrom(r), k + 1) /\ n # NULL
    BY <1>0, <2>1, <2>3, <2>4, FAssumption DEF IsPath
  <2>6. k + 1 \in 1..Len(ListFrom(r)) /\ ListFrom(r)[k + 1] = n
    BY <2>5 DEF Nth
  <2> QED
    BY <2>1, <2>6
<1>2. ASSUME NEW r \in R PROVE Range(ListFrom(r)) \subseteq V
  BY <1>0
<1>3. ASSUME NEW e \in V PROVE \E r \in R : e \in Range(ListFrom(r))
  <2> PICK r \in R : \E k \in 1..Len(ListFrom(r)) : ListFrom(r)[k] = e
    BY <1>1
  <2>1. PICK k \in 1..Len(ListFrom(r)) : ListFrom(r)[k] = e
    OBVIOUS
  <2> QED
    BY <1>0, <2>1
<1> QED
  BY <1>2, <1>3

\* The links being as HeapInv says, the lists are as they should be.
LEMMA HeapInvOwns ==
  ASSUME Types, pc # "segv" => HeapInv
  PROVE  ListsOwnHeap
<1> SUFFICES ASSUME HeapInv, Types
             PROVE  /\ \A r \in Roots : /\ IsInjective(ListFrom(r))
                                        /\ Last(ListFrom(r)) \in {n \in Nodes : next[n] = NULL}
                    /\ \A r, q \in Roots : r # q => Range(ListFrom(r)) \cap Range(ListFrom(q)) = {}
                    /\ UNION {Range(ListFrom(r)) : r \in Roots} = live \ leaked
                    /\ {content[n] : n \in live \ leaked} \ {NULL} = used \ leaked
                    /\ \A n, m \in live : n # m /\ content[n] # NULL => content[n] # content[m]
  BY DEF ListsOwnHeap
<1>1. Forest(Owned, next, Roots) /\ Owned \subseteq Nodes
  BY DEF HeapInv, Types, Owned
<1>2. ASSUME NEW r \in Roots
      PROVE  /\ ListFrom(r) \in Seq(Owned) /\ Len(ListFrom(r)) > 0 /\ IsPath(ListFrom(r), r, next)
             /\ \A k, h \in 1..Len(ListFrom(r)) : ListFrom(r)[k] = ListFrom(r)[h] => k = h
             /\ DOMAIN ListFrom(r) = 1..Len(ListFrom(r)) /\ Len(ListFrom(r)) \in Nat
  <2>1. /\ ListFrom(r) \in Seq(Owned) /\ Len(ListFrom(r)) > 0 /\ IsPath(ListFrom(r), r, next)
        /\ \A k, h \in 1..Len(ListFrom(r)) : ListFrom(r)[k] = ListFrom(r)[h] => k = h
    BY <1>1, ListIsPath
  <2> QED
    BY <2>1
<1>3. ASSUME NEW r \in Roots
      PROVE  IsInjective(ListFrom(r)) /\ Last(ListFrom(r)) \in {n \in Nodes : next[n] = NULL}
  <2>1. IsInjective(ListFrom(r))
    BY <1>2 DEF IsInjective
  <2> DEFINE s == ListFrom(r)
             N == Len(s)
  <2>2. N \in 1..N /\ N + 1 \notin 1..N
    BY <1>2
  <2>3. next[s[N]] = Nth(s, N + 1) /\ s[N] \in Owned
    BY <1>2, <2>2 DEF IsPath
  <2>4. next[s[N]] = NULL /\ s[N] \in Nodes
    BY <1>1, <2>2, <2>3 DEF Nth
  <2> QED
    BY <2>1, <2>4 DEF Last
<1>4. ASSUME NEW r \in Roots, NEW q \in Roots, r # q
      PROVE  Range(ListFrom(r)) \cap Range(ListFrom(q)) = {}
  <2>1. \A k \in 1..Len(ListFrom(r)), h \in 1..Len(ListFrom(q)) : ListFrom(r)[k] # ListFrom(q)[h]
    BY <1>1, <1>2, <1>4, PathsApart
  <2> QED
    BY <1>2, <2>1 DEF Range
<1>5. UNION {Range(ListFrom(r)) : r \in Roots} = live \ leaked
  BY <1>1, ForestCovered DEF Owned
<1>6. {content[n] : n \in live \ leaked} \ {NULL} = used \ leaked
  <2>1. \A n \in Owned : content[n] # NULL => content[n] \in used \ leaked
    BY DEF HeapInv, ContentsApart, Types, Owned
  <2>2. \A b \in used \ leaked : b # NULL /\ \E n \in Owned : content[n] = b
    BY FAssumption DEF HeapInv, ContentsApart, Types
  <2> QED
    BY <2>1, <2>2 DEF Owned
<1>7. \A n, m \in live : n # m /\ content[n] # NULL => content[n] # content[m]
  BY DEF HeapInv, ContentsApart, Types
<1> QED
  BY <1>3, <1>4, <1>5, <1>6, <1>7

-----------------------------------------------------------------------------
(* What the functions do to a forest: a new list of one element, an element *)
(* put before a list, a list or the last element of a list removed.         *)

LEMMA ForestNew ==
  ASSUME NEW V, NEW nx, NEW R, Forest(V, nx, R), NULL \notin V,
         NEW n, n \notin V, n # NULL, NEW nx2, nx2[n] = NULL, \A m \in V : nx2[m] = nx[m]
  PROVE  Forest(V \cup {n}, nx2, R \cup {n})
<1>1. \A m \in V : nx2[m] # n /\ nx2[m] \in V \cup {NULL}
  BY DEF Forest
<1>2. ASSUME NEW S \in SUBSET (V \cup {n}), S # {}
      PROVE  \E e \in S : e \in R \cup {n} \/ \E m \in (V \cup {n}) \ S : nx2[m] = e
  <2>1. CASE n \in S
    BY <2>1
  <2>2. CASE n \notin S
    <3>1. S \in SUBSET V
      BY <2>2
    <3>2. PICK e \in S : e \in R \/ \E m \in V \ S : nx[m] = e
      BY <1>2, <3>1 DEF Forest
    <3> QED
      BY <3>2
  <2> QED
    BY <2>1, <2>2
<1>3. R \cup {n} \subseteq V \cup {n} /\ \A e \in V \cup {n} : nx2[e] \in V \cup {n} \cup {NULL}
  BY <1>1 DEF Forest
<1>4. \A e, m \in V \cup {n} : nx2[e] = nx2[m] /\ nx2[e] # NULL => e = m
  BY DEF Forest
<1>5. \A r \in R \cup {n}, e \in V \cup {n} : nx2[e] # r
  <2>1. \A r \in R, e \in V : nx2[e] # r
    BY DEF Forest
  <2>2. \A r \in R : r # NULL
    BY DEF Forest
  <2> QED
    BY <1>1, <2>1, <2>2
<1> QED
  BY <1>2, <1>3, <1>4, <1>5 DEF Forest

LEMMA ForestLink ==
  ASSUME NEW V, NEW nx, NEW R, Forest(V, nx, R), NULL \notin V,
         NEW a \in R, nx[a] = NULL, NEW b, b \in R \cup {NULL}, a # b,
         NEW nx2, nx2[a] = b, \A m \in V \ {a} : nx2[m] = nx[m]
  PROVE  Forest(V, nx2, R \ {b})
<1>1. a \in V /\ R \subseteq V
  BY DEF Forest
<1>2. ASSUME NEW S \in SUBSET V, S # {}
      PROVE  \E e \in S : e \in R \ {b} \/ \E m \in V \ S : nx2[m] = e
  <2>1. PICK e \in S : e \in R \/ \E m \in V \ S : nx[m] = e
    BY <1>2 DEF Forest
  <2>2. CASE e \in R /\ e # b
    BY <2>2
  <2>3. CASE e \in R /\ e = b
    BY <1>1, <2>3
  <2>4. CASE \E m \in V \ S : nx[m] = e
    BY <2>4
  <2> QED
    BY <2>1, <2>2, <2>3, <2>4
<1>3. \A e \in V : nx2[e] \in V \cup {NULL}
  BY <1>1 DEF Forest
<1>4. ASSUME NEW e \in V, NEW m \in V, nx2[e] = nx2[m], nx2[e] # NULL PROVE e = m
  <2>1. \A i \in V : i # a => nx2[i] # b \/ b = NULL
    BY DEF Forest
  <2> QED
    BY <1>4, <2>1 DEF Forest
<1>5. \A r \in R \ {b}, e \in V : nx2[e] # r
  BY DEF Forest
<1>6. R \ {b} \subseteq V
  BY <1>1
<1> QED
  BY <1>2, <1>3, <1>4, <1>5, <1>6 DEF Forest

LEMMA ForestDropList ==
  ASSUME NEW V, NEW nx, NEW R, Forest(V, nx, R), NULL \notin V,
         NEW a \in R, NEW D \in SUBSET V, D \cap R = {a}, \A m \in V : m \in D \/ nx[m] \notin D,
         \A m \in D : nx[m] \in D \cup {NULL}, NEW nx2, \A m \in V \ D : nx2[m] = nx[m]
  PROVE  Forest(V \ D, nx2, R \ {a})
<1>1. R \subseteq V
  BY DEF Forest
<1>2. ASSUME NEW S \in SUBSET (V \ D), S # {}
      PROVE  \E e \in S : e \in R \ {a} \/ \E m \in (V \ D) \ S : nx2[m] = e
  <2>1. S \in SUBSET V /\ S \cap D = {} /\ NULL \notin S
    OBVIOUS
  <2>2. PICK e \in S : e \in R \/ \E m \in V \ S : nx[m] = e
    BY <1>2, <2>1 DEF Forest
  <2>3. CASE e \in R
    BY <2>1, <2>3
  <2>4. CASE \E m \in V \ S : nx[m] = e
    <3>1. PICK m \in V \ S : nx[m] = e
      BY <2>4
    <3>2. m \notin D
      BY <2>1, <3>1
    <3> QED
      BY <3>1, <3>2
  <2> QED
    BY <2>2, <2>3, <2>4
<1>3. R \ {a} \subseteq V \ D
  BY <1>1
<1>4. \A e \in V \ D : nx2[e] \in (V \ D) \cup {NULL}
  BY DEF Forest
<1>5. \A e, m \in V \ D : nx2[e] = nx2[m] /\ nx2[e] # NULL => e = m
  BY DEF Forest
<1>6. \A r \in R \ {a}, e \in V \ D : nx2[e] # r
  BY DEF Forest
<1> QED
  BY <1>2, <1>3, <1>4, <1>5, <1>6 DEF Forest

\* The elements of a list are such a set.
LEMMA ListClosed ==
  ASSUME NEW V, NEW R, Forest(V, next, R), V \subseteq Nodes, NEW a \in R
  PROVE  LET D == Range(ListFrom(a))
         IN /\ D \in SUBSET V /\ D \cap R = {a}
            /\ \A m \in V : m \in D \/ next[m] \notin D
            /\ \A m \in D : next[m] \in D \cup {NULL}
<1> DEFINE s == ListFrom(a)
           D == {s[k] : k \in 1..Len(s)}
<1>1. s \in Seq(V) /\ Len(s) > 0 /\ IsPath(s, a, next)
  BY ListIsPath
<1> HIDE DEF s
<1>2. Len(s) \in Nat /\ (\A k \in 1..Len(s) : s[k] \in V) /\ Range(s) = D
  BY <1>1 DEF Range
<1>3. s[1] = a /\ 1 \in 1..Len(s)
  BY <1>1, <1>2 DEF IsPath, Nth
<1>4. ASSUME NEW k \in 1..Len(s), k # 1
      PROVE  k - 1 \in 1..Len(s) /\ next[s[k - 1]] = s[k]
  <2>1. k - 1 \in 1..Len(s) /\ (k - 1) + 1 = k
    BY <1>2, <1>4
  <2>2. next[s[k - 1]] = Nth(s, (k - 1) + 1)
    BY <1>1, <2>1 DEF IsPath
  <2> QED
    BY <2>1, <2>2 DEF Nth
<1>5. ASSUME NEW k \in 1..Len(s) PROVE next[s[k]] \in D \cup {NULL}
  <2>1. next[s[k]] = Nth(s, k + 1)
    BY <1>1 DEF IsPath
  <2> QED
    BY <2>1 DEF Nth
<1>6. ASSUME NEW e \in D \cap R PROVE e = a
  <2>1. PICK k \in 1..Len(s) : e = s[k]
    OBVIOUS
  <2>2. k = 1
    <3> SUFFICES ASSUME k # 1 PROVE FALSE
      OBVIOUS
    <3>1. s[k - 1] \in V /\ next[s[k - 1]] = e
      BY <1>2, <1>4, <2>1
    <3> QED
      BY <1>6, <3>1 DEF Forest
  <2> QED
    BY <1>3, <2>1, <2>2
<1>7. ASSUME NEW m \in V, next[m] \in D PROVE m \in D
  <2>1. PICK k \in 1..Len(s) : next[m] = s[k]
    BY <1>7
  <2>2. k # 1
    BY <1>3, <2>1 DEF Forest
  <2>3. k - 1 \in 1..Len(s) /\ s[k - 1] \in V /\ next[s[k - 1]] = next[m] /\ next[m] # NULL
    BY <1>2, <1>4, <2>1, <2>2, FAssumption
  <2>4. s[k - 1] = m
    BY <2>3 DEF Forest
  <2> QED
    BY <2>3, <2>4
<1>8. D \in SUBSET V /\ a \in D
  BY <1>2, <1>3
<1> QED
  BY <1>2, <1>5, <1>6, <1>7, <1>8 DEF s

LEMMA ForestDropLast ==
  ASSUME NEW V, NEW nx, NEW R, Forest(V, nx, R), NULL \notin V,
         NEW t \in V, nx[t] = NULL,
         NEW nx2, \A m \in V \ {t} : nx2[m] = IF nx[m] = t THEN NULL ELSE nx[m]
  PROVE  Forest(V \ {t}, nx2, R \ {t})
<1>1. ASSUME NEW S \in SUBSET (V \ {t}), S # {}
      PROVE  \E e \in S : e \in R \ {t} \/ \E m \in (V \ {t}) \ S : nx2[m] = e
  <2>1. S \in SUBSET V /\ t \notin S /\ NULL \notin S
    OBVIOUS
  <2>2. PICK e \in S : e \in R \/ \E m \in V \ S : nx[m] = e
    BY <1>1, <2>1 DEF Forest
  <2>3. CASE e \in R
    BY <2>1, <2>3
  <2>4. CASE \E m \in V \ S : nx[m] = e
    <3>1. PICK m \in V \ S : nx[m] = e
      BY <2>4
    <3>2. m # t /\ e # t
      BY <2>1, <3>1
    <3> QED
      BY <3>1, <3>2
  <2> QED
    BY <2>2, <2>3, <2>4
<1>2. R \ {t} \subseteq V \ {t} /\ \A e \in V \ {t} : nx2[e] \in (V \ {t}) \cup {NULL}
  BY DEF Forest
<1>3. \A e, m \in V \ {t} : nx2[e] = nx2[m] /\ nx2[e] # NULL => e = m
  BY DEF Forest
<1>4. \A r \in R \ {t}, e \in V \ {t} : nx2[e] # r
  <2>1. R \subseteq V
    BY DEF Forest
  <2> QED
    BY <2>1 DEF Forest
<1> QED
  BY <1>1, <1>2, <1>3, <1>4 DEF Forest

-----------------------------------------------------------------------------
(* Elements made and freed *)

HeapTypes ==
  /\ live \subseteq Nodes /\ used \subseteq Blocks /\ leaked \subseteq live \cup used
  /\ next \in [Nodes -> Nodes \cup {NULL}]
  /\ content \in [Nodes -> Blocks \cup {NULL}]
  /\ data \in [Blocks -> Values \cup {NULL}]

LEMMA OwnedType ==
  ASSUME Types
  PROVE  HeapTypes /\ Owned \subseteq Nodes /\ NULL \notin Owned /\ Owned \subseteq live
BY FAssumption DEF Types, HeapTypes, Owned

\* What lstnew does, whatever becomes of its allocations.
LEMMA Allocated ==
  ASSUME HeapTypes, ContentsApart, NEW v \in Values \cup {NULL}, NEW r, lstnew_returns(v, r)
  PROVE  /\ HeapTypes' /\ ContentsApart' /\ r \in Nodes \cup {NULL}
         /\ r # NULL => r \notin live /\ Owned' = Owned \cup {r} /\ next'[r] = NULL /\ ValueOf(r)' = v
         /\ r = NULL => Owned' = Owned
         /\ \A n \in Nodes : n # r => next'[n] = next[n]
         /\ \A n \in Nodes : n # r => ValueOf(n)' = ValueOf(n)
<1>0. NULL \notin Nodes /\ NULL \notin Blocks /\ Nodes \cap Blocks = {}
  BY FAssumption, HeapAssumption
<1>1. CASE r # NULL
  <2>1. PICK b \in Blocks : Alloc(r, b, v) /\ leaked' = leaked \cup (IF v = NULL THEN {b} ELSE {})
    BY <1>1 DEF lstnew_returns
  <2>2. /\ r \in Nodes /\ r \notin live /\ b \notin used /\ b \in Blocks
        /\ live' = live \cup {r} /\ used' = used \cup {b}
        /\ next' = [next EXCEPT ![r] = NULL]
        /\ content' = [content EXCEPT ![r] = IF v = NULL THEN NULL ELSE b]
        /\ data' = [data EXCEPT ![b] = v]
    BY <2>1 DEF Alloc
  <2>3. r \notin leaked /\ b \notin leaked /\ b # r
    BY <1>0, <2>2 DEF HeapTypes
  <2>4. HeapTypes'
    BY <2>1, <2>2 DEF HeapTypes
  <2>5. Owned' = Owned \cup {r}
    BY <1>0, <2>1, <2>2, <2>3 DEF Owned, HeapTypes
  <2>6. next'[r] = NULL /\ \A n \in Nodes : n # r => next'[n] = next[n]
    BY <2>2 DEF HeapTypes
  <2>7. /\ content'[r] = (IF v = NULL THEN NULL ELSE b) /\ data'[b] = v
        /\ \A n \in Nodes : n # r => content'[n] = content[n]
        /\ \A c \in Blocks : c # b => data'[c] = data[c]
    BY <2>2 DEF HeapTypes
  <2>8. \A n \in Nodes : content[n] # b
    BY <1>0, <2>2 DEF ContentsApart
  <2>9. ValueOf(r)' = v
    BY <1>0, <2>2, <2>7 DEF ValueOf
  <2>10. \A n \in Nodes : n # r => ValueOf(n)' = ValueOf(n)
    BY <2>7, <2>8 DEF ValueOf, HeapTypes
  <2>11. used' \ leaked' = IF v = NULL THEN used \ leaked ELSE (used \ leaked) \cup {b}
    BY <2>1, <2>2, <2>3
  <2>12. content[r] = NULL
    BY <2>2 DEF ContentsApart
  <2>13. ContentsApart'
    <3>1. ASSUME NEW n \in Nodes, content'[n] # NULL
          PROVE  n \in live' /\ content'[n] \in used' /\ (n \in leaked' <=> content'[n] \in leaked')
      <4>1. CASE n = r
        BY <2>1, <2>2, <2>3, <2>7, <3>1, <4>1
      <4>2. CASE n # r
        <5>1. /\ content'[n] = content[n] /\ n \in live /\ content[n] \in used
              /\ (n \in leaked <=> content[n] \in leaked)
          BY <2>7, <3>1, <4>2 DEF ContentsApart
        <5>2. n # b /\ content[n] # b
          BY <1>0, <2>2, <5>1
        <5> QED
          BY <2>1, <2>2, <5>1, <5>2
      <4> QED
        BY <4>1, <4>2
    <3>2. ASSUME NEW c \in used' \ leaked' PROVE \E n \in Owned' : content'[n] = c
      <4>1. CASE v # NULL /\ c = b
        BY <2>5, <2>7, <4>1
      <4>2. CASE c \in used \ leaked
        <5>1. PICK n \in Owned : content[n] = c
          BY <4>2 DEF ContentsApart
        <5>2. n # r /\ n \in Nodes
          BY <2>2, <5>1 DEF Owned, HeapTypes
        <5> QED
          BY <2>5, <2>7, <5>1, <5>2
      <4> QED
        BY <2>11, <4>1, <4>2
    <3>3. ASSUME NEW n \in Nodes, NEW m \in Nodes, content'[n] = content'[m], content'[n] # NULL
          PROVE  n = m
      <4>1. n # r /\ m # r => n = m
        BY <2>7, <3>3 DEF ContentsApart
      <4>2. (n = r /\ m # r) \/ (n # r /\ m = r) => FALSE
        BY <2>7, <2>8, <3>3
      <4> QED
        BY <4>1, <4>2
    <3> QED
      BY <3>1, <3>2, <3>3 DEF ContentsApart
  <2> QED
    BY <1>1, <2>2, <2>4, <2>5, <2>6, <2>9, <2>10, <2>13
<1>2. CASE r = NULL
  <2>1. UNCHANGED <<used, next, content, data>>
    BY <1>2 DEF lstnew_returns, heap
  <2>2. \/ live' = live /\ leaked' = leaked
        \/ \E n \in Nodes \ live : live' = live \cup {n} /\ leaked' = leaked \cup {n}
    BY <1>2 DEF lstnew_returns, heap
  <2>3. Owned' = Owned /\ used' \ leaked' = used \ leaked
    BY <1>0, <2>1, <2>2 DEF Owned, HeapTypes
  <2>4. HeapTypes'
    BY <2>1, <2>2 DEF HeapTypes
  <2>5. ContentsApart'
    <3>1. ASSUME NEW n \in Nodes, content[n] # NULL
          PROVE  n \in live' /\ content[n] \in used /\ (n \in leaked' <=> content[n] \in leaked')
      BY <1>0, <2>2, <3>1 DEF ContentsApart, HeapTypes
    <3> QED
      BY <2>1, <2>3, <3>1 DEF ContentsApart
  <2>6. \A n \in Nodes : next'[n] = next[n] /\ ValueOf(n)' = ValueOf(n)
    BY <2>1 DEF ValueOf
  <2> QED
    BY <1>2, <2>3, <2>4, <2>5, <2>6
<1> QED
  BY <1>1, <1>2

\* What becomes of the heap when n is freed and the elements L are lost.
LEMMA FreedAndLost ==
  ASSUME Types, ContentsApart, NEW n \in Owned, Free(n),
         NEW L \in SUBSET (Owned \ {n}), leaked' = leaked \cup L \cup ({content[e] : e \in L} \ {NULL})
  PROVE  /\ live' \subseteq Nodes /\ used' \subseteq Blocks /\ leaked' \subseteq live' \cup used'
         /\ content' \in [Nodes -> Blocks \cup {NULL}] /\ data' \in [Blocks -> Values \cup {NULL}]
         /\ ContentsApart' /\ Owned' = Owned \ ({n} \cup L) /\ live' = live \ {n}
         /\ \A m \in Nodes : m # n => ValueOf(m)' = ValueOf(m)
<1> DEFINE C == {content[e] : e \in L} \ {NULL}
<1>0. /\ NULL \notin Nodes /\ NULL \notin Blocks /\ Nodes \cap Blocks = {} /\ n \in Nodes /\ n \notin leaked
      /\ L \subseteq Nodes /\ n \notin L /\ Owned \subseteq live /\ Owned \cap leaked = {} /\ n \in live
  BY FAssumption, HeapAssumption DEF Owned, Types
<1>1. /\ live' = live \ {n} /\ used' = used \ {content[n]}
      /\ content' = [content EXCEPT ![n] = NULL]
      /\ data' = [b \in Blocks |-> IF b = content[n] THEN NULL ELSE data[b]]
  BY DEF Free
<1>2. \A m \in Nodes : content[m] \in Blocks \cup {NULL}
  BY DEF Types
<1>3. content'[n] = NULL /\ \A m \in Nodes : m # n => content'[m] = content[m]
  BY <1>0, <1>1 DEF Types
<1>4. \A b \in Blocks : b # content[n] => data'[b] = data[b]
  BY <1>1
<1>5. \A m \in Nodes : m # n /\ content[m] # NULL => content[m] # content[n]
  BY <1>0 DEF ContentsApart
<1>6. C \subseteq used' /\ L \subseteq live' /\ C \cap Nodes = {} /\ L \cap Blocks = {}
  <2>1. ASSUME NEW e \in L, content[e] # NULL PROVE content[e] \in used' /\ content[e] \notin Nodes
    BY <1>0, <1>1, <1>2, <1>5, <2>1 DEF ContentsApart
  <2> QED
    BY <1>0, <1>1, <2>1
<1> HIDE DEF C
<1>7. leaked' = leaked \cup L \cup C
  BY DEF C
<1>8. Owned' = Owned \ ({n} \cup L)
  BY <1>0, <1>1, <1>6, <1>7 DEF Owned, Types
<1>9. ASSUME NEW m \in Nodes, m # n PROVE ValueOf(m)' = ValueOf(m)
  BY <1>3, <1>4, <1>5, <1>9 DEF ValueOf, Types
<1>10. content' \in [Nodes -> Blocks \cup {NULL}]
  BY <1>1 DEF Types
<1>11. data' \in [Blocks -> Values \cup {NULL}]
  BY <1>1 DEF Types
<1>12. leaked' \subseteq live' \cup used'
  <2>1. content[n] \notin leaked
    BY <1>0, <1>2 DEF ContentsApart, Types
  <2>2. leaked \subseteq live' \cup used'
    BY <1>0, <1>1, <2>1 DEF Types
  <2> QED
    BY <1>6, <1>7, <2>2
<1>13. ContentsApart'
  <2>1. ASSUME NEW m \in Nodes, content'[m] # NULL
        PROVE  m \in live' /\ content'[m] \in used' /\ (m \in leaked' <=> content'[m] \in leaked')
    <3>1. /\ m # n /\ content'[m] = content[m] /\ content[m] # content[n] /\ content[m] \in Blocks
          /\ m \in live /\ content[m] \in used /\ (m \in leaked <=> content[m] \in leaked)
      BY <1>2, <1>3, <1>5, <2>1 DEF ContentsApart
    <3>2. m \in L <=> content[m] \in C
      <4>1. content[m] \in C => \E e \in L : content[e] = content[m]
        BY DEF C
      <4> QED
        BY <1>0, <2>1, <3>1, <4>1 DEF C, ContentsApart
    <3>3. m \notin C /\ content[m] \notin L
      BY <1>6, <3>1
    <3> QED
      BY <1>1, <1>7, <3>1, <3>2, <3>3
  <2>2. ASSUME NEW b \in used' \ leaked' PROVE \E m \in Owned' : content'[m] = b
    <3>1. b \in used \ leaked /\ b # content[n] /\ b \notin C
      BY <1>1, <1>7, <2>2
    <3>2. PICK m \in Owned : content[m] = b
      BY <3>1 DEF ContentsApart
    <3>3. m # n /\ m \in Nodes /\ b # NULL
      BY <1>0, <3>1, <3>2 DEF Owned, Types
    <3>4. m \notin L
      BY <3>1, <3>2, <3>3 DEF C
    <3> QED
      BY <1>3, <1>8, <3>2, <3>3, <3>4
  <2>3. ASSUME NEW k \in Nodes, NEW m \in Nodes, content'[k] = content'[m], content'[k] # NULL
        PROVE  k = m
    BY <1>3, <2>3 DEF ContentsApart
  <2> QED
    BY <2>1, <2>2, <2>3 DEF ContentsApart
<1> QED
  BY <1>1, <1>8, <1>9, <1>10, <1>11, <1>12, <1>13 DEF Types

LEMMA Freed ==
  ASSUME Types, ContentsApart, NEW n \in Owned, Free(n), leaked' = leaked
  PROVE  /\ live' \subseteq Nodes /\ used' \subseteq Blocks /\ leaked' \subseteq live' \cup used'
         /\ content' \in [Nodes -> Blocks \cup {NULL}] /\ data' \in [Blocks -> Values \cup {NULL}]
         /\ ContentsApart' /\ Owned' = Owned \ {n} /\ live' = live \ {n}
         /\ \A m \in Nodes : m # n => ValueOf(m)' = ValueOf(m)
<1>1. {} \in SUBSET (Owned \ {n}) /\ leaked' = leaked \cup {} \cup ({content[e] : e \in {}} \ {NULL})
  OBVIOUS
<1>2. {n} \cup {} = {n}
  OBVIOUS
<1> QED
  BY <1>1, <1>2, FreedAndLost

-----------------------------------------------------------------------------
(* The caller's steps *)

\* A step that calls nothing and leaves no frame keeps CallInv.
LEMMA IdleAgain ==
  ASSUME pc = "idle", CallInv, pc' = pc, stack' = stack, fresh' = fresh, called' = <<>>
  PROVE  CallInv'
BY DEF CallInv, Returned

LEMMA RootsIdle ==
  ASSUME fresh = <<>>
  PROVE  Roots = ({head[l] : l \in Lists} \cup {made}) \ {NULL}
BY DEF Roots, Range

LEMMA NewStep ==
  ASSUME IInv, NEW v \in Values \cup {NULL}, ft_lstnew(v)
  PROVE  IInv'
<1>0. Types /\ HeapInv /\ CallInv /\ pc = "idle" /\ fresh = <<>> /\ stack = <<>>
  BY DEF IInv, ft_lstnew, CallInv
<1>1. PICK r \in Nodes \cup {NULL} : lstnew_returns(v, r) /\ made' = r
  BY DEF ft_lstnew
<1>2. /\ made = NULL /\ UNCHANGED <<head, pc, list, stack, back, fresh>>
      /\ start' = <<>> /\ called' = <<>>
  BY DEF ft_lstnew, frames
<1>3. /\ HeapTypes' /\ ContentsApart'
      /\ r # NULL => r \notin live /\ Owned' = Owned \cup {r} /\ next'[r] = NULL
      /\ r = NULL => Owned' = Owned
      /\ \A n \in Nodes : n # r => next'[n] = next[n]
  BY <1>0, <1>1, OwnedType, Allocated DEF HeapInv
<1>4. Types'
  BY <1>0, <1>1, <1>2, <1>3 DEF Types, HeapTypes
<1>5. Owned \subseteq Nodes /\ NULL \notin Owned /\ Owned \subseteq live
  BY <1>0, OwnedType
<1>6. Roots = {head[l] : l \in Lists} \ {NULL} /\ Roots \subseteq Owned
  BY <1>0, <1>2, RootsIdle DEF HeapInv, Forest
<1>7. Roots' = ({head[l] : l \in Lists} \cup {r}) \ {NULL}
  BY <1>0, <1>1, <1>2 DEF Roots, Range
<1>8. Forest(Owned', next', Roots')
  <2>1. CASE r = NULL
    <3>1. Owned' = Owned /\ Roots' = Roots /\ \A n \in Owned : next'[n] = next[n]
      BY <1>1, <1>3, <1>5, <1>6, <1>7, <2>1
    <3> QED
      BY <1>0, <3>1 DEF HeapInv, Forest
  <2>2. CASE r # NULL
    <3>1. Forest(Owned, next, Roots)
      BY <1>0 DEF HeapInv
    <3>2. r \notin Owned /\ next'[r] = NULL /\ \A n \in Owned : next'[n] = next[n]
      BY <1>3, <1>5, <2>2
    <3>3. Forest(Owned \cup {r}, next', Roots \cup {r})
      BY <1>5, <2>2, <3>1, <3>2, ForestNew
    <3>4. Owned' = Owned \cup {r} /\ Roots' = Roots \cup {r}
      BY <1>3, <1>6, <1>7, <2>2
    <3> QED
      BY <3>3, <3>4
  <2> QED
    BY <2>1, <2>2
<1>9. RootsApart'
  <2>1. \A l \in Lists : r # NULL => head[l] # r
    BY <1>0, <1>3, <1>5, <1>6
  <2> QED
    BY <1>0, <1>1, <1>2, <1>3, <2>1 DEF HeapInv, RootsApart
<1>10. CallInv'
  BY <1>0, <1>2, IdleAgain
<1> QED
  BY <1>3, <1>4, <1>8, <1>9, <1>10 DEF IInv, HeapInv

LEMMA AddStep ==
  ASSUME IInv, NEW l \in Lists, ft_lstadd(l)
  PROVE  IInv'
<1>0. Types /\ HeapInv /\ CallInv /\ pc = "idle" /\ fresh = <<>> /\ stack = <<>>
  BY DEF IInv, ft_lstadd, CallInv
<1>1. /\ made # NULL /\ made' = NULL /\ start' = <<>> /\ called' = <<>>
      /\ next' = [next EXCEPT ![made] = head[l]] /\ head' = [head EXCEPT ![l] = made]
      /\ UNCHANGED <<live, used, content, data, leaked, pc, list, stack, back, fresh>>
  BY DEF ft_lstadd, frames
<1>2. /\ made \in Nodes /\ next'[made] = head[l] /\ head'[l] = made
      /\ \A n \in Nodes : n # made => next'[n] = next[n]
      /\ \A m \in Lists : m # l => head'[m] = head[m]
  BY <1>0, <1>1 DEF Types
<1>3. Types'
  BY <1>0, <1>1, <1>2 DEF Types
<1>4. Owned \subseteq Nodes /\ NULL \notin Owned /\ Owned' = Owned
  BY <1>0, <1>1, OwnedType DEF Owned
<1>5. Roots = ({head[m] : m \in Lists} \cup {made}) \ {NULL} /\ Roots \subseteq Owned
  BY <1>0, RootsIdle DEF HeapInv, Forest
<1>6. /\ \A k, m \in Lists : head[k] = head[m] /\ head[k] # NULL => k = m
      /\ \A m \in Lists : head[m] # made
      /\ next[made] = NULL
  BY <1>0, <1>1 DEF HeapInv, RootsApart
<1>7. Roots' = Roots \ {head[l]}
  <2>1. Roots' = {head'[m] : m \in Lists} \ {NULL}
    BY <1>0, <1>1 DEF Roots, Range
  <2>2. ASSUME NEW e \in Roots' PROVE e \in Roots /\ e # head[l]
    <3>1. PICK m \in Lists : e = head'[m] /\ e # NULL
      BY <2>1, <2>2
    <3>2. CASE m = l
      BY <1>1, <1>2, <1>5, <1>6, <3>1, <3>2
    <3>3. CASE m # l
      BY <1>2, <1>5, <1>6, <3>1, <3>3
    <3> QED
      BY <3>2, <3>3
  <2>3. ASSUME NEW e \in Roots, e # head[l] PROVE e \in Roots'
    <3>1. e # NULL /\ (e = made \/ \E m \in Lists : e = head[m])
      BY <1>5, <2>3
    <3>2. CASE e = made
      BY <1>2, <2>1, <3>1, <3>2
    <3>3. CASE \E m \in Lists : e = head[m]
      <4>1. PICK m \in Lists : e = head[m]
        BY <3>3
      <4>2. m # l /\ head'[m] = e
        BY <1>2, <2>3, <4>1
      <4> QED
        BY <2>1, <3>1, <4>2
    <3> QED
      BY <3>1, <3>2, <3>3
  <2> QED
    BY <2>2, <2>3
<1>8. Forest(Owned', next', Roots')
  <2>1. Forest(Owned, next, Roots) /\ made \in Roots /\ head[l] \in Roots \cup {NULL} /\ made # head[l]
    BY <1>0, <1>1, <1>5, <1>6 DEF HeapInv
  <2>2. \A n \in Owned \ {made} : next'[n] = next[n]
    BY <1>2, <1>4
  <2>3. Forest(Owned, next', Roots \ {head[l]})
    BY <1>2, <1>4, <1>6, <2>1, <2>2, ForestLink
  <2> QED
    BY <1>4, <1>7, <2>3
<1>9. RootsApart'
  <2>1. ASSUME NEW k \in Lists, NEW m \in Lists, head'[k] = head'[m], head'[k] # NULL PROVE k = m
    BY <1>2, <1>6, <2>1
  <2> QED
    BY <1>0, <1>1, <2>1 DEF RootsApart
<1>10. ContentsApart'
  BY <1>0, <1>1, <1>4 DEF HeapInv, ContentsApart
<1>11. CallInv'
  BY <1>0, <1>1, IdleAgain
<1> QED
  BY <1>3, <1>8, <1>9, <1>10, <1>11 DEF IInv, HeapInv

LEMMA DelOneStep ==
  ASSUME IInv, NEW l \in Lists, ft_lstdelone(l)
  PROVE  IInv'
<1> DEFINE a == head[l]
           D == Range(ListFrom(a))
           L == D \ {a}
<1>0. Types /\ HeapInv /\ CallInv /\ pc = "idle" /\ fresh = <<>> /\ stack = <<>>
  BY DEF IInv, ft_lstdelone, CallInv
<1>1. /\ a # NULL /\ Free(a) /\ start' = <<>> /\ called' = <<>>
      /\ head' = [head EXCEPT ![l] = NULL] /\ next' = [next EXCEPT ![a] = NULL]
      /\ leaked' = leaked \cup L \cup ({content[n] : n \in L} \ {NULL})
      /\ UNCHANGED <<made, pc, list, stack, back, fresh>>
  BY DEF ft_lstdelone, Behind, frames
<1>2. Owned \subseteq Nodes /\ NULL \notin Owned /\ Forest(Owned, next, Roots)
  BY <1>0, OwnedType DEF HeapInv
<1>3. Roots = ({head[m] : m \in Lists} \cup {made}) \ {NULL} /\ Roots \subseteq Owned
  BY <1>0, RootsIdle DEF HeapInv, Forest
<1>4. a \in Roots /\ a \in Owned /\ a \in Nodes
  BY <1>1, <1>2, <1>3
<1>5. /\ D \in SUBSET Owned /\ D \cap Roots = {a}
      /\ \A m \in Owned : m \in D \/ next[m] \notin D
      /\ \A m \in D : next[m] \in D \cup {NULL}
  <2> HIDE DEF a
  <2> QED
    BY <1>2, <1>4, ListClosed
<1> HIDE DEF D
<1>6. /\ live' \subseteq Nodes /\ used' \subseteq Blocks /\ leaked' \subseteq live' \cup used'
      /\ content' \in [Nodes -> Blocks \cup {NULL}] /\ data' \in [Blocks -> Values \cup {NULL}]
      /\ ContentsApart' /\ Owned' = Owned \ D
  <2>1. ContentsApart /\ Free(a) /\ L \in SUBSET (Owned \ {a}) /\ {a} \cup L = D
    BY <1>0, <1>1, <1>5 DEF HeapInv
  <2> HIDE DEF a, L
  <2> QED
    BY <1>0, <1>1, <1>4, <2>1, FreedAndLost
<1>7. /\ head'[l] = NULL /\ \A m \in Lists : m # l => head'[m] = head[m]
      /\ \A n \in Nodes : n # a => next'[n] = next[n]
  BY <1>0, <1>1 DEF Types
<1>8. Types'
  <2>1. head' \in [Lists -> Nodes \cup {NULL}] /\ next' \in [Nodes -> Nodes \cup {NULL}]
    BY <1>0, <1>1 DEF Types
  <2>2. called' \in Seq(Nodes) /\ start' \in Seq(Nodes \X (Values \cup {NULL}))
    BY <1>1
  <2> QED
    BY <1>0, <1>1, <1>6, <2>1, <2>2 DEF Types
<1>9. /\ \A k, m \in Lists : head[k] = head[m] /\ head[k] # NULL => k = m
      /\ \A m \in Lists : made # NULL => head[m] # made
      /\ made # NULL => next[made] = NULL
  BY <1>0, <1>1 DEF HeapInv, RootsApart
<1>10. Roots' = Roots \ {a}
  <2>1. Roots' = ({head'[m] : m \in Lists} \cup {made}) \ {NULL}
    BY <1>0, <1>1 DEF Roots, Range
  <2>2. ASSUME NEW e \in Roots' PROVE e \in Roots \ {a}
    <3>1. e # NULL /\ (e = made \/ \E m \in Lists : e = head'[m])
      BY <2>1, <2>2
    <3>2. CASE e = made
      BY <1>3, <1>9, <3>1, <3>2
    <3>3. CASE \E m \in Lists : e = head'[m]
      BY <1>3, <1>7, <1>9, <3>1, <3>3
    <3> QED
      BY <3>1, <3>2, <3>3
  <2>3. ASSUME NEW e \in Roots, e # a PROVE e \in Roots'
    <3>1. e # NULL /\ (e = made \/ \E m \in Lists : e = head[m])
      BY <1>3, <2>3
    <3> QED
      BY <1>7, <2>1, <2>3, <3>1
  <2> QED
    BY <2>2, <2>3
<1>11. Forest(Owned', next', Roots')
  <2>1. \A n \in Owned \ D : next'[n] = next[n]
    BY <1>2, <1>5, <1>7
  <2>2. Forest(Owned \ D, next', Roots \ {a})
    <3> HIDE DEF a
    <3> QED
      BY <1>2, <1>4, <1>5, <2>1, ForestDropList
  <2> QED
    BY <1>6, <1>10, <2>2
<1>12. RootsApart'
  <2>1. ASSUME NEW k \in Lists, NEW m \in Lists, head'[k] = head'[m], head'[k] # NULL PROVE k = m
    BY <1>7, <1>9, <2>1
  <2>2. ASSUME NEW m \in Lists, made # NULL PROVE head'[m] # made
    BY <1>7, <1>9, <2>2
  <2>3. made # NULL => next'[made] = NULL
    BY <1>0, <1>1, <1>9 DEF Types
  <2> QED
    BY <1>0, <1>1, <2>1, <2>2, <2>3 DEF RootsApart
<1>13. CallInv'
  BY <1>0, <1>1, IdleAgain
<1> QED
  BY <1>6, <1>8, <1>11, <1>12, <1>13 DEF IInv, HeapInv

\* A call begins with the first element of the list on the stack.
LEMMA CallStep ==
  ASSUME IInv, NEW f \in {"lstdel", "lstiter", "lstmap"}, NEW l \in Lists, head[l] # NULL, Call(f, l)
  PROVE  IInv'
<1>0. Types /\ HeapInv /\ CallInv /\ pc = "idle" /\ fresh = <<>> /\ stack = <<>>
  BY DEF IInv, Call, CallInv
<1>1. /\ pc' = f /\ list' = l /\ stack' = <<head[l]>> /\ back' = FALSE /\ fresh' = <<>>
      /\ start' = Valued(ListFrom(head[l])) /\ called' = <<>>
      /\ UNCHANGED <<live, used, next, content, data, head, made, leaked>>
  BY DEF Call, heap, caller
<1>2. Owned \subseteq Nodes /\ NULL \notin Owned /\ Owned' = Owned /\ Roots' = Roots
  BY <1>0, <1>1, OwnedType DEF Owned, Roots
<1>3. head[l] \in Roots /\ head[l] \in Nodes
  BY <1>0 DEF Roots, Types
<1>4. PICK s \in Seq(Owned) : /\ s = ListFrom(head[l]) /\ Len(s) > 0 /\ IsPath(s, head[l], next)
                              /\ \A k, h \in 1..Len(s) : s[k] = s[h] => k = h
  BY <1>0, <1>2, <1>3, ListIsPath DEF HeapInv
<1>5. Len(s) \in Nat /\ \A k \in 1..Len(s) : s[k] \in Owned
  BY <1>4
<1>6. \A n \in Nodes : ValueOf(n) \in Values \cup {NULL} /\ ValueOf(n)' = ValueOf(n)
  BY <1>0, <1>1 DEF ValueOf, Types
<1>7. start' = [k \in 1..Len(s) |-> <<s[k], ValueOf(s[k])>>]
  BY <1>1, <1>4 DEF Valued
<1>8. start' \in Seq(Nodes \X (Values \cup {NULL})) /\ Len(start') = Len(s)
  BY <1>2, <1>5, <1>6, <1>7
<1>9. \A k \in 1..Len(s) : start'[k][1] = s[k] /\ start'[k][2] = ValueOf(s[k])
  BY <1>7
<1>10. Types'
  <2>1. stack' \in Seq(Nodes) /\ fresh' \in Seq(Nodes \cup {NULL}) /\ called' \in Seq(Nodes)
    BY <1>1, <1>3
  <2> QED
    BY <1>0, <1>1, <1>8, <2>1 DEF Types
<1>11. HeapInv'
  <2>1. RootsApart' /\ ContentsApart'
    BY <1>0, <1>1, <1>2 DEF HeapInv, RootsApart, ContentsApart
  <2> QED
    BY <1>0, <1>1, <1>2, <2>1 DEF HeapInv
<1>12. FramesInList'
  <2>1. Len(stack') = 1 /\ stack'[1] = head[l] /\ Len(s) \in 1..Len(s) /\ 1 \in 1..Len(s) /\ s[1] = head[l]
    BY <1>1, <1>4, <1>5 DEF IsPath, Nth
  <2>2. Remaining' = Len(s)
    BY <1>1, <1>8 DEF Remaining
  <2>3. ASSUME NEW k \in 1..Len(s)
        PROVE  s[k] \in Owned /\ next[s[k]] = IF k < Len(s) THEN s[k + 1] ELSE NULL
    <3>1. next[s[k]] = Nth(s, k + 1)
      BY <1>4 DEF IsPath
    <3>2. k + 1 \in 1..Len(s) <=> k < Len(s)
      BY <1>5
    <3> QED
      BY <1>5, <3>1, <3>2 DEF Nth
  <2>4. \A k \in 1..Len(s) : k < Len(s) => k + 1 \in 1..Len(s)
    BY <1>5
  <2>5. \A k \in Len(s)+1..Len(s) : FALSE
    BY <1>5
  <2>6. \A k \in 1..Len(s) : Old(k)' = s[k]
    BY <1>9 DEF Old
  <2>7. \A k \in 1..Len(stack') : stack'[k] = Old(k)'
    BY <2>1, <2>6
  <2>8. \A k, h \in 1..Len(s) : Old(k)' = Old(h)' => k = h
    BY <1>4, <2>6
  <2>9. \A k \in 1..Len(s) : /\ Old(k)' \in Owned'
                             /\ next'[Old(k)'] = IF k < Len(s) THEN Old(k + 1)' ELSE NULL
    BY <1>1, <1>2, <2>3, <2>4, <2>6
  <2>10. head'[list'] = Old(1)' /\ Len(stack') \in 1..Len(start')
    BY <1>1, <1>5, <1>8, <2>1, <2>6
  <2> QED
    BY <1>8, <2>2, <2>5, <2>7, <2>8, <2>9, <2>10 DEF FramesInList
<1>13. CalledSoFar' /\ FreshInv'
  BY <1>1 DEF CalledSoFar, FreshInv
<1>14. OldValues'
  <2>1. \A k \in 1..Len(s) : Old(k)' = s[k] /\ OldValue(k)' = ValueOf(s[k]) /\ ValueOf(s[k])' = ValueOf(s[k])
    BY <1>2, <1>5, <1>6, <1>9 DEF Old, OldValue
  <2>2. \A k \in 1..Len(start') : ValueOf(Old(k))' = OldValue(k)'
    BY <1>8, <2>1 DEF ValueOf
  <2> QED
    BY <1>1, <2>2 DEF OldValues
<1>15. pc' # "idle"
  BY <1>1
<1> QED
  BY <1>10, <1>11, <1>12, <1>13, <1>14, <1>15 DEF IInv, CallInv

-----------------------------------------------------------------------------
(* The frames' steps *)

\* The frame on top is at the element of its depth.
LEMMA AtTop ==
  ASSUME Types, FramesInList
  PROVE  /\ Len(start) \in Nat /\ Len(stack) \in 1..Len(start) /\ Top = Old(Len(stack))
         /\ \A k \in 1..Len(start) : Old(k) \in Nodes /\ OldValue(k) \in Values \cup {NULL}
         /\ Remaining \in Len(stack)..Len(start) /\ Top \in Owned /\ Top \in Nodes
         /\ ~back => (next[Top] = NULL <=> Len(stack) = Len(start))
<1>1. Len(start) \in Nat /\ Len(stack) \in 1..Len(start) /\ Top = Old(Len(stack))
  BY DEF Types, FramesInList, Top, Last
<1>2. \A k \in 1..Len(start) : Old(k) \in Nodes /\ OldValue(k) \in Values \cup {NULL}
  BY DEF Types, Old, OldValue
<1>3. Remaining \in Len(stack)..Len(start)
  BY <1>1 DEF Remaining
<1>4. Len(stack) \in 1..Remaining
  BY <1>1, <1>3
<1>5. Top \in Owned /\ Top \in Nodes
  BY <1>1, <1>2, <1>4 DEF FramesInList
<1>6. ASSUME ~back PROVE next[Top] = NULL <=> Len(stack) = Len(start)
  <2>1. Remaining = Len(start)
    BY <1>6 DEF Remaining
  <2>2. next[Top] = IF Len(stack) < Len(start) THEN Old(Len(stack) + 1) ELSE NULL
    BY <1>1, <2>1 DEF FramesInList
  <2>3. Len(stack) < Len(start) => Len(stack) + 1 \in 1..Len(start) /\ Old(Len(stack) + 1) # NULL
    BY <1>1, <1>2, FAssumption
  <2> QED
    BY <1>1, <2>2, <2>3
<1> QED
  BY <1>1, <1>2, <1>3, <1>5, <1>6

\* The list a call was given is still there, unless it is being deleted.
LEMMA OldIsPath ==
  ASSUME Types, FramesInList, Remaining = Len(start)
  PROVE  IsPath([k \in 1..Len(start) |-> Old(k)], head[list], next)
<1> DEFINE old == [k \in 1..Len(start) |-> Old(k)]
<1>1. Len(start) \in Nat /\ Len(start) > 0 /\ Len(old) = Len(start) /\ \A k \in 1..Len(start) : old[k] = Old(k)
  BY AtTop
<1> HIDE DEF old
<1>2. head[list] = Nth(old, 1)
  BY <1>1 DEF Nth, FramesInList
<1>3. ASSUME NEW k \in 1..Len(start) PROVE next[old[k]] = Nth(old, k + 1)
  <2>1. next[Old(k)] = IF k < Len(start) THEN Old(k + 1) ELSE NULL
    BY DEF FramesInList
  <2>2. k < Len(start) <=> k + 1 \in 1..Len(start)
    BY <1>1
  <2> QED
    BY <1>1, <2>1, <2>2 DEF Nth
<1>4. IsPath(old, head[list], next)
  BY <1>1, <1>2, <1>3 DEF IsPath
<1> QED
  BY <1>4 DEF old

LEMMA SameStart ==
  ASSUME start' = start
  PROVE  /\ \A k : Old(k)' = Old(k)
         /\ \A k : OldValue(k)' = OldValue(k)
BY DEF Old, OldValue

LEMMA DeeperStep ==
  ASSUME IInv, pc \in {"lstdel", "lstiter"}, Deeper
  PROVE  IInv'
<1> DEFINE D == Len(stack)
<1>0. Types /\ HeapInv /\ FramesInList /\ CalledSoFar /\ FreshInv /\ OldValues
  BY DEF IInv, CallInv
<1>1. /\ ~back /\ next[Top] # NULL /\ stack' = Append(stack, next[Top])
      /\ UNCHANGED <<live, used, next, content, data, head, made, leaked, pc, list, back, fresh, start, called>>
  BY DEF Deeper, heap, caller, history
<1>2. /\ Len(start) \in Nat /\ D \in 1..Len(start) /\ Top = Old(D) /\ D # Len(start)
      /\ Top \in Nodes /\ Remaining \in D..Len(start)
  BY <1>0, <1>1, AtTop
<1>3. next[Top] \in Nodes
  BY <1>0, <1>1, <1>2 DEF Types
<1>4. stack \in Seq(Nodes)
  BY <1>0 DEF Types
<1>5. /\ stack' \in Seq(Nodes) /\ Len(stack') = D + 1
      /\ stack'[D + 1] = next[Top] /\ \A k \in 1..D : stack'[k] = stack[k]
  BY <1>1, <1>3, <1>4
<1>6. Types'
  BY <1>0, <1>1, <1>5 DEF Types
<1>7. HeapInv'
  BY <1>0, <1>1 DEF HeapInv, RootsApart, ContentsApart, Owned, Roots
<1>8. Remaining' = Len(start) /\ Remaining = Len(start) /\ Owned' = Owned
  BY <1>1 DEF Remaining, Owned
<1>9. (\A k : Old(k)' = Old(k)) /\ (\A k : OldValue(k)' = OldValue(k))
  BY <1>1, SameStart
<1>10. next[Top] = Old(D + 1)
  <2>1. D \in 1..Remaining /\ D < Remaining
    BY <1>2, <1>8
  <2> QED
    BY <1>0, <1>2, <2>1 DEF FramesInList
<1>11. FramesInList'
  <2>1. \A k \in 1..Len(stack') : stack'[k] = Old(k)
    BY <1>0, <1>2, <1>5, <1>10 DEF FramesInList
  <2>2. Len(stack') \in 1..Len(start)
    BY <1>2, <1>5
  <2> QED
    BY <1>0, <1>1, <1>8, <1>9, <2>1, <2>2 DEF FramesInList
<1>12. CalledSoFar'
  BY <1>0, <1>1, <1>9 DEF CalledSoFar
<1>13. FreshInv'
  BY <1>0, <1>1 DEF FreshInv
<1>14. OldValues'
  BY <1>0, <1>1, <1>9 DEF OldValues, ValueOf
<1> QED
  BY <1>1, <1>6, <1>7, <1>11, <1>12, <1>13, <1>14 DEF IInv, CallInv

LEMMA Appended ==
  ASSUME NEW S, NEW s \in Seq(S), NEW e \in S
  PROVE  Append(s, e) = [k \in 1..Len(s)+1 |-> IF k = Len(s) + 1 THEN e ELSE s[k]]
<1> DEFINE t == [k \in 1..Len(s)+1 |-> IF k = Len(s) + 1 THEN e ELSE s[k]]
<1>1. Len(s) \in Nat /\ Append(s, e) \in Seq(S) /\ Len(Append(s, e)) = Len(s) + 1
  OBVIOUS
<1>2. t \in Seq(S) /\ Len(t) = Len(s) + 1
  BY <1>1
<1>3. \A k \in 1..Len(s)+1 : Append(s, e)[k] = t[k]
  BY <1>1
<1> HIDE DEF t
<1>4. Append(s, e) = t
  BY <1>1, <1>2, <1>3
<1> QED
  BY <1>4 DEF t

\* Among the calls made from the last element back to the first, the next one is
\* the one of the frame on top.
LEMMA CalledNext ==
  ASSUME Types, FramesInList, CalledSoFar, pc \in {"lstdel", "lstiter"}, Ready
  PROVE  Append(called, Top) = [k \in 1..Len(start) - Len(stack) + 1 |-> Old(Len(start) + 1 - k)]
<1> DEFINE N == Len(start)
           D == Len(stack)
<1>1. N \in Nat /\ D \in 1..N /\ Top = Old(D) /\ Top \in Nodes /\ (~back => D = N)
  BY AtTop DEF Ready
<1>2. called = [k \in 1..N - D |-> Old(N + 1 - k)]
  <2>1. called = [k \in 1..(IF back THEN N - D ELSE 0) |-> Old(N + 1 - k)]
    BY DEF CalledSoFar
  <2>2. (IF back THEN N - D ELSE 0) = N - D
    BY <1>1
  <2> QED
    BY <2>1, <2>2
<1>3. N - D \in Nat /\ N + 1 - (N - D + 1) = D
  BY <1>1
<1> HIDE DEF N, D
<1>4. Len(called) = N - D /\ called \in Seq(Nodes)
  BY <1>2, <1>3 DEF Types
<1>5. Append(called, Top) = [k \in 1..N - D + 1 |-> IF k = N - D + 1 THEN Top ELSE called[k]]
  BY <1>1, <1>3, <1>4, Appended
<1>6. \A k \in 1..N - D + 1 : (IF k = N - D + 1 THEN Top ELSE called[k]) = Old(N + 1 - k)
  BY <1>1, <1>2, <1>3
<1>7. Append(called, Top) = [k \in 1..N - D + 1 |-> Old(N + 1 - k)]
  BY <1>5, <1>6
<1> QED
  BY <1>7 DEF N, D

LEMMA ReversedOld ==
  ASSUME Types
  PROVE  [k \in 1..Len(start) |-> Old(Len(start) + 1 - k)] = Reverse([k \in 1..Len(start) |-> Old(k)])
<1> DEFINE old == [k \in 1..Len(start) |-> Old(k)]
<1>1. Len(start) \in Nat /\ Len(old) = Len(start)
  BY DEF Types
<1>2. \A k \in 1..Len(start) : Len(start) + 1 - k \in 1..Len(start) /\ (Len(start) - k) + 1 = Len(start) + 1 - k
  BY <1>1
<1>3. Reverse(old) = [k \in 1..Len(start) |-> old[(Len(start) - k) + 1]]
  BY <1>1 DEF Reverse
<1>4. \A k \in 1..Len(start) : old[(Len(start) - k) + 1] = Old(Len(start) + 1 - k)
  BY <1>2
<1> QED
  BY <1>3, <1>4

\* What Leave does to the frames.
LEMMA LeaveStack ==
  ASSUME Types, FramesInList, stack' = Front(stack), start' = start
  PROVE  /\ stack' \in Seq(Nodes) /\ Len(stack') = Len(stack) - 1
         /\ \A k \in 1..Len(stack') : stack'[k] = Old(k)
         /\ Len(stack) = 1 => stack' = <<>>
<1>1. stack \in Seq(Nodes) /\ Len(stack) \in Nat /\ Len(stack) > 0
  BY DEF Types, FramesInList
<1>2. stack' = [k \in 1..Len(stack) - 1 |-> stack[k]]
  BY <1>1 DEF Front
<1>3. Len(stack') = Len(stack) - 1 /\ stack' \in Seq(Nodes)
  BY <1>1, <1>2
<1>4. \A k \in 1..Len(stack') : stack'[k] = Old(k)
  BY <1>1, <1>2, <1>3 DEF FramesInList
<1>5. Len(stack) = 1 => stack' = <<>>
  BY <1>3
<1> QED
  BY <1>3, <1>4, <1>5

LEMMA DelStep ==
  ASSUME IInv, ft_lstdel
  PROVE  IInv'
<1> DEFINE D == Len(stack)
           N == Len(start)
           old == [k \in 1..N |-> Old(k)]
<1>0. /\ Types /\ HeapInv /\ FramesInList /\ CalledSoFar /\ pc = "lstdel" /\ fresh = <<>>
      /\ RootsApart /\ ContentsApart /\ Forest(Owned, next, Roots)
  BY DEF IInv, CallInv, ft_lstdel, FreshInv, HeapInv
<1>1. /\ Ready /\ Free(Top) /\ stack' = Front(stack) /\ back' = TRUE
      /\ pc' = IF D = 1 THEN "idle" ELSE pc
      /\ head' = IF D = 1 THEN [head EXCEPT ![list] = NULL] ELSE head
      /\ next' = [n \in Nodes |-> IF n = Top \/ next[n] = Top THEN NULL ELSE next[n]]
      /\ called' = Append(called, Top)
      /\ UNCHANGED <<made, leaked, list, fresh, start>>
  BY DEF ft_lstdel, Leave
<1>2. /\ N \in Nat /\ D \in 1..N /\ Top = Old(D) /\ (~back => D = N) /\ Top \in Owned /\ Top \in Nodes
      /\ \A k \in 1..N : Old(k) \in Nodes
  BY <1>0, <1>1, AtTop DEF Ready
<1>3. Remaining = D /\ next[Top] = NULL
  <2>1. Remaining = D
    BY <1>0, <1>2 DEF Remaining
  <2>2. D \in 1..Remaining /\ ~(D < Remaining)
    BY <1>2, <2>1
  <2> QED
    BY <1>0, <1>2, <2>1, <2>2 DEF FramesInList
<1>4. /\ live' \subseteq Nodes /\ used' \subseteq Blocks /\ leaked' \subseteq live' \cup used'
      /\ content' \in [Nodes -> Blocks \cup {NULL}] /\ data' \in [Blocks -> Values \cup {NULL}]
      /\ ContentsApart' /\ Owned' = Owned \ {Top} /\ live' = live \ {Top}
  BY <1>0, <1>1, <1>2, Freed
<1>5. /\ \A k \in 1..N, h \in 1..N : Old(k) = Old(h) => k = h
      /\ head[list] = Old(1) /\ list \in Lists /\ head[list] \in Nodes
  BY <1>0, <1>2 DEF FramesInList, Types
<1>6. (\A k : Old(k)' = Old(k)) /\ (\A k : OldValue(k)' = OldValue(k))
  BY <1>1, SameStart
<1>7. /\ stack' \in Seq(Nodes) /\ Len(stack') = D - 1 /\ (D = 1 => stack' = <<>>)
      /\ \A k \in 1..Len(stack') : stack'[k] = Old(k)
  BY <1>0, <1>1, LeaveStack
<1>8. Append(called, Top) = [k \in 1..N - D + 1 |-> Old(N + 1 - k)]
  BY <1>0, <1>1, CalledNext
<1>9. Types'
  <2>1. next' \in [Nodes -> Nodes \cup {NULL}]
    BY <1>0, <1>1 DEF Types
  <2>2. head' \in [Lists -> Nodes \cup {NULL}]
    BY <1>0, <1>1 DEF Types
  <2>3. called' \in Seq(Nodes)
    BY <1>0, <1>1, <1>2 DEF Types
  <2>4. /\ pc' \in {"idle", "lstdel", "lstiter", "lstmap", "segv"} /\ back' \in BOOLEAN
        /\ list' \in Lists /\ made' \in Nodes \cup {NULL}
        /\ fresh' \in Seq(Nodes \cup {NULL}) /\ start' \in Seq(Nodes \X (Values \cup {NULL}))
    BY <1>0, <1>1, <1>5 DEF Types
  <2> QED
    BY <1>4, <1>7, <2>1, <2>2, <2>3, <2>4 DEF Types
<1>10. NULL \notin Owned /\ Owned \subseteq Nodes /\ NULL \notin Nodes
  BY <1>0, OwnedType, FAssumption
<1>11. \A n \in Owned \ {Top} : next'[n] = IF next[n] = Top THEN NULL ELSE next[n]
  BY <1>1, <1>10
<1>12. /\ Roots = ({head[l] : l \in Lists} \cup {made}) \ {NULL}
       /\ Roots' = ({head'[l] : l \in Lists} \cup {made}) \ {NULL}
  BY <1>0, <1>1 DEF Roots, Range
<1>13. /\ \A l, m \in Lists : head[l] = head[m] /\ head[l] # NULL => l = m
       /\ \A l \in Lists : made # NULL => head[l] # made
       /\ made # NULL => next[made] = NULL /\ made \in Nodes
  BY <1>0 DEF RootsApart, Types
<1>14. Roots' = Roots \ {Top}
  <2>1. CASE D = 1
    <3>1. head'[list] = NULL /\ \A l \in Lists : l # list => head'[l] = head[l]
      BY <1>0, <1>1, <1>5, <2>1 DEF Types
    <3>2. Top = head[list]
      BY <1>2, <1>5, <2>1
    <3>3. ASSUME NEW e \in Roots' PROVE e \in Roots /\ e # Top
      BY <1>5, <1>10, <1>12, <1>13, <3>1, <3>2, <3>3
    <3>4. ASSUME NEW e \in Roots, e # Top PROVE e \in Roots'
      BY <1>12, <3>1, <3>2, <3>4
    <3> QED
      BY <3>3, <3>4
  <2>2. CASE D # 1
    <3>1. D - 1 \in 1..Remaining /\ D - 1 < Remaining /\ (D - 1) + 1 = D
      BY <1>2, <1>3, <2>2
    <3>2. next[Old(D - 1)] = Top /\ Old(D - 1) \in Owned
      BY <1>0, <1>2, <3>1 DEF FramesInList
    <3>3. Top \notin Roots
      BY <1>0, <3>2 DEF Forest
    <3>4. head' = head
      BY <1>1, <2>2
    <3> QED
      BY <1>12, <3>3, <3>4
  <2> QED
    BY <2>1, <2>2
<1>15. Forest(Owned', next', Roots')
  BY <1>0, <1>2, <1>3, <1>4, <1>10, <1>11, <1>14, ForestDropLast
<1>16. RootsApart'
  <2>1. \A l \in Lists : head'[l] = head[l] \/ head'[l] = NULL
    BY <1>0, <1>1 DEF Types
  <2>2. made # NULL => next'[made] = NULL
    BY <1>1, <1>13
  <2> QED
    BY <1>0, <1>1, <1>13, <2>1, <2>2 DEF RootsApart
<1>17. CASE D = 1
  <2>1. pc' = "idle" /\ stack' = <<>> /\ fresh' = <<>> /\ head'[list] = NULL
    BY <1>0, <1>1, <1>5, <1>7, <1>17 DEF Types
  <2>2. called' = Reverse(old)
    <3>1. N - D + 1 = N
      BY <1>2, <1>17
    <3> QED
      BY <1>0, <1>1, <1>8, <3>1, ReversedOld
  <2>3. \A k \in 1..N : Old(k) \notin live'
    <3>1. \A k \in 1..N : k = D \/ k \in Remaining+1..N
      BY <1>2, <1>3, <1>17
    <3>2. \A k \in Remaining+1..N : Old(k) \notin live
      BY <1>0 DEF FramesInList
    <3> QED
      BY <1>2, <1>4, <3>1, <3>2
  <2>4. Returned'
    <3>1. list' = list /\ start' = start /\ N > 0
      BY <1>1, <1>2
    <3> QED
      BY <1>5, <1>6, <2>1, <2>2, <2>3, <3>1 DEF Returned
  <2> QED
    BY <1>4, <1>9, <1>15, <1>16, <2>1, <2>4 DEF IInv, HeapInv, CallInv
<1>18. CASE D # 1
  <2>1. pc' = "lstdel" /\ head' = head /\ fresh' = <<>>
    BY <1>0, <1>1, <1>18
  <2>2. Remaining' = D - 1 /\ D - 1 \in 1..N
    BY <1>1, <1>2, <1>7, <1>18, <2>1 DEF Remaining
  <2>3. ASSUME NEW k \in 1..D - 1
        PROVE  Old(k) \in Owned' /\ next'[Old(k)] = IF k < D - 1 THEN Old(k + 1) ELSE NULL
    <3>1. k \in 1..Remaining /\ k < Remaining /\ k \in 1..N /\ k # D /\ k + 1 \in 1..N
      BY <1>2, <1>3
    <3>2. Old(k) \in Owned /\ next[Old(k)] = Old(k + 1) /\ Old(k) # Top
      BY <1>0, <1>2, <1>5, <3>1 DEF FramesInList
    <3>3. next'[Old(k)] = IF Old(k + 1) = Top THEN NULL ELSE Old(k + 1)
      BY <1>11, <3>2
    <3>4. Old(k + 1) = Top <=> k + 1 = D
      BY <1>2, <1>5, <3>1
    <3>5. k < D - 1 <=> k + 1 # D
      BY <1>2
    <3> QED
      BY <1>4, <3>2, <3>3, <3>4, <3>5
  <2>4. \A k \in D..N : Old(k) \notin live'
    <3>1. \A k \in D..N : k = D \/ k \in Remaining+1..N
      BY <1>2, <1>3
    <3>2. \A k \in Remaining+1..N : Old(k) \notin live
      BY <1>0 DEF FramesInList
    <3> QED
      BY <1>2, <1>4, <3>1, <3>2
  <2>5. FramesInList'
    <3>1. Len(stack') \in 1..Len(start') /\ head'[list'] = Old(1)' /\ start' = start
      BY <1>1, <1>5, <1>6, <1>7, <2>1, <2>2
    <3>2. \A k \in Remaining'+1..N : Old(k) \notin live'
      <4>1. Remaining' + 1 = D
        BY <1>2, <2>2
      <4> QED
        BY <2>4, <4>1
    <3>3. \A k \in 1..Remaining' :
            Old(k) \in Owned' /\ next'[Old(k)] = IF k < Remaining' THEN Old(k + 1) ELSE NULL
      BY <2>2, <2>3
    <3> QED
      BY <1>5, <1>6, <1>7, <3>1, <3>2, <3>3 DEF FramesInList
  <2>6. CalledSoFar'
    <3>1. N - Len(stack') = N - D + 1 /\ start' = start /\ back'
      BY <1>1, <1>2, <1>7
    <3> QED
      BY <1>1, <1>6, <1>8, <2>1, <3>1 DEF CalledSoFar
  <2>7. FreshInv' /\ OldValues'
    BY <2>1 DEF FreshInv, OldValues
  <2> QED
    BY <1>4, <1>9, <1>15, <1>16, <2>1, <2>5, <2>6, <2>7 DEF IInv, HeapInv, CallInv
<1> QED
  BY <1>17, <1>18

LEMMA IterStep ==
  ASSUME IInv, ft_lstiter
  PROVE  IInv'
<1> DEFINE D == Len(stack)
           N == Len(start)
           old == [k \in 1..N |-> Old(k)]
<1>0. /\ Types /\ HeapInv /\ FramesInList /\ CalledSoFar /\ OldValues /\ pc = "lstiter" /\ fresh = <<>>
      /\ ContentsApart
  BY DEF IInv, CallInv, ft_lstiter, FreshInv, HeapInv
<1>1. /\ Ready /\ stack' = Front(stack) /\ back' = TRUE
      /\ pc' = IF D = 1 THEN "idle" ELSE pc
      /\ data' = [b \in Blocks |-> IF b = content[Top] THEN Mapped(data[b]) ELSE data[b]]
      /\ called' = Append(called, Top)
      /\ UNCHANGED <<live, used, next, content, head, made, leaked, list, fresh, start>>
  BY DEF ft_lstiter, Leave, caller
<1>2. /\ N \in Nat /\ D \in 1..N /\ Top = Old(D) /\ (~back => D = N) /\ Top \in Owned /\ Top \in Nodes
      /\ \A k \in 1..N : Old(k) \in Nodes
  BY <1>0, <1>1, AtTop DEF Ready
<1>3. Remaining = N /\ \A k \in 1..N, h \in 1..N : Old(k) = Old(h) => k = h
  BY <1>0 DEF Remaining, FramesInList
<1>4. (\A k : Old(k)' = Old(k)) /\ (\A k : OldValue(k)' = OldValue(k))
  BY <1>1, SameStart
<1>5. /\ stack' \in Seq(Nodes) /\ Len(stack') = D - 1 /\ (D = 1 => stack' = <<>>)
      /\ \A k \in 1..Len(stack') : stack'[k] = Old(k)
  BY <1>0, <1>1, LeaveStack
<1>6. Append(called, Top) = [k \in 1..N - D + 1 |-> Old(N + 1 - k)]
  BY <1>0, <1>1, CalledNext
<1>7. Types'
  <2>1. data' \in [Blocks -> Values \cup {NULL}]
    <3>1. \A v \in Values \cup {NULL} : Mapped(v) \in Values \cup {NULL}
      BY FAssumption DEF Mapped
    <3> QED
      BY <1>0, <1>1, <3>1 DEF Types
  <2>2. called' \in Seq(Nodes)
    BY <1>0, <1>1, <1>2 DEF Types
  <2>3. /\ pc' \in {"idle", "lstdel", "lstiter", "lstmap", "segv"} /\ back' \in BOOLEAN /\ list' \in Lists
    BY <1>0, <1>1 DEF Types
  <2> QED
    BY <1>0, <1>1, <1>5, <2>1, <2>2, <2>3 DEF Types
<1>8. HeapInv' /\ Owned' = Owned
  BY <1>0, <1>1 DEF HeapInv, RootsApart, ContentsApart, Owned, Roots
<1>9. ASSUME NEW k \in 1..N
      PROVE  ValueOf(Old(k))' = IF k > D - 1 THEN Mapped(OldValue(k)) ELSE OldValue(k)
  <2>1. ValueOf(Old(k)) = IF back /\ k > D THEN Mapped(OldValue(k)) ELSE OldValue(k)
    BY <1>0 DEF OldValues
  <2>2. ValueOf(Old(k))' = IF content[Old(k)] = NULL THEN NULL ELSE data'[content[Old(k)]]
    BY <1>1, <1>4 DEF ValueOf
  <2>3. content[Old(k)] # NULL => content[Old(k)] \in Blocks
    BY <1>0, <1>2 DEF Types
  <2>4. CASE k = D
    <3>1. ValueOf(Old(k))' = Mapped(ValueOf(Old(k)))
      BY <1>1, <1>2, <2>2, <2>3, <2>4 DEF ValueOf, Mapped
    <3>2. ~(k > D) /\ k > D - 1
      BY <1>2, <2>4
    <3> QED
      BY <2>1, <3>1, <3>2
  <2>5. CASE k # D
    <3>1. content[Old(k)] # NULL => content[Old(k)] # content[Top]
      BY <1>0, <1>2, <1>3, <2>5 DEF ContentsApart
    <3>2. ValueOf(Old(k))' = ValueOf(Old(k))
      BY <1>1, <2>2, <2>3, <3>1 DEF ValueOf
    <3>3. k > D - 1 <=> k > D
      BY <1>2, <2>5
    <3>4. k > D => back
      BY <1>2
    <3> QED
      BY <2>1, <3>2, <3>3, <3>4
  <2> QED
    BY <2>4, <2>5
<1>10. CASE D = 1
  <2>1. pc' = "idle" /\ stack' = <<>> /\ fresh' = <<>>
    BY <1>0, <1>1, <1>5, <1>10
  <2>2. called' = Reverse(old)
    <3>1. N - D + 1 = N
      BY <1>2, <1>10
    <3> QED
      BY <1>0, <1>1, <1>6, <3>1, ReversedOld
  <2>3. IsPath(old, head[list], next)
    BY <1>0, <1>3, OldIsPath
  <2>4. \A k \in 1..N : ValueOf(Old(k))' = Mapped(OldValue(k))
    <3>1. \A k \in 1..N : k > D - 1
      BY <1>2, <1>10
    <3> QED
      BY <1>9, <3>1
  <2>5. Returned'
    <3>1. list' = list /\ start' = start /\ head' = head /\ next' = next /\ N > 0 /\ list \in Lists
      BY <1>0, <1>1, <1>2 DEF Types
    <3> QED
      BY <1>4, <2>1, <2>2, <2>3, <2>4, <3>1 DEF Returned
  <2> QED
    BY <1>7, <1>8, <2>1, <2>5 DEF IInv, CallInv
<1>11. CASE D # 1
  <2>1. pc' = "lstiter" /\ fresh' = <<>>
    BY <1>0, <1>1, <1>11
  <2>2. Remaining' = N /\ D - 1 \in 1..N
    <3>1. start' = start
      BY <1>1
    <3>2. Remaining' = N
      BY <2>1, <3>1 DEF Remaining
    <3> QED
      BY <1>2, <1>11, <3>2
  <2>3. FramesInList'
    BY <1>0, <1>1, <1>3, <1>4, <1>5, <1>8, <2>2 DEF FramesInList
  <2>4. CalledSoFar'
    <3>1. N - Len(stack') = N - D + 1 /\ start' = start /\ back'
      BY <1>1, <1>2, <1>5
    <3> QED
      BY <1>1, <1>4, <1>6, <2>1, <3>1 DEF CalledSoFar
  <2>5. OldValues'
    BY <1>1, <1>4, <1>5, <1>9, <2>1 DEF OldValues
  <2>6. FreshInv'
    BY <2>1 DEF FreshInv
  <2> QED
    BY <1>7, <1>8, <2>1, <2>3, <2>4, <2>5, <2>6 DEF IInv, CallInv
<1> QED
  BY <1>10, <1>11

LEMMA MapStep ==
  ASSUME IInv, ft_lstmap
  PROVE  IInv'
<1> DEFINE D == Len(stack)
           N == Len(start)
<1>0. /\ Types /\ HeapTypes /\ HeapInv /\ FramesInList /\ CalledSoFar /\ FreshInv /\ OldValues /\ pc = "lstmap" /\ ~back
      /\ RootsApart /\ ContentsApart /\ Forest(Owned, next, Roots)
  BY OwnedType DEF IInv, CallInv, ft_lstmap, HeapInv
<1>1. PICK r \in Nodes \cup {NULL} :
        /\ lstnew_returns(Mapped(ValueOf(Top)), r) /\ fresh' = Append(fresh, r)
        /\ pc' = IF r = NULL /\ next[Top] # NULL THEN "segv" ELSE pc
  BY DEF ft_lstmap
<1>2. /\ IF next[Top] # NULL THEN stack' = Append(stack, next[Top]) /\ back' = back
         ELSE back' = TRUE /\ stack' = stack
      /\ called' = Append(called, Top)
      /\ UNCHANGED <<head, made, list, start>>
  BY DEF ft_lstmap
<1>3. /\ N \in Nat /\ D \in 1..N /\ Top = Old(D) /\ Top \in Owned /\ Top \in Nodes
      /\ (next[Top] = NULL <=> D = N)
      /\ \A k \in 1..N : Old(k) \in Nodes /\ OldValue(k) \in Values \cup {NULL}
  BY <1>0, AtTop
<1>4. Remaining = N /\ \A k \in 1..N, h \in 1..N : Old(k) = Old(h) => k = h
  BY <1>0 DEF Remaining, FramesInList
<1>5. (\A k : Old(k)' = Old(k)) /\ (\A k : OldValue(k)' = OldValue(k))
  BY <1>2, SameStart
<1>6. Mapped(ValueOf(Top)) = Mapped(OldValue(D)) /\ Mapped(OldValue(D)) \in Values \cup {NULL}
  <2>1. ValueOf(Top) = OldValue(D)
    BY <1>0, <1>3 DEF OldValues
  <2> QED
    BY <1>3, <2>1, FAssumption DEF Mapped
<1>7. /\ HeapTypes' /\ ContentsApart'
      /\ r # NULL => r \notin live /\ Owned' = Owned \cup {r} /\ next'[r] = NULL
                     /\ ValueOf(r)' = Mapped(OldValue(D))
      /\ r = NULL => Owned' = Owned
      /\ \A n \in Nodes : n # r => next'[n] = next[n]
      /\ \A n \in Nodes : n # r => ValueOf(n)' = ValueOf(n)
  BY <1>0, <1>1, <1>6, Allocated
<1>8. Owned \subseteq Nodes /\ NULL \notin Owned /\ Owned \subseteq live /\ NULL \notin Nodes
  BY <1>0, OwnedType, FAssumption
<1>9. /\ fresh \in Seq(Nodes \cup {NULL}) /\ Len(fresh) = D - 1
      /\ \A k \in 1..D - 1 : fresh[k] # NULL /\ next[fresh[k]] = NULL /\ ValueOf(fresh[k]) = Mapped(OldValue(k))
  BY <1>0 DEF FreshInv, Types
<1>10. /\ fresh' \in Seq(Nodes \cup {NULL}) /\ Len(fresh') = D /\ fresh'[D] = r
       /\ \A k \in 1..D - 1 : fresh'[k] = fresh[k]
  BY <1>1, <1>3, <1>9
<1>11. stack' \in Seq(Nodes) /\ called' \in Seq(Nodes)
  <2>1. next[Top] # NULL => next[Top] \in Nodes
    BY <1>0, <1>3 DEF Types
  <2>2. stack \in Seq(Nodes) /\ called \in Seq(Nodes)
    BY <1>0 DEF Types
  <2>3. called' \in Seq(Nodes)
    BY <1>2, <1>3, <2>2
  <2>4. stack' \in Seq(Nodes)
    BY <1>2, <2>1, <2>2
  <2> QED
    BY <2>3, <2>4
<1>12. Types'
  <2>1. /\ pc' \in {"idle", "lstdel", "lstiter", "lstmap", "segv"} /\ back' \in BOOLEAN
        /\ list' \in Lists /\ made' \in Nodes \cup {NULL} /\ head' \in [Lists -> Nodes \cup {NULL}]
        /\ start' \in Seq(Nodes \X (Values \cup {NULL}))
    BY <1>0, <1>1, <1>2 DEF Types
  <2> QED
    BY <1>7, <1>10, <1>11, <2>1 DEF Types, HeapTypes
<1>13. CASE pc' = "segv"
  BY <1>12, <1>13 DEF IInv
<1>14. CASE pc' # "segv"
  <2>0. pc' = "lstmap" /\ (r # NULL \/ D = N)
    BY <1>0, <1>1, <1>3, <1>14
  <2>1. \A k \in 1..D - 1 : fresh[k] \in Owned /\ fresh[k] \in Nodes /\ fresh[k] # r
    <3>1. \A k \in 1..D - 1 : fresh[k] \in Roots
      BY <1>9 DEF Roots, Range
    <3> QED
      BY <1>0, <1>7, <1>8, <3>1 DEF Forest
  <2>2. Roots' = Roots \cup ({r} \ {NULL})
    <3>1. Roots = ({head[l] : l \in Lists} \cup {made} \cup {fresh[k] : k \in 1..D - 1}) \ {NULL}
      BY <1>9 DEF Roots, Range
    <3>2. Roots' = ({head[l] : l \in Lists} \cup {made} \cup {fresh'[k] : k \in 1..D}) \ {NULL}
      BY <1>2, <1>10 DEF Roots, Range
    <3>3. {fresh'[k] : k \in 1..D} = {fresh[k] : k \in 1..D - 1} \cup {r}
      <4>1. \A k \in 1..D : k = D \/ k \in 1..D - 1
        BY <1>3
      <4>2. D \in 1..D /\ \A k \in 1..D - 1 : k \in 1..D
        BY <1>3
      <4> QED
        BY <1>10, <4>1, <4>2
    <3> QED
      BY <3>1, <3>2, <3>3
  <2>3. Forest(Owned', next', Roots')
    <3>1. CASE r = NULL
      <4>1. Owned' = Owned /\ Roots' = Roots /\ \A n \in Owned : next'[n] = next[n]
        BY <1>7, <1>8, <2>2, <3>1
      <4> QED
        BY <1>0, <4>1 DEF Forest
    <3>2. CASE r # NULL
      <4>1. r \notin Owned /\ next'[r] = NULL /\ \A n \in Owned : next'[n] = next[n]
        BY <1>7, <1>8, <3>2
      <4>2. Forest(Owned \cup {r}, next', Roots \cup {r})
        BY <1>0, <1>8, <3>2, <4>1, ForestNew
      <4>3. Owned' = Owned \cup {r} /\ Roots' = Roots \cup {r}
        BY <1>7, <2>2, <3>2
      <4> QED
        BY <4>2, <4>3
    <3> QED
      BY <3>1, <3>2
  <2>4. RootsApart'
    <3>1. /\ \A l, m \in Lists : head[l] = head[m] /\ head[l] # NULL => l = m
          /\ \A l \in Lists : made # NULL => head[l] # made
          /\ \A k, h \in 1..D - 1 : fresh[k] = fresh[h] => k = h
          /\ \A k \in 1..D - 1 : fresh[k] # made /\ \A l \in Lists : fresh[k] # head[l]
          /\ made # NULL => next[made] = NULL /\ made \in Nodes
      BY <1>0, <1>9 DEF RootsApart, Types
    <3>2. r # NULL => r # made /\ \A l \in Lists : r # head[l]
      <4>1. \A e \in Roots : e # r
        BY <1>0, <1>7, <1>8, <2>2 DEF Forest
      <4> QED
        BY <4>1 DEF Roots
    <3>3. made # NULL => next'[made] = NULL
      BY <1>7, <3>1, <3>2
    <3>4. \A k \in 1..D : k = D \/ k \in 1..D - 1
      BY <1>3
    <3>5. ASSUME NEW k \in 1..D, NEW h \in 1..D, fresh'[k] = fresh'[h], fresh'[k] # NULL PROVE k = h
      BY <1>10, <2>1, <3>1, <3>4, <3>5
    <3>6. ASSUME NEW k \in 1..D, fresh'[k] # NULL
          PROVE  fresh'[k] # made /\ \A l \in Lists : fresh'[k] # head[l]
      BY <1>10, <3>1, <3>2, <3>4, <3>6
    <3> QED
      BY <1>2, <1>10, <3>1, <3>3, <3>5, <3>6 DEF RootsApart
  <2>5. HeapInv'
    BY <1>7, <2>3, <2>4 DEF HeapInv
  <2>6. Remaining' = N
    BY <1>2, <2>0 DEF Remaining
  <2>7. \A k \in 1..N : Old(k) \in Owned' /\ next'[Old(k)] = next[Old(k)] /\ ValueOf(Old(k))' = ValueOf(Old(k))
    <3>1. \A k \in 1..N : Old(k) \in Owned /\ Old(k) # r /\ Old(k) \in Nodes
      BY <1>0, <1>3, <1>4, <1>7, <1>8 DEF FramesInList
    <3>2. ASSUME NEW k \in 1..N PROVE ValueOf(Old(k))' = ValueOf(Old(k))
      <4>1. \A n \in Nodes : n # r => (IF content'[n] = NULL THEN NULL ELSE data'[content'[n]]) = ValueOf(n)
        BY <1>7 DEF ValueOf
      <4>2. ValueOf(Old(k))' = IF content'[Old(k)] = NULL THEN NULL ELSE data'[content'[Old(k)]]
        BY <1>5 DEF ValueOf
      <4> QED
        BY <3>1, <4>1, <4>2
    <3> QED
      BY <1>7, <3>1, <3>2
  <2>8. /\ Len(stack') = (IF D = N THEN D ELSE D + 1) /\ Len(stack') \in 1..N
        /\ (D = N => back') /\ (D # N => ~back') /\ \A k \in 1..Len(stack') : stack'[k] = Old(k)
    <3>1. stack \in Seq(Nodes) /\ \A k \in 1..D : stack[k] = Old(k)
      BY <1>0 DEF Types, FramesInList
    <3>2. CASE D = N
      BY <1>2, <1>3, <3>1, <3>2
    <3>3. CASE D # N
      <4>1. D \in 1..Remaining /\ D < Remaining
        BY <1>3, <1>4, <3>3
      <4>2. next[Top] = Old(D + 1) /\ next[Top] \in Nodes
        BY <1>0, <1>3, <3>3, <4>1 DEF FramesInList, Types
      <4>3. stack' = Append(stack, next[Top]) /\ back' = FALSE
        BY <1>0, <1>2, <1>3, <3>3
      <4>4. /\ Len(stack') = D + 1 /\ stack'[D + 1] = next[Top]
            /\ \A k \in 1..D : stack'[k] = stack[k]
        BY <3>1, <4>2, <4>3
      <4>5. \A k \in 1..D + 1 : k = D + 1 \/ k \in 1..D
        BY <1>3
      <4>6. D + 1 \in 1..N
        BY <1>3, <3>3
      <4> QED
        BY <3>1, <3>3, <4>2, <4>3, <4>4, <4>5, <4>6
    <3> QED
      BY <3>2, <3>3
  <2>9. FramesInList'
    <3>1. /\ Len(stack') \in 1..Len(start') /\ head'[list'] = Old(1)' /\ start' = start
      BY <1>0, <1>2, <1>5, <2>8 DEF FramesInList
    <3>2. \A k \in Remaining'+1..N : FALSE
      BY <1>3, <2>6
    <3>3. \A k \in 1..N : next'[Old(k)] = IF k < N THEN Old(k + 1) ELSE NULL
      BY <1>0, <1>4, <2>7 DEF FramesInList
    <3> QED
      BY <1>4, <1>5, <2>6, <2>7, <2>8, <3>1, <3>2, <3>3 DEF FramesInList
  <2>10. CalledSoFar'
    <3>1. called = [k \in 1..D - 1 |-> Old(k)]
      BY <1>0 DEF CalledSoFar
    <3>2. D - 1 \in Nat /\ (D - 1) + 1 = D
      BY <1>3
    <3>3. called \in Seq(Nodes) /\ Len(called) = D - 1
      BY <1>0, <3>1, <3>2 DEF Types
    <3>4. called' = [k \in 1..D |-> IF k = D THEN Top ELSE called[k]]
      <4>1. Append(called, Top) = [k \in 1..Len(called)+1 |-> IF k = Len(called) + 1 THEN Top ELSE called[k]]
        BY <1>3, <3>3, Appended
      <4> QED
        BY <1>2, <3>2, <3>3, <4>1
    <3>5. \A k \in 1..D : (IF k = D THEN Top ELSE called[k]) = Old(k)
      BY <1>3, <3>1
    <3>6. called' = [k \in 1..D |-> Old(k)]
      BY <3>4, <3>5
    <3>7. (IF back' THEN N ELSE Len(stack') - 1) = D
      <4>1. CASE D = N
        BY <2>8, <4>1
      <4>2. CASE D # N
        <5>1. ~back' /\ Len(stack') = D + 1 /\ (D + 1) - 1 = D
          BY <1>3, <2>8, <4>2
        <5> QED
          BY <5>1
      <4> QED
        BY <4>1, <4>2
    <3> QED
      BY <1>2, <1>5, <2>0, <3>6, <3>7 DEF CalledSoFar
  <2> DEFINE ValueNow(e) == IF content'[e] = NULL THEN NULL ELSE data'[content'[e]]
  <2>11. /\ \A n \in Nodes : n # r => ValueNow(n) = ValueOf(n)
         /\ r # NULL => ValueNow(r) = Mapped(OldValue(D))
    BY <1>7 DEF ValueOf
  <2>12. ASSUME NEW k \in 1..D, fresh'[k] # NULL
         PROVE  next'[fresh'[k]] = NULL /\ ValueNow(fresh'[k]) = Mapped(OldValue(k))
    <3>1. CASE k = D
      <4>1. fresh'[k] = r /\ r # NULL
        BY <1>10, <2>12, <3>1
      <4> QED
        BY <1>7, <2>11, <3>1, <4>1
    <3>2. CASE k # D
      <4>1. k \in 1..D - 1
        BY <1>3, <3>2
      <4>2. fresh'[k] = fresh[k] /\ fresh[k] \in Nodes /\ fresh[k] # r
        BY <1>10, <2>1, <4>1
      <4>3. next[fresh[k]] = NULL /\ ValueOf(fresh[k]) = Mapped(OldValue(k))
        BY <1>9, <4>1
      <4> QED
        BY <1>7, <2>11, <4>2, <4>3
    <3> QED
      BY <3>1, <3>2
  <2>13. ASSUME NEW k \in 1..D, k < D \/ ~back' PROVE fresh'[k] # NULL
    <3>1. CASE k = D
      BY <1>10, <2>0, <2>8, <2>13, <3>1
    <3>2. CASE k # D
      <4>1. k \in 1..D - 1
        BY <1>3, <3>2
      <4> QED
        BY <1>9, <1>10, <4>1
    <3> QED
      BY <3>1, <3>2
  <2>14. ASSUME back'
         PROVE  \E s \in Seq(Owned') :
                  /\ IsPath(s, fresh'[Len(fresh')], next') /\ Len(s) \in {N - D + 1, N - D}
                  /\ \A k \in 1..Len(s) : ValueNow(s[k]) = Mapped(OldValue(D - 1 + k))
    <3>1. D = N /\ N - D + 1 = 1 /\ N - D = 0 /\ Len(stack') = D /\ fresh'[Len(fresh')] = r
      BY <1>3, <1>10, <2>8, <2>14
    <3>2. CASE r = NULL
      <4> DEFINE s == <<>>
      <4>1. s \in Seq(Owned') /\ Len(s) = 0 /\ IsPath(s, r, next') /\ \A k \in 1..Len(s) : FALSE
        BY <3>2 DEF IsPath, Nth
      <4> HIDE DEF s
      <4> QED
        BY <3>1, <4>1
    <3>3. CASE r # NULL
      <4> DEFINE s == <<r>>
      <4>1. s \in Seq(Owned') /\ Len(s) = 1 /\ s[1] = r
        BY <1>7, <3>3
      <4>2. IsPath(s, r, next')
        BY <1>7, <3>3, <4>1 DEF IsPath, Nth
      <4>3. \A k \in 1..Len(s) : ValueNow(s[k]) = Mapped(OldValue(D - 1 + k))
        <5>1. \A k \in 1..Len(s) : k = 1 /\ D - 1 + k = D
          BY <1>3, <4>1
        <5> QED
          BY <2>11, <3>3, <4>1, <5>1
      <4> HIDE DEF s
      <4> QED
        BY <3>1, <4>1, <4>2, <4>3
    <3> QED
      BY <3>2, <3>3
  <2>15. FreshInv'
    <3>1. Len(fresh') = IF back' THEN Len(stack') ELSE Len(stack') - 1
      <4>1. CASE D = N
        BY <1>10, <2>8, <4>1
      <4>2. CASE D # N
        <5>1. ~back' /\ Len(stack') = D + 1 /\ (D + 1) - 1 = D
          BY <1>3, <2>8, <4>2
        <5> QED
          BY <1>10, <5>1
      <4> QED
        BY <4>1, <4>2
    <3>2. ASSUME back'
          PROVE  \E s \in Seq(Owned') : Chain(s, fresh[Len(fresh)], Len(stack) - 1, Len(start) - Len(stack) + 1)'
      <4>1. PICK s \in Seq(Owned') :
                  /\ IsPath(s, fresh'[Len(fresh')], next') /\ Len(s) \in {N - D + 1, N - D}
                  /\ \A k \in 1..Len(s) : ValueNow(s[k]) = Mapped(OldValue(D - 1 + k))
        BY <2>14, <3>2
      <4>2. D = N /\ Len(stack') = D /\ start' = start /\ (N - D + 1) - 1 = N - D
        BY <1>2, <1>3, <2>8, <3>2
      <4>3. Chain(s, fresh[Len(fresh)], Len(stack) - 1, Len(start) - Len(stack) + 1)'
        BY <1>5, <4>1, <4>2 DEF Chain, ValueOf, IsPath
      <4> QED
        BY <4>3
    <3>3. \A k \in 1..Len(fresh') : fresh'[k] # NULL => (ValueOf(fresh[k]) = Mapped(OldValue(k)))'
      BY <1>5, <1>10, <2>12 DEF ValueOf
    <3>4. \A k \in 1..Len(fresh') : k < Len(fresh') \/ ~back' => fresh'[k] # NULL /\ next'[fresh'[k]] = NULL
      BY <1>10, <2>12, <2>13
    <3> HIDE DEF ValueNow
    <3> QED
      BY <2>0, <3>1, <3>2, <3>3, <3>4 DEF FreshInv
  <2>16. OldValues'
    <3>1. \A k \in 1..N : (ValueOf(Old(k)) = OldValue(k))'
      <4>1. \A k \in 1..N : ValueOf(Old(k)) = OldValue(k)
        BY <1>0 DEF OldValues
      <4> QED
        BY <1>5, <2>7, <4>1
    <3> QED
      BY <1>2, <2>0, <3>1 DEF OldValues
  <2> QED
    BY <1>12, <2>0, <2>5, <2>9, <2>10, <2>15, <2>16 DEF IInv, CallInv
<1> QED
  BY <1>13, <1>14

\* What the frame of a deeper call returned is linked to the element before it.
LEMMA LinkStep ==
  ASSUME IInv, lstmap_return, Len(stack) # 1
  PROVE  IInv'
<1> DEFINE D == Len(stack)
           N == Len(start)
           a == fresh[D - 1]
           b == fresh[D]
<1>0. /\ Types /\ HeapInv /\ FramesInList /\ CalledSoFar /\ FreshInv /\ OldValues /\ pc = "lstmap" /\ back
      /\ RootsApart /\ ContentsApart /\ Forest(Owned, next, Roots)
  BY DEF IInv, CallInv, lstmap_return, HeapInv
<1>1. /\ next' = [next EXCEPT ![a] = b] /\ fresh' = Front(fresh) /\ stack' = Front(stack)
      /\ UNCHANGED <<pc, head, live, used, content, data, made, leaked, list, back, start, called>>
  BY DEF lstmap_return, history
<1>2. /\ N \in Nat /\ D \in 1..N /\ D # 1 /\ D - 1 \in 1..D - 1 /\ D - 1 \in 1..N
      /\ \A k \in 1..N : Old(k) \in Nodes
  <2>1. N \in Nat /\ D \in 1..N /\ \A k \in 1..N : Old(k) \in Nodes
    BY <1>0, AtTop
  <2>2. N \in Nat /\ D \in 1..N /\ D # 1
    BY <2>1
  <2> HIDE DEF D, N
  <2>3. D - 1 \in 1..D - 1 /\ D - 1 \in 1..N
    BY <2>2
  <2> USE DEF D, N
  <2> QED
    BY <2>1, <2>2, <2>3
<1>3. Remaining = N /\ Remaining' = N
  BY <1>0, <1>1 DEF Remaining
<1>4. (\A k : Old(k)' = Old(k)) /\ (\A k : OldValue(k)' = OldValue(k))
  BY <1>1, SameStart
<1>5. /\ stack' \in Seq(Nodes) /\ Len(stack') = D - 1
      /\ \A k \in 1..Len(stack') : stack'[k] = Old(k)
  BY <1>0, <1>1, LeaveStack
<1>6. /\ fresh \in Seq(Nodes \cup {NULL}) /\ Len(fresh) = D
      /\ \A k \in 1..D - 1 : fresh[k] # NULL /\ next[fresh[k]] = NULL
      /\ \A k \in 1..D : fresh[k] # NULL => ValueOf(fresh[k]) = Mapped(OldValue(k))
  <2>1. fresh \in Seq(Nodes \cup {NULL}) /\ Len(fresh) = D
    BY <1>0 DEF FreshInv, Types
  <2>2. \A k \in 1..D - 1 : k \in 1..Len(fresh) /\ k < Len(fresh)
    BY <1>2, <2>1
  <2> QED
    BY <1>0, <2>1, <2>2 DEF FreshInv
<1>7. /\ fresh' \in Seq(Nodes \cup {NULL}) /\ Len(fresh') = D - 1
      /\ \A k \in 1..D - 1 : fresh'[k] = fresh[k]
  <2>1. fresh' = [k \in 1..D - 1 |-> fresh[k]]
    BY <1>1, <1>6 DEF Front
  <2> QED
    BY <1>2, <1>6, <2>1
<1>8. /\ \A k, h \in 1..D : fresh[k] = fresh[h] /\ fresh[k] # NULL => k = h
      /\ \A k \in 1..D : fresh[k] # NULL => fresh[k] # made /\ \A l \in Lists : fresh[k] # head[l]
      /\ \A l, m \in Lists : head[l] = head[m] /\ head[l] # NULL => l = m
      /\ \A l \in Lists : made # NULL => head[l] # made
      /\ made # NULL => next[made] = NULL /\ made \in Nodes
  BY <1>0, <1>6 DEF RootsApart, Types
<1>9. Owned \subseteq Nodes /\ NULL \notin Owned /\ NULL \notin Nodes /\ Owned' = Owned
  BY <1>0, <1>1, OwnedType, FAssumption DEF Owned
<1>10. D \in 1..D /\ \A k \in 1..D : k = D \/ k \in 1..D - 1
  BY <1>2
<1>11. \A k \in 1..D - 1 : k \in 1..D /\ k # D
  BY <1>2
<1>12. Roots = ({head[l] : l \in Lists} \cup {made} \cup {fresh[k] : k \in 1..D}) \ {NULL}
  BY <1>6 DEF Roots, Range
<1>13. Roots \subseteq Owned /\ \A k \in 1..D : fresh[k] # NULL => fresh[k] \in Roots
  BY <1>0, <1>12 DEF Forest
<1>14. a \in Roots /\ a \in Nodes /\ next[a] = NULL /\ b \in Roots \cup {NULL} /\ a # b
  <2>1. a # NULL /\ next[a] = NULL /\ a # b
    BY <1>2, <1>6, <1>8, <1>10, <1>11
  <2> QED
    BY <1>2, <1>9, <1>10, <1>11, <1>13, <2>1
<1>15. next'[a] = b /\ \A n \in Nodes : n # a => next'[n] = next[n]
  BY <1>0, <1>1, <1>14 DEF Types
<1>16. Types'
  <2>1. next' \in [Nodes -> Nodes \cup {NULL}]
    <3>1. b \in Nodes \cup {NULL}
      BY <1>9, <1>13, <1>14
    <3> QED
      BY <1>0, <1>1, <3>1 DEF Types
  <2> QED
    BY <1>0, <1>1, <1>5, <1>7, <2>1 DEF Types
<1>17. Roots' = Roots \ {b}
  <2>1. Roots' = ({head[l] : l \in Lists} \cup {made} \cup {fresh[k] : k \in 1..D - 1}) \ {NULL}
    <3>1. Range(fresh') = {fresh[k] : k \in 1..D - 1}
      BY <1>7 DEF Range
    <3> QED
      BY <1>1, <3>1 DEF Roots
  <2>2. {fresh[k] : k \in 1..D} = {fresh[k] : k \in 1..D - 1} \cup {b}
    BY <1>10, <1>11
  <2>3. b # NULL => b # made /\ (\A l \in Lists : b # head[l]) /\ \A k \in 1..D - 1 : fresh[k] # b
    BY <1>8, <1>10, <1>11
  <2> QED
    BY <1>12, <2>1, <2>2, <2>3
<1>18. Forest(Owned', next', Roots')
  <2>1. \A n \in Owned \ {a} : next'[n] = next[n]
    BY <1>9, <1>15
  <2>2. Forest(Owned, next', Roots \ {b})
    <3> HIDE DEF a, b
    <3> QED
      BY <1>0, <1>9, <1>14, <1>15, <2>1, ForestLink
  <2> QED
    BY <1>9, <1>17, <2>2
<1>19. RootsApart'
  <2>1. made # NULL => made # a
    BY <1>2, <1>8, <1>11, <1>14, <1>9, <1>13
  <2>2. made # NULL => next'[made] = NULL
    BY <1>8, <1>15, <2>1
  <2>3. ASSUME NEW k \in 1..D - 1, NEW h \in 1..D - 1, fresh'[k] = fresh'[h], fresh'[k] # NULL PROVE k = h
    BY <1>7, <1>8, <1>11, <2>3
  <2>4. ASSUME NEW k \in 1..D - 1, fresh'[k] # NULL
        PROVE  fresh'[k] # made /\ \A l \in Lists : fresh'[k] # head[l]
    BY <1>7, <1>8, <1>11, <2>4
  <2> QED
    BY <1>1, <1>7, <1>8, <2>2, <2>3, <2>4 DEF RootsApart
<1>20. ContentsApart'
  BY <1>0, <1>1, <1>9 DEF ContentsApart
<1>21. ASSUME NEW k \in 1..N PROVE Old(k) # a
  <2>1. CASE k = 1
    <3>1. Old(1) = head[list] /\ list \in Lists
      BY <1>0 DEF FramesInList, Types
    <3>2. \A l \in Lists : a # head[l]
      BY <1>2, <1>6, <1>8, <1>11
    <3> QED
      BY <2>1, <3>1, <3>2
  <2>2. CASE k # 1
    <3>1. k - 1 \in 1..Remaining /\ k - 1 < Remaining /\ (k - 1) + 1 = k
      BY <1>2, <1>3, <2>2
    <3>2. next[Old(k - 1)] = Old(k) /\ Old(k - 1) \in Owned
      BY <1>0, <3>1 DEF FramesInList
    <3> QED
      BY <1>0, <1>14, <3>2 DEF Forest
  <2> QED
    BY <2>1, <2>2
<1>22. FramesInList'
  <2>1. \A k \in 1..N : Old(k) \in Owned' /\ next'[Old(k)] = IF k < N THEN Old(k + 1) ELSE NULL
    BY <1>0, <1>2, <1>3, <1>9, <1>15, <1>21 DEF FramesInList
  <2>2. \A k \in N+1..N : FALSE
    BY <1>2
  <2>3. Len(stack') \in 1..Len(start') /\ start' = start /\ head'[list'] = Old(1)'
    BY <1>0, <1>1, <1>2, <1>4, <1>5 DEF FramesInList
  <2>4. \A k, h \in 1..N : Old(k) = Old(h) => k = h
    BY <1>0 DEF FramesInList
  <2> QED
    BY <1>3, <1>4, <1>5, <2>1, <2>2, <2>3, <2>4 DEF FramesInList
<1>23. CalledSoFar'
  BY <1>0, <1>1, <1>4 DEF CalledSoFar
<1>24. \A n : ValueOf(n)' = ValueOf(n)
  BY <1>1 DEF ValueOf
<1>25. PICK s \in Seq(Owned) : Chain(s, b, D - 1, N - D + 1)
  BY <1>0, <1>6 DEF FreshInv
<1>26. PICK t \in Seq(Owned) :
         /\ Len(t) = Len(s) + 1 /\ t[1] = a /\ \A k \in 1..Len(s) : t[k + 1] = s[k]
         /\ \A k \in 1..Len(t) : k # 1 => k - 1 \in 1..Len(s) /\ t[k] = s[k - 1]
  <2> DEFINE t == <<a>> \o s
  <2>1. a \in Owned
    BY <1>13, <1>14
  <2> HIDE DEF a
  <2>2. t \in Seq(Owned) /\ Len(t) = Len(s) + 1 /\ t[1] = a /\ \A k \in 1..Len(s) : t[k + 1] = s[k]
    BY <2>1
  <2> HIDE DEF t
  <2>3. ASSUME NEW k \in 1..Len(t), k # 1 PROVE k - 1 \in 1..Len(s) /\ t[k] = s[k - 1]
    <3>1. Len(s) \in Nat
      OBVIOUS
    <3>2. k - 1 \in 1..Len(s) /\ (k - 1) + 1 = k
      BY <2>2, <2>3, <3>1
    <3> QED
      BY <2>2, <3>2
  <2> QED
    BY <2>2, <2>3
<1>27. ASSUME NEW k \in 1..Len(s) PROVE s[k] # a /\ s[k] \in Nodes
  <2>0. s[k] \in Owned /\ Len(s) \in Nat /\ IsPath(s, b, next)
    BY <1>25 DEF Chain
  <2>1. CASE k = 1
    BY <1>9, <1>14, <2>0, <2>1 DEF IsPath, Nth
  <2>2. CASE k # 1
    <3>1. k - 1 \in 1..Len(s) /\ (k - 1) + 1 = k
      BY <2>0, <2>2
    <3>2. next[s[k - 1]] = s[k] /\ s[k - 1] \in Owned
      BY <2>0, <3>1 DEF IsPath, Nth
    <3> QED
      BY <1>0, <1>9, <1>14, <2>0, <3>2 DEF Forest
  <2> QED
    BY <2>1, <2>2
<1>28. IsPath(t, a, next')
  <2>0. Len(s) \in Nat /\ IsPath(s, b, next)
    BY <1>25 DEF Chain
  <2>1. a = Nth(t, 1)
    BY <1>26, <2>0 DEF Nth
  <2>2. ASSUME NEW k \in 1..Len(t) PROVE next'[t[k]] = Nth(t, k + 1)
    <3>0. Nth(t, k + 1) = Nth(s, k)
      <4>1. k + 1 \in 1..Len(t) <=> k \in 1..Len(s)
        BY <1>26, <2>0
      <4> QED
        BY <1>26, <4>1 DEF Nth
    <3>1. CASE k = 1
      BY <1>15, <1>26, <2>0, <3>0, <3>1 DEF IsPath
    <3>2. CASE k # 1
      <4>1. k - 1 \in 1..Len(s) /\ t[k] = s[k - 1] /\ (k - 1) + 1 = k
        BY <1>26, <2>0, <3>2
      <4>2. next[s[k - 1]] = Nth(s, (k - 1) + 1)
        BY <2>0, <4>1 DEF IsPath
      <4> QED
        BY <1>15, <1>27, <3>0, <4>1, <4>2
    <3> QED
      BY <3>1, <3>2
  <2> QED
    BY <2>1, <2>2 DEF IsPath
<1>29. \A k \in 1..Len(t) : ValueOf(t[k]) = Mapped(OldValue((D - 1) - 1 + k))
  <2>1. ASSUME NEW k \in 1..Len(t) PROVE ValueOf(t[k]) = Mapped(OldValue((D - 1) - 1 + k))
    <3>1. CASE k = 1
      <4>1. (D - 1) - 1 + k = D - 1 /\ t[k] = a /\ a # NULL
        BY <1>2, <1>6, <1>26, <3>1
      <4> QED
        BY <1>2, <1>6, <1>11, <4>1
    <3>2. CASE k # 1
      <4>1. k - 1 \in 1..Len(s) /\ t[k] = s[k - 1]
        BY <1>26, <3>2
      <4>2. ValueOf(s[k - 1]) = Mapped(OldValue(D - 1 + (k - 1)))
        BY <1>25, <4>1 DEF Chain
      <4>3. D - 1 + (k - 1) = (D - 1) - 1 + k
        BY <1>2, <4>1
      <4> QED
        BY <4>1, <4>2, <4>3
    <3> QED
      BY <3>1, <3>2
  <2> QED
    BY <2>1
<1>30. Chain(t, fresh[Len(fresh)], Len(stack) - 1, Len(start) - Len(stack) + 1)'
  <2>1. fresh'[Len(fresh')] = a
    BY <1>2, <1>7
  <2>2. Len(t) \in {N - (D - 1) + 1, (N - (D - 1) + 1) - 1}
    <3>1. Len(s) \in {N - D + 1, (N - D + 1) - 1} /\ Len(s) \in Nat
      BY <1>25 DEF Chain
    <3> QED
      BY <1>2, <1>26, <3>1
  <2>3. \A k \in 1..Len(t) : (ValueOf(t[k]) = Mapped(OldValue(Len(stack) - 1 + k)))'
    <3>1. \A k \in 1..Len(t) : ValueOf(t[k]) = Mapped(OldValue(Len(stack') - 1 + k))
      BY <1>5, <1>29
    <3> QED
      BY <1>1, <1>4, <3>1 DEF ValueOf
  <2> QED
    BY <1>1, <1>5, <1>28, <2>1, <2>2, <2>3 DEF Chain
<1>31. FreshInv'
  <2>1. pc' = "lstmap" /\ back' /\ Len(fresh') = Len(stack') /\ start' = start
    BY <1>0, <1>1, <1>5, <1>7
  <2>2. ASSUME NEW k \in 1..D - 1, k < D - 1 PROVE fresh'[k] # NULL /\ next'[fresh'[k]] = NULL
    <3>1. k \in 1..D /\ D - 1 \in 1..D /\ k # D - 1
      BY <1>2, <2>2
    <3>2. fresh[k] # NULL /\ fresh[k] # a /\ next[fresh[k]] = NULL
      BY <1>6, <1>8, <3>1
    <3>3. fresh[k] \in Nodes
      BY <1>9, <1>13, <3>1, <3>2
    <3> QED
      BY <1>7, <1>15, <3>2, <3>3
  <2>3. \A k \in 1..D - 1 : (fresh[k] # NULL => ValueOf(fresh[k]) = Mapped(OldValue(k)))'
    <3>1. \A k \in 1..D - 1 : ValueOf(fresh[k]) = Mapped(OldValue(k))
      BY <1>6, <1>11
    <3> QED
      BY <1>1, <1>4, <1>7, <3>1 DEF ValueOf
  <2>4. \E z \in Seq(Owned') : Chain(z, fresh[Len(fresh)], Len(stack) - 1, Len(start) - Len(stack) + 1)'
    BY <1>9, <1>30
  <2>5. \A k \in 1..Len(fresh') : k < Len(fresh') => fresh'[k] # NULL /\ next'[fresh'[k]] = NULL
    BY <1>7, <2>2
  <2>6. \A k \in 1..Len(fresh') : (fresh[k] # NULL => ValueOf(fresh[k]) = Mapped(OldValue(k)))'
    BY <1>7, <2>3
  <2> QED
    BY <2>1, <2>4, <2>5, <2>6 DEF FreshInv
<1>32. OldValues'
  BY <1>0, <1>1, <1>4 DEF OldValues, ValueOf
<1> QED
  BY <1>0, <1>1, <1>16, <1>18, <1>19, <1>20, <1>22, <1>23, <1>31, <1>32 DEF IInv, HeapInv, CallInv

\* The first frame's result is the result of the call.
LEMMA ResultStep ==
  ASSUME IInv, lstmap_return, Len(stack) = 1
  PROVE  IInv'
<1> DEFINE N == Len(start)
           b == fresh[1]
           old == [k \in 1..N |-> Old(k)]
<1>0. /\ Types /\ HeapInv /\ FramesInList /\ CalledSoFar /\ FreshInv /\ OldValues /\ pc = "lstmap" /\ back
      /\ RootsApart /\ ContentsApart /\ Forest(Owned, next, Roots)
  BY DEF IInv, CallInv, lstmap_return, HeapInv
<1>1. PICK m \in Lists :
         /\ head[m] = NULL /\ head' = [head EXCEPT ![m] = b]
         /\ pc' = "idle" /\ fresh' = <<>> /\ stack' = Front(stack)
         /\ UNCHANGED <<next, live, used, content, data, made, leaked, list, back, start, called>>
  BY DEF lstmap_return, history
<1>2. /\ N \in Nat /\ N > 0 /\ \A k \in 1..N : Old(k) \in Nodes
  BY <1>0, AtTop
<1>3. Remaining = N
  BY <1>0 DEF Remaining
<1>4. (\A k : Old(k)' = Old(k)) /\ (\A k : OldValue(k)' = OldValue(k))
  BY <1>1, SameStart
<1>5. stack' = <<>>
  BY <1>0, <1>1, LeaveStack
<1>6. fresh \in Seq(Nodes \cup {NULL}) /\ Len(fresh) = 1 /\ b \in Nodes \cup {NULL}
  <2>1. fresh \in Seq(Nodes \cup {NULL}) /\ Len(fresh) = 1
    BY <1>0 DEF FreshInv, Types
  <2> QED
    BY <2>1
<1>7. head'[m] = b /\ \A l \in Lists : l # m => head'[l] = head[l]
  BY <1>0, <1>1 DEF Types
<1>8. Types'
  <2>1. head' \in [Lists -> Nodes \cup {NULL}]
    BY <1>0, <1>1, <1>6 DEF Types
  <2>2. /\ stack' \in Seq(Nodes) /\ fresh' \in Seq(Nodes \cup {NULL}) /\ list' \in Lists
        /\ pc' \in {"idle", "lstdel", "lstiter", "lstmap", "segv"}
    BY <1>0, <1>1, <1>5 DEF Types
  <2> QED
    BY <1>0, <1>1, <2>1, <2>2 DEF Types
<1>9. /\ b # NULL => b # made /\ \A l \in Lists : b # head[l]
      /\ \A l, k \in Lists : head[l] = head[k] /\ head[l] # NULL => l = k
      /\ \A l \in Lists : made # NULL => head[l] # made
      /\ made # NULL => next[made] = NULL
  BY <1>0, <1>6 DEF RootsApart
<1>10. Roots' = Roots
  <2>1. Range(fresh) = {b} /\ Range(fresh') = {}
    BY <1>1, <1>6 DEF Range
  <2>2. Roots = ({head[l] : l \in Lists} \cup {made, b}) \ {NULL}
    BY <2>1 DEF Roots
  <2>3. Roots' = ({head'[l] : l \in Lists} \cup {made}) \ {NULL}
    BY <1>1, <2>1 DEF Roots
  <2>4. ASSUME NEW e \in Roots PROVE e \in Roots'
    <3>1. e # NULL /\ (e = made \/ e = b \/ \E l \in Lists : e = head[l])
      BY <2>2
    <3> QED
      BY <1>1, <1>7, <2>3, <3>1
  <2>5. ASSUME NEW e \in Roots' PROVE e \in Roots
    <3>1. e # NULL /\ (e = made \/ \E l \in Lists : e = head'[l])
      BY <2>3
    <3> QED
      BY <1>7, <2>2, <3>1
  <2> QED
    BY <2>4, <2>5
<1>11. Owned' = Owned
  BY <1>1 DEF Owned
<1>12. RootsApart'
  <2>1. ASSUME NEW l \in Lists, NEW k \in Lists, head'[l] = head'[k], head'[l] # NULL PROVE l = k
    BY <1>7, <1>9, <2>1
  <2>2. \A l \in Lists : made # NULL => head'[l] # made
    BY <1>7, <1>9
  <2>3. Len(fresh') = 0 /\ \A k \in 1..0 : FALSE
    BY <1>1
  <2> QED
    BY <1>1, <1>9, <2>1, <2>2, <2>3 DEF RootsApart
<1>13. HeapInv'
  BY <1>0, <1>1, <1>10, <1>11, <1>12 DEF HeapInv, ContentsApart
<1>14. called' = old /\ Len(start') = N
  BY <1>0, <1>1 DEF CalledSoFar
<1>15. m # list /\ list \in Lists /\ head'[list] = head[list]
  <2>1. head[list] = Old(1) /\ Old(1) # NULL /\ list \in Lists
    BY <1>0, <1>2, FAssumption DEF FramesInList, Types
  <2> QED
    BY <1>1, <1>7, <2>1
<1>16. IsPath(old, head'[list], next')
  BY <1>0, <1>1, <1>3, <1>15, OldIsPath
<1>17. \A k \in 1..N : (ValueOf(Old(k)) = OldValue(k))'
  BY <1>0, <1>1, <1>4 DEF OldValues, ValueOf
<1>18. PICK s \in Seq(Owned) : Chain(s, b, 1 - 1, N - 1 + 1)
  BY <1>0, <1>6 DEF FreshInv
<1>19. Chain(s, head[m], 0, Len(start))'
  <2>1. Chain(s, b, 0, N)
    <3>1. 1 - 1 = 0 /\ N - 1 + 1 = N
      BY <1>2
    <3> QED
      BY <1>18, <3>1
  <2>2. \A k \in 1..Len(s) : (ValueOf(s[k]) = Mapped(OldValue(0 + k)))'
    BY <1>1, <1>4, <2>1 DEF Chain, ValueOf
  <2> QED
    BY <1>1, <1>7, <2>1, <2>2 DEF Chain
<1>20. Returned'
  <2>1. \E q \in Lists \ {list'}, t \in Seq(Owned') : Chain(t, head[q], 0, Len(start))'
    BY <1>1, <1>11, <1>15, <1>19
  <2> HIDE DEF N
  <2>2. \A k \in 1..Len(start') : (ValueOf(Old(k)) = OldValue(k))'
    BY <1>14, <1>17
  <2>3. old = [k \in 1..Len(start') |-> Old(k)']
    BY <1>4, <1>14
  <2>4. list' \in Lists /\ Len(start') > 0 /\ IsPath(old, head'[list'], next')
    BY <1>1, <1>2, <1>14, <1>15, <1>16
  <2> HIDE DEF old
  <2> QED
    BY <1>14, <2>1, <2>2, <2>3, <2>4 DEF Returned
<1> QED
  BY <1>1, <1>5, <1>8, <1>13, <1>20 DEF IInv, CallInv

-----------------------------------------------------------------------------
(* The theorems *)

LEMMA InitIInv == Init => IInv
<1> SUFFICES ASSUME Init PROVE IInv
  OBVIOUS
<1> USE DEF Init
<1>1. Types
  <2>1. <<>> \in Seq(Nodes) /\ <<>> \in Seq(Nodes \cup {NULL}) /\ <<>> \in Seq(Nodes \X (Values \cup {NULL}))
    OBVIOUS
  <2> QED
    BY <2>1 DEF Types
<1>2. Owned = {} /\ Roots = {}
  BY DEF Owned, Roots, Range
<1>3. Forest(Owned, next, Roots)
  BY <1>2 DEF Forest
<1>4. RootsApart /\ ContentsApart
  BY DEF RootsApart, ContentsApart
<1>5. CallInv
  BY DEF CallInv, Returned
<1> QED
  BY <1>1, <1>3, <1>4, <1>5 DEF IInv, HeapInv

LEMMA NextIInv == IInv /\ [Next]_vars => IInv'
<1> SUFFICES ASSUME IInv, [Next]_vars PROVE IInv'
  OBVIOUS
<1>1. ASSUME UNCHANGED vars PROVE IInv'
  <2>1. UNCHANGED <<live, used, next, content, data, head, made, leaked, pc, list, stack, back, fresh, start, called>>
    BY <1>1 DEF vars, heap, caller, frames, history
  <2>2. Types' = Types /\ HeapInv' = HeapInv /\ FramesInList' = FramesInList
    BY <2>1 DEF Types, HeapInv, RootsApart, ContentsApart, FramesInList, Owned, Roots, Old, Remaining
  <2>3. CalledSoFar' = CalledSoFar /\ OldValues' = OldValues
    BY <2>1 DEF CalledSoFar, OldValues, Old, OldValue, ValueOf
  <2>4. FreshInv' = FreshInv
    BY <2>1 DEF FreshInv, Chain, OldValue, ValueOf, Owned
  <2>5. Returned' = Returned
    BY <2>1 DEF Returned, Chain, Old, OldValue, ValueOf, Owned
  <2>6. pc' = pc /\ stack' = stack /\ fresh' = fresh
    BY <2>1
  <2> QED
    BY <2>2, <2>3, <2>4, <2>5, <2>6 DEF IInv, CallInv
<1>2. ASSUME NEW v \in Values \cup {NULL}, ft_lstnew(v) PROVE IInv'
  BY <1>2, NewStep
<1>3. ASSUME NEW l \in Lists, ft_lstadd(l) PROVE IInv'
  BY <1>3, AddStep
<1>4. ASSUME NEW l \in Lists, ft_lstdelone(l) PROVE IInv'
  BY <1>4, DelOneStep
<1>5. ASSUME NEW l \in Lists, lstdel(l) \/ lstiter(l) \/ lstmap(l) PROVE IInv'
  <2>1. CASE head[l] # NULL
    <3>1. PICK f \in {"lstdel", "lstiter", "lstmap"} : Call(f, l)
      BY <1>5, <2>1 DEF lstdel, lstiter, lstmap
    <3> QED
      BY <2>1, <3>1, CallStep
  <2>2. CASE head[l] = NULL
    <3>1. Segv
      BY <1>5, <2>2 DEF lstdel, lstiter, lstmap
    <3>2. pc' = "segv"
      BY <3>1 DEF Segv
    <3>3. Types'
      BY <3>1 DEF Segv, IInv, Types, heap, caller, history
    <3> QED
      BY <3>2, <3>3 DEF IInv
  <2> QED
    BY <2>1, <2>2
<1>6. ASSUME pc \in {"lstdel", "lstiter"} /\ Deeper PROVE IInv'
  BY <1>6, DeeperStep
<1>7. ASSUME ft_lstdel PROVE IInv'
  BY <1>7, DelStep
<1>8. ASSUME ft_lstiter PROVE IInv'
  BY <1>8, IterStep
<1>9. ASSUME ft_lstmap PROVE IInv'
  BY <1>9, MapStep
<1>10. ASSUME lstmap_return PROVE IInv'
  BY <1>10, LinkStep, ResultStep
<1> QED
  BY <1>1, <1>2, <1>3, <1>4, <1>5, <1>6, <1>7, <1>8, <1>9, <1>10 DEF Next, Caller

\* Whatever is called, in whatever order, and whichever allocation fails: every
\* element that was not lost by lstnew or behind one lstdelone took is in one
\* list, once, and holds a content of its own, at every frame of ft_lstdel,
\* ft_lstiter and ft_lstmap; and those are the only ones that are lost.
THEOREM ListsOwnHeapCorrect == Spec => []ListsOwnHeap
<1>1. IInv => ListsOwnHeap
  BY HeapInvOwns DEF IInv
<1> QED
  BY <1>1, InitIInv, NextIInv, PTL DEF Spec

\* The list that starts at a pointer of the caller's is the path from there.
LEMMA ListOf ==
  ASSUME Types, HeapInv, NEW l \in Lists, NEW s \in Seq(Nodes), IsPath(s, head[l], next)
  PROVE  ListFrom(head[l]) = s
<1>1. CASE head[l] = NULL
  <2>1. \A k \in 1..Len(s) : s[k] # NULL
    BY FAssumption
  <2>2. 1 \notin 1..Len(s) /\ Len(s) \in Nat
    BY <1>1, <2>1 DEF IsPath, Nth
  <2>3. s = <<>>
    BY <2>2
  <2> QED
    BY <1>1, <2>3, NothingFromNull
<1>2. CASE head[l] # NULL
  <2>1. Forest(Owned, next, Roots) /\ Owned \subseteq Nodes /\ head[l] \in Roots
    BY <1>2, OwnedType DEF HeapInv, Roots
  <2>2. ListFrom(head[l]) \in Seq(Owned) /\ IsPath(ListFrom(head[l]), head[l], next)
    BY <2>1, ListIsPath
  <2>3. ListFrom(head[l]) \in Seq(Nodes)
    BY <2>1, <2>2
  <2> QED
    BY <2>2, <2>3, PathUnique
<1> QED
  BY <1>1, <1>2

LEMMA ReturnedInOrder ==
  ASSUME Types, HeapInv, Returned
  PROVE  CallbacksInOrder
<1> DEFINE N == Len(start)
           old == [k \in 1..N |-> start[k][1]]
           mapped == [k \in 1..N |-> Mapped(start[k][2])]
           Values_of(l) == [k \in 1..Len(ListFrom(head[l])) |-> ValueOf(ListFrom(head[l])[k])]
<1> SUFFICES ASSUME called # <<>>
             PROVE  \/ called = Reverse(old) /\ head[list] = NULL /\ Range(old) \cap live = {}
                    \/ called = Reverse(old) /\ ListFrom(head[list]) = old /\ Values_of(list) = mapped
                    \/ /\ called = old /\ Valued(ListFrom(head[list])) = start
                       /\ \E m \in Lists \ {list} : Values_of(m) \in {mapped, Front(mapped)}
  BY DEF CallbacksInOrder
<1>1. N \in Nat /\ N > 0 /\ list \in Lists
  BY DEF Returned, Types
<1>2. \A k \in 1..N : start[k] = <<start[k][1], start[k][2]>> /\ start[k][1] \in Nodes
  BY DEF Types
<1>3. old \in Seq(Nodes) /\ Len(old) = N /\ DOMAIN old = 1..N /\ \A k \in 1..N : old[k] = start[k][1]
  BY <1>1, <1>2
<1>4. mapped = [k \in 1..N |-> mapped[k]] /\ Len(mapped) = N /\ \A k \in 1..N : mapped[k] = Mapped(start[k][2])
  BY <1>1
<1>5. \/ called = Reverse(old) /\ head[list] = NULL /\ \A k \in 1..N : start[k][1] \notin live
      \/ /\ called = Reverse(old) /\ IsPath(old, head[list], next)
         /\ \A k \in 1..N : ValueOf(start[k][1]) = Mapped(start[k][2])
      \/ /\ called = old /\ IsPath(old, head[list], next)
         /\ \A k \in 1..N : ValueOf(start[k][1]) = start[k][2]
         /\ \E m \in Lists \ {list}, s \in Seq(Owned) : Chain(s, head[m], 0, N)
  BY DEF Returned, Old, OldValue
<1> HIDE DEF old, mapped, N
<1>6. CASE called = Reverse(old) /\ head[list] = NULL /\ \A k \in 1..N : start[k][1] \notin live
  <2>1. Range(old) \cap live = {}
    BY <1>3, <1>6 DEF Range
  <2> QED
    BY <1>6, <2>1
<1>7. CASE /\ called = Reverse(old) /\ IsPath(old, head[list], next)
           /\ \A k \in 1..N : ValueOf(start[k][1]) = Mapped(start[k][2])
  <2>1. ListFrom(head[list]) = old
    BY <1>1, <1>3, <1>7, ListOf
  <2>2. Values_of(list) = [k \in 1..N |-> ValueOf(old[k])]
    BY <1>3, <2>1
  <2>3. \A k \in 1..N : ValueOf(old[k]) = mapped[k]
    BY <1>3, <1>4, <1>7
  <2>4. Values_of(list) = mapped
    BY <1>4, <2>2, <2>3
  <2> QED
    BY <1>7, <2>1, <2>4
<1>8. CASE /\ called = old /\ IsPath(old, head[list], next)
           /\ \A k \in 1..N : ValueOf(start[k][1]) = start[k][2]
           /\ \E m \in Lists \ {list}, s \in Seq(Owned) : Chain(s, head[m], 0, N)
  <2>1. ListFrom(head[list]) = old
    BY <1>1, <1>3, <1>8, ListOf
  <2>2. Valued(ListFrom(head[list])) = start
    <3>1. Valued(ListFrom(head[list])) = [k \in 1..N |-> <<old[k], ValueOf(old[k])>>]
      BY <1>3, <2>1 DEF Valued
    <3>2. \A k \in 1..N : <<old[k], ValueOf(old[k])>> = start[k]
      BY <1>2, <1>3, <1>8
    <3>3. start = [k \in 1..N |-> start[k]]
      BY DEF Types, N
    <3> QED
      BY <3>1, <3>2, <3>3
  <2>3. PICK m \in Lists \ {list}, s \in Seq(Owned) : Chain(s, head[m], 0, N)
    BY <1>8
  <2>4. /\ s \in Seq(Nodes) /\ IsPath(s, head[m], next) /\ Len(s) \in {N, N - 1}
        /\ \A k \in 1..Len(s) : ValueOf(s[k]) = Mapped(start[0 + k][2])
    <3>1. s \in Seq(Nodes)
      BY OwnedType
    <3> QED
      BY <2>3, <3>1 DEF Chain, OldValue
  <2>5. ListFrom(head[m]) = s
    BY <2>4, ListOf
  <2>6. Values_of(m) = [k \in 1..Len(s) |-> ValueOf(s[k])]
    BY <2>5
  <2>7. \A k \in 1..Len(s) : k \in 1..N /\ 0 + k = k
    BY <1>1, <2>4
  <2>8. \A k \in 1..Len(s) : ValueOf(s[k]) = mapped[k]
    BY <1>4, <2>4, <2>7
  <2>9. Values_of(m) = [k \in 1..Len(s) |-> mapped[k]]
    BY <2>6, <2>8
  <2>10. Values_of(m) \in {mapped, Front(mapped)}
    <3>1. CASE Len(s) = N
      BY <1>4, <2>9, <3>1
    <3>2. CASE Len(s) = N - 1
      <4>1. Front(mapped) = [k \in 1..N - 1 |-> mapped[k]]
        <5>1. mapped \in Seq({mapped[k] : k \in 1..N})
          BY <1>1, <1>4
        <5> QED
          BY <1>1, <1>4, <5>1 DEF Front
      <4> QED
        BY <2>9, <3>2, <4>1
    <3> QED
      BY <2>4, <3>1, <3>2
  <2> QED
    BY <1>8, <2>2, <2>10
<1> QED
  BY <1>5, <1>6, <1>7, <1>8

\* del and f are called once for each element, from the last to the first by
\* ft_lstdel and ft_lstiter, from the first to the last by ft_lstmap; afterwards
\* ft_lstdel has freed them all, ft_lstiter has rewritten every content where it
\* was, and ft_lstmap has left the list alone and made one of what f returned.
THEOREM CallbacksInOrderCorrect == Spec => []CallbacksInOrder
<1>1. IInv => CallbacksInOrder
  <2>1. ASSUME IInv, pc = "idle" PROVE CallbacksInOrder
    BY <2>1, ReturnedInOrder DEF IInv, CallInv
  <2>2. ASSUME pc # "idle" PROVE CallbacksInOrder
    BY <2>2 DEF CallbacksInOrder
  <2> QED
    BY <2>1, <2>2
<1> QED
  BY <1>1, InitIInv, NextIInv, PTL DEF Spec

=============================================================================
