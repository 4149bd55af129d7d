------------------------- MODULE GetNextLineProofs -------------------------
(***************************************************************************)
(* Proofs about GetNextLine, for every set of descriptors, every buffer    *)
(* size and every text: it implements LineReader, and keeps nothing of a   *)
(* file that is closed.                                                    *)
(***************************************************************************)
EXTENDS GetNextLine, SequenceTheorems, TLAPS

Texts == Seq(Char)

-----------------------------------------------------------------------------
(* Lines of a text and of its beginnings *)

\* The first line of a text is the first line of every longer one.
LEMMA EolConcat ==
  ASSUME NEW s \in Texts, NEW t \in Texts, NEW i \in 1..Len(s), IsEol(s, i)
  PROVE  /\ i \in 1..Len(s \o t) /\ IsEol(s \o t, i)
         /\ SubSeq(s \o t, 1, i - 1) = SubSeq(s, 1, i - 1)
         /\ SubSeq(s \o t, i + 1, Len(s \o t)) = SubSeq(s, i + 1, Len(s)) \o t
<1> DEFINE u == s \o t
<1>0. /\ Len(s) \in Nat /\ Len(t) \in Nat
  BY DEF Texts
<1>1. /\ u \in Texts /\ Len(u) = Len(s) + Len(t)
      /\ \A j \in 1..Len(s) : u[j] = s[j]
  BY ConcatProperties DEF Texts
<1>2. SubSeq(u, 1, i - 1) = SubSeq(s, 1, i - 1)
  BY <1>0, SubSeqOfConcat1 DEF Texts
<1>3. SubSeq(u, i + 1, Len(s)) = SubSeq(s, i + 1, Len(s))
  <2>1. CASE i = Len(s)
    BY <1>0, <2>1, SubSeqEmpty
  <2>2. CASE i # Len(s)
    BY <1>0, <2>2, SubSeqOfConcat1 DEF Texts
  <2> QED
    BY <2>1, <2>2
<1>4. SubSeq(u, Len(s) + 1, Len(u)) = t
  <2>1. CASE t = <<>>
    <3>1. u = s /\ Len(u) = Len(s)
      BY <2>1, ConcatEmptySeq DEF Texts
    <3> QED
      BY <3>1, <2>1, <1>0, SubSeqEmpty
  <2>2. CASE t # <<>>
    <3>1. Len(t) # 0
      BY <2>2, EmptySeq DEF Texts
    <3>2. SubSeq(u, Len(s) + 1, Len(u)) = SubSeq(t, 1, Len(t))
      BY <1>0, <1>1, <3>1, SubSeqOfConcat2 DEF Texts
    <3> QED
      BY <3>2, SubSeqFull DEF Texts
  <2> QED
    BY <2>1, <2>2
<1>5. SubSeq(u, i + 1, Len(s)) \o SubSeq(u, Len(s) + 1, Len(u)) = SubSeq(u, i + 1, Len(u))
  <2>1. /\ u \in Seq(Char) /\ i + 1 \in 1..Len(u) + 1
        /\ Len(s) \in (i + 1) - 1..Len(u) /\ Len(u) \in Len(s)..Len(u)
    BY <1>0, <1>1 DEF Texts
  <2> HIDE DEF u
  <2> QED
    BY ONLY <2>1, ConcatAdjacentSubSeq
<1>6. IsEol(u, i) /\ i \in 1..Len(u)
  BY <1>0, <1>1 DEF IsEol
<1> QED
  BY <1>2, <1>3, <1>4, <1>5, <1>6

\* Reading n octets of t and appending them moves text from t to s.
LEMMA SplitText ==
  ASSUME NEW s \in Texts, NEW t \in Texts, NEW n \in 1..Len(t)
  PROVE  /\ SubSeq(t, 1, n) \in Texts /\ SubSeq(t, n + 1, Len(t)) \in Texts
         /\ (s \o SubSeq(t, 1, n)) \o SubSeq(t, n + 1, Len(t)) = s \o t
<1>0. Len(t) \in Nat
  BY DEF Texts
<1>1. SubSeq(t, 1, n) \in Texts /\ SubSeq(t, n + 1, Len(t)) \in Texts
  BY <1>0 DEF Texts
<1>2. SubSeq(t, 1, n) \o SubSeq(t, n + 1, Len(t)) = SubSeq(t, 1, Len(t))
  BY <1>0, ConcatAdjacentSubSeq DEF Texts
<1>3. SubSeq(t, 1, Len(t)) = t
  BY SubSeqFull DEF Texts
<1> DEFINE t1 == SubSeq(t, 1, n)
           t2 == SubSeq(t, n + 1, Len(t))
<1>4. (s \o t1) \o t2 = s \o (t1 \o t2)
  <2>1. s \in Seq(Char) /\ t1 \in Seq(Char) /\ t2 \in Seq(Char)
    BY <1>1 DEF Texts
  <2> HIDE DEF t1, t2
  <2> QED
    BY <2>1, ConcatAssociative
<1> QED
  BY <1>1, <1>2, <1>3, <1>4

-----------------------------------------------------------------------------
(* The invariant *)

\* A text is kept only for a file the caller is not done with, and holds no
\* line while the loop reads on.
KeptInv ==
  /\ pc = "read" => file[fd] # CLOSED /\ ~HasEol(Text(str[fd]))
  /\ \A f \in Fds :
       \/ Text(str[f]) = <<>>
       \/ file[f] # CLOSED /\ (result[f] = 1 \/ (pc = "read" /\ fd = f))

IInv == TypeOK /\ KeptInv

LEMMA TextType == ASSUME NEW s \in Texts \cup {NULL} PROVE Text(s) \in Texts
BY DEF Text, Texts

LEMMA NoEolInEmpty == ~HasEol(<<>>)
BY DEF HasEol

\* What trim_and_del leaves and hands out.
LEMMA TrimType ==
  ASSUME TypeOK, NEW n \in Fds, NEW s \in Texts, trim_and_del(n, s)
  PROVE  \E i \in 1..Len(s) :
           /\ IsEol(s, i)
           /\ line' = SubSeq(s, 1, i - 1) /\ line' \in Texts
           /\ str' = [str EXCEPT ![n] = SubSeq(s, i + 1, Len(s))]
           /\ SubSeq(s, i + 1, Len(s)) \in Texts
           /\ str' \in [Fds -> Seq(Char) \cup {NULL}]
<1>1. PICK i \in 1..Len(s) :
        /\ IsEol(s, i)
        /\ line' = SubSeq(s, 1, i - 1)
        /\ str' = [str EXCEPT ![n] = SubSeq(s, i + 1, Len(s))]
  BY DEF trim_and_del
<1>2. SubSeq(s, 1, i - 1) \in Texts /\ SubSeq(s, i + 1, Len(s)) \in Texts
  BY DEF Texts
<1>3. str \in [Fds -> Texts \cup {NULL}]
  BY DEF TypeOK, Texts
<1> DEFINE v == SubSeq(s, i + 1, Len(s))
<1>4. [str EXCEPT ![n] = v] \in [Fds -> Texts \cup {NULL}]
  <2> HIDE DEF v
  <2>1. v \in Texts
    BY <1>2 DEF v
  <2> QED
    BY <1>3, <2>1
<1> QED
  BY <1>1, <1>2, <1>4 DEF Texts

LEMMA InitI == Init => IInv
<1> SUFFICES ASSUME Init PROVE IInv
  OBVIOUS
<1>1. <<>> \in Seq(Char)
  OBVIOUS
<1>2. TypeOK
  BY <1>1 DEF Init, TypeOK
<1>3. KeptInv
  BY DEF Init, KeptInv, Text
<1> QED
  BY <1>2, <1>3 DEF IInv

\* The loop's body, for any octets it appends.
LEMMA AppendI ==
  ASSUME IInv, pc = "read", NEW chunk \in Texts, append(chunk), fd' = fd,
         \A f \in Fds : (file'[f] = CLOSED) <=> (file[f] = CLOSED),
         file' \in [Fds -> Seq(Char) \cup {CLOSED}]
  PROVE  IInv'
<1> DEFINE s == Text(str[fd]) \o chunk
<1>0. /\ fd \in Fds /\ str \in [Fds -> Texts \cup {NULL}] /\ file[fd] # CLOSED
      /\ result \in [Fds -> {-1, 0, 1, NONE}] /\ line \in Texts
  BY DEF IInv, TypeOK, KeptInv, Texts
<1>1. s \in Texts
  <2>1. Text(str[fd]) \in Texts
    BY <1>0, TextType
  <2> QED
    BY <2>1, ConcatProperties DEF Texts
<1>2. CASE HasEol(s) /\ trim_and_del(fd, s) /\ Return(fd, 1)
  <2> HIDE DEF s
  <2>1. PICK i \in 1..Len(s) :
           /\ line' \in Texts
           /\ str' = [str EXCEPT ![fd] = SubSeq(s, i + 1, Len(s))]
           /\ str' \in [Fds -> Seq(Char) \cup {NULL}]
    BY <1>0, <1>1, <1>2, TrimType DEF IInv
  <2>2. /\ pc' = "idle" /\ buf' = NULL /\ result' = [result EXCEPT ![fd] = 1]
    BY <1>2 DEF Return
  <2>3. TypeOK'
    BY <1>0, <2>1, <2>2 DEF TypeOK, Texts
  <2>4. \A f \in Fds : f # fd => str'[f] = str[f] /\ result'[f] = result[f]
    BY <1>0, <2>1, <2>2
  <2>5. result'[fd] = 1
    BY <1>0, <2>2
  <2>6. KeptInv'
    BY <1>0, <2>2, <2>4, <2>5 DEF IInv, KeptInv
  <2> QED
    BY <2>3, <2>6 DEF IInv
<1>3. CASE ~HasEol(s) /\ str' = [str EXCEPT ![fd] = s] /\ buf' = chunk /\ UNCHANGED <<line, pc, result>>
  <2> HIDE DEF s
  <2>1. TypeOK'
    BY <1>0, <1>1, <1>3 DEF IInv, TypeOK, Texts
  <2>2. str'[fd] = s /\ \A f \in Fds : f # fd => str'[f] = str[f]
    BY <1>0, <1>3
  <2>3. Text(s) = s
    BY <1>1, DistinctAssumption DEF Text, Texts
  <2>4. KeptInv'
    BY <1>0, <1>3, <2>2, <2>3 DEF IInv, KeptInv
  <2> QED
    BY <2>1, <2>4 DEF IInv
<1> QED
  BY <1>2, <1>3 DEF append, get_the_node

LEMMA StepI == IInv /\ [Next]_vars => IInv'
<1> SUFFICES ASSUME IInv, [Next]_vars PROVE IInv'
  OBVIOUS
<1> USE DEF IInv
<1>0. /\ fd \in Fds /\ str \in [Fds -> Texts \cup {NULL}] /\ line \in Texts
      /\ file \in [Fds -> Texts \cup {CLOSED}]
      /\ result \in [Fds -> {-1, 0, 1, NONE}]
  BY DEF TypeOK, Texts
<1>1. ASSUME NEW f \in Fds, refuse(f) PROVE IInv'
  <2>1. TypeOK'
    BY <1>0, <1>1 DEF refuse, Return, TypeOK, Texts
  <2>2. \A g \in Fds : g # f => result'[g] = result[g]
    BY <1>0, <1>1 DEF refuse, Return
  <2>3. KeptInv'
    BY <1>0, <1>1, <2>2 DEF refuse, Return, KeptInv
  <2> QED
    BY <2>1, <2>3
<1>2. ASSUME NEW f \in Fds, from_kept(f) PROVE IInv'
  <2>1. HasEol(Text(str[f])) /\ trim_and_del(f, str[f])
    BY <1>2 DEF from_kept, get_the_node
  <2>2. str[f] \in Texts
    BY <1>0, <2>1, NoEolInEmpty DEF Text
  <2>3. PICK i \in 1..Len(str[f]) :
           /\ line' \in Texts
           /\ str' = [str EXCEPT ![f] = SubSeq(str[f], i + 1, Len(str[f]))]
           /\ str' \in [Fds -> Seq(Char) \cup {NULL}]
    BY <2>1, <2>2, TrimType
  <2>4. pc' = "idle" /\ buf' = NULL /\ result' = [result EXCEPT ![f] = 1] /\ fd' = f /\ file' = file
    BY <1>2 DEF from_kept, Return
  <2>5. TypeOK'
    BY <1>0, <2>3, <2>4 DEF TypeOK, Texts
  <2>6. \A g \in Fds : g # f => str'[g] = str[g] /\ result'[g] = result[g]
    BY <1>0, <2>3, <2>4
  <2>7. result'[f] = 1 /\ file[f] # CLOSED /\ pc = "idle"
    BY <1>0, <1>2, <2>4 DEF from_kept
  <2>8. KeptInv'
    BY <1>0, <2>4, <2>6, <2>7 DEF KeptInv
  <2> QED
    BY <2>5, <2>8
<1>3. ASSUME NEW f \in Fds, enter_loop(f) PROVE IInv'
  <2>1. TypeOK'
    BY <1>3 DEF enter_loop, TypeOK
  <2>2. KeptInv'
    BY <1>3 DEF enter_loop, get_the_node, KeptInv
  <2> QED
    BY <2>1, <2>2
<1>4. CASE read_some
  <2>0. pc = "read" /\ fd' = fd /\ file[fd] \in Texts
    BY <1>0, <1>4 DEF read_some, KeptInv
  <2>1. PICK n \in 1..Len(file[fd]) :
          /\ append(SubSeq(file[fd], 1, n))
          /\ file' = [file EXCEPT ![fd] = SubSeq(@, n + 1, Len(@))]
    BY <1>4 DEF read_some
  <2> DEFINE t1 == SubSeq(file[fd], 1, n)
             t2 == SubSeq(file[fd], n + 1, Len(file[fd]))
  <2>2. t1 \in Texts /\ t2 \in Texts
    BY <2>0, SplitText
  <2>3. file' = [file EXCEPT ![fd] = t2] /\ append(t1)
    BY <2>1
  <2> HIDE DEF t1, t2
  <2>4. t2 # CLOSED /\ file[fd] # CLOSED
    BY <2>0, <2>2, DistinctAssumption DEF Texts
  <2>5. /\ \A f \in Fds : (file'[f] = CLOSED) <=> (file[f] = CLOSED)
        /\ file' \in [Fds -> Seq(Char) \cup {CLOSED}]
    BY <1>0, <2>2, <2>3, <2>4 DEF Texts
  <2> QED
    BY <2>0, <2>2, <2>3, <2>5, AppendI
<1>5. CASE read_end
  <2>0. pc = "read" /\ fd' = fd /\ file' = file /\ file[fd] = <<>>
    BY <1>5 DEF read_end
  <2>1. CASE str[fd] = NULL /\ pc' = "segv" /\ UNCHANGED <<str, line, result, buf>>
    <3>1. TypeOK'
      BY <2>0, <2>1 DEF TypeOK
    <3>2. Text(str[fd]) = <<>>
      BY <2>1 DEF Text
    <3> QED
      BY <2>0, <2>1, <3>1, <3>2 DEF KeptInv
  <2>2. CASE str[fd] = <<>> /\ Return(fd, 0) /\ UNCHANGED <<str, line>>
    <3>1. TypeOK'
      BY <1>0, <2>0, <2>2 DEF TypeOK, Return
    <3>2. Text(str[fd]) = <<>>
      BY <2>2 DEF Text
    <3>3. \A g \in Fds : g # fd => result'[g] = result[g]
      BY <1>0, <2>2 DEF Return
    <3> QED
      BY <2>0, <2>2, <3>1, <3>2, <3>3 DEF KeptInv, Return
  <2>3. CASE /\ str[fd] \notin {NULL, <<>>} /\ line' = str[fd]
             /\ str' = [str EXCEPT ![fd] = <<>>] /\ Return(fd, 1)
    <3>1. <<>> \in Seq(Char)
      OBVIOUS
    <3>2. TypeOK'
      BY <1>0, <2>0, <2>3, <3>1 DEF TypeOK, Return, Texts
    <3>3. \A g \in Fds : g # fd => result'[g] = result[g] /\ str'[g] = str[g]
      BY <1>0, <2>3 DEF Return
    <3>4. str'[fd] = <<>> /\ Text(<<>>) = <<>>
      BY <1>0, <2>3 DEF Text
    <3> QED
      BY <2>0, <2>3, <3>2, <3>3, <3>4 DEF KeptInv, Return
  <2> QED
    BY <1>5, <2>1, <2>2, <2>3 DEF read_end, checks_eof, get_the_node
<1>6. ASSUME NEW f \in Fds, NEW text \in Files, open(f, text) PROVE IInv'
  <2>0. text \in Texts /\ pc = "idle" /\ pc' = "idle" /\ UNCHANGED <<str, line, fd, buf>> /\ file[f] = CLOSED
    BY <1>6, FilesAssumption DEF open, Texts
  <2>1. TypeOK'
    BY <1>0, <1>6, <2>0 DEF open, TypeOK, Texts
  <2>2. \A g \in Fds : g # f => result'[g] = result[g] /\ file'[g] = file[g]
    BY <1>0, <1>6 DEF open
  <2>3. Text(str[f]) = <<>>
    BY <2>0 DEF KeptInv
  <2> QED
    BY <2>0, <2>1, <2>2, <2>3 DEF KeptInv
<1>7. ASSUME NEW f \in Fds, close(f) PROVE IInv'
  <2>0. /\ pc = "idle" /\ pc' = "idle" /\ result[f] # 1
        /\ UNCHANGED <<str, result, line, fd, buf>>
    BY <1>7 DEF close
  <2>1. TypeOK'
    BY <1>0, <1>7, <2>0 DEF close, TypeOK, Texts
  <2>2. \A g \in Fds : g # f => file'[g] = file[g]
    BY <1>0, <1>7 DEF close
  <2>3. Text(str[f]) = <<>>
    BY <2>0 DEF KeptInv
  <2> QED
    BY <2>0, <2>1, <2>2, <2>3 DEF KeptInv
<1>8. CASE UNCHANGED vars
  BY <1>8 DEF vars, TypeOK, KeptInv
<1> QED
  BY <1>1, <1>2, <1>3, <1>4, <1>5, <1>6, <1>7, <1>8 DEF Next, Call, Caller, crashed

LEMMA Invariant == Spec => []IInv
BY InitI, StepI, PTL DEF Spec

-----------------------------------------------------------------------------
(* Theorems *)

\* Every reachable state is well typed, whatever the texts and buffer size.
THEOREM GetNextLineTypeCorrect == Spec => []TypeOK
<1>1. IInv => TypeOK
  BY DEF IInv
<1> QED
  BY <1>1, Invariant, PTL

\* get_next_line keeps no text of a file that was closed at its end.
THEOREM NothingKeptCorrect == Spec => []NothingKept
<1>1. IInv => NothingKept
  BY DEF IInv, KeptInv, NothingKept
<1> QED
  BY <1>1, Invariant, PTL

-----------------------------------------------------------------------------
(* Refinement *)

LEMMA RestType == TypeOK => restRead \in [Fds -> Texts \cup {CLOSED}]
<1> SUFFICES ASSUME TypeOK, NEW f \in Fds, file[f] # CLOSED
             PROVE  Text(str[f]) \o file[f] \in Texts
  BY DEF restRead
<1>1. Text(str[f]) \in Texts /\ file[f] \in Texts
  BY TextType DEF TypeOK, Texts
<1> QED
  BY <1>1, ConcatProperties DEF Texts

\* A step that touches one descriptor changes only its unread text.
LEMMA OneRest ==
  ASSUME TypeOK, NEW f \in Fds, NEW rest,
         \A g \in Fds : g # f => file'[g] = file[g] /\ str'[g] = str[g],
         rest = IF file'[f] = CLOSED THEN CLOSED ELSE Text(str'[f]) \o file'[f]
  PROVE  restRead' = [restRead EXCEPT ![f] = rest]
BY DEF restRead

\* trim_and_del hands out the first line of all that is unread.
LEMMA TrimHandsOut ==
  ASSUME TypeOK, NEW f \in Fds, NEW s \in Texts, NEW t \in Texts,
         trim_and_del(f, s), restRead[f] = s \o t, Return(f, 1),
         file'[f] = t, \A g \in Fds : g # f => file'[g] = file[g]
  PROVE  LR!HandOut(f)
<1>1. PICK i \in 1..Len(s) :
         /\ IsEol(s, i) /\ line' = SubSeq(s, 1, i - 1)
         /\ str' = [str EXCEPT ![f] = SubSeq(s, i + 1, Len(s))]
         /\ SubSeq(s, i + 1, Len(s)) \in Texts
  BY TrimType
<1> DEFINE u == s \o t
           v == SubSeq(s, i + 1, Len(s))
<1>2. /\ i \in 1..Len(u) /\ IsEol(u, i) /\ SubSeq(u, 1, i - 1) = SubSeq(s, 1, i - 1)
      /\ SubSeq(u, i + 1, Len(u)) = v \o t
  BY <1>1, EolConcat
<1>3. u \in Texts
  BY ConcatProperties DEF Texts
<1>4. restRead' = [restRead EXCEPT ![f] = v \o t]
  <2>1. str'[f] = v /\ \A g \in Fds : g # f => file'[g] = file[g] /\ str'[g] = str[g]
    BY <1>1 DEF TypeOK
  <2>2. Text(v) = v /\ t # CLOSED
    BY <1>1, DistinctAssumption DEF Text, Texts
  <2> DEFINE w == v \o t
  <2>3. w = IF file'[f] = CLOSED THEN CLOSED ELSE Text(str'[f]) \o file'[f]
    BY <2>1, <2>2
  <2> HIDE DEF v, w
  <2>4. restRead' = [restRead EXCEPT ![f] = w]
    BY <2>1, <2>3, OneRest
  <2> QED
    BY <2>4 DEF w
<1>5. restRead[f] = u /\ u # CLOSED
  BY <1>3, DistinctAssumption DEF Texts
<1>6. restRead' = [restRead EXCEPT ![f] = SubSeq(restRead[f], i + 1, Len(restRead[f]))]
  BY <1>2, <1>4, <1>5
<1>7. i \in 1..Len(restRead[f]) /\ LR!IsEol(restRead[f], i) /\ line' = SubSeq(restRead[f], 1, i - 1)
  BY <1>1, <1>2, <1>5 DEF IsEol, LR!IsEol
<1>8. LR!Return(f, 1)
  BY DEF Return, LR!Return
<1> HIDE DEF u, v
<1> QED
  BY <1>5, <1>6, <1>7, <1>8 DEF LR!HandOut

LEMMA InitLR == Init => LR!Init
BY DEF Init, LR!Init, restRead

LEMMA StepLR == IInv /\ [Next]_vars => [LR!Next]_(LR!vars)
<1> SUFFICES ASSUME IInv, [Next]_vars PROVE [LR!Next]_(LR!vars)
  OBVIOUS
<1> USE DEF IInv
<1>0. /\ fd \in Fds /\ str \in [Fds -> Texts \cup {NULL}]
      /\ file \in [Fds -> Texts \cup {CLOSED}]
      /\ restRead \in [Fds -> Texts \cup {CLOSED}]
  BY RestType DEF TypeOK, Texts
<1>00. CLOSED \notin Texts /\ NULL \notin Texts
  BY DistinctAssumption DEF Texts
<1>1. ASSUME NEW f \in Fds, refuse(f) PROVE LR!Refuse(f)
  BY <1>1 DEF refuse, LR!Refuse, Return, LR!Return, restRead
<1>2. ASSUME NEW f \in Fds, from_kept(f) PROVE LR!HandOut(f)
  <2>1. HasEol(Text(str[f])) /\ trim_and_del(f, str[f]) /\ Return(f, 1)
        /\ file' = file /\ file[f] # CLOSED
    BY <1>2 DEF from_kept, get_the_node
  <2>2. str[f] \in Texts /\ file[f] \in Texts
    BY <1>0, <2>1, NoEolInEmpty DEF Text
  <2>3. restRead[f] = str[f] \o file[f]
    BY <1>00, <2>1, <2>2 DEF restRead, Text
  <2> QED
    BY <2>1, <2>2, <2>3, TrimHandsOut
<1>3. ASSUME NEW f \in Fds, enter_loop(f) PROVE UNCHANGED LR!vars
  BY <1>3 DEF enter_loop, LR!vars, restRead
<1>4. CASE read_some
  <2>0. file[fd] # CLOSED
    BY <1>4 DEF read_some, KeptInv
  <2>1. PICK n \in 1..Len(file[fd]) :
          /\ append(SubSeq(file[fd], 1, n))
          /\ file' = [file EXCEPT ![fd] = SubSeq(@, n + 1, Len(@))]
    BY <1>4 DEF read_some
  <2> DEFINE t1 == SubSeq(file[fd], 1, n)
             t2 == SubSeq(file[fd], n + 1, Len(file[fd]))
             s == Text(str[fd]) \o t1
  <2>2. Text(str[fd]) \in Texts /\ file[fd] \in Texts
    BY <1>0, <2>0, TextType
  <2>3. t1 \in Texts /\ t2 \in Texts /\ s \o t2 = Text(str[fd]) \o file[fd]
    BY <2>2, SplitText
  <2>4. s \in Texts
    <3> HIDE DEF t1
    <3> QED
      BY <2>2, <2>3, ConcatProperties DEF Texts
  <2>5. file' = [file EXCEPT ![fd] = t2] /\ append(t1)
    BY <2>1
  <2>6. restRead[fd] = s \o t2
    BY <1>0, <2>0, <2>3 DEF restRead
  <2>7. \/ HasEol(s) /\ trim_and_del(fd, s) /\ Return(fd, 1)
        \/ str' = [str EXCEPT ![fd] = s] /\ UNCHANGED <<line, result>>
    BY <2>5 DEF append, get_the_node
  <2> HIDE DEF s, t1, t2
  <2>8. file'[fd] = t2 /\ \A g \in Fds : g # fd => file'[g] = file[g]
    BY <1>0, <2>5
  <2>9. CASE trim_and_del(fd, s) /\ Return(fd, 1)
    <3>1. LR!HandOut(fd)
      BY <1>0, <2>3, <2>4, <2>6, <2>8, <2>9, TrimHandsOut
    <3> QED
      BY <1>0, <3>1 DEF LR!Next
  <2>10. CASE str' = [str EXCEPT ![fd] = s] /\ UNCHANGED <<line, result>>
    <3>1. str'[fd] = s /\ \A g \in Fds : g # fd => str'[g] = str[g]
      BY <1>0, <2>10
    <3>2. Text(s) = s /\ t2 # CLOSED
      BY <1>00, <2>3, <2>4 DEF Text
    <3>3. restRead' = [restRead EXCEPT ![fd] = s \o t2]
      BY <1>0, <2>8, <3>1, <3>2, OneRest
    <3>4. restRead' = restRead
      BY <1>0, <2>6, <3>3
    <3> QED
      BY <2>10, <3>4 DEF LR!vars
  <2> QED
    BY <2>7, <2>9, <2>10
<1>5. CASE read_end
  <2>0. pc = "read" /\ file' = file /\ file[fd] = <<>> /\ file[fd] # CLOSED
    BY <1>5 DEF read_end, KeptInv
  <2>1. CASE UNCHANGED <<str, line, result>>
    BY <2>0, <2>1 DEF LR!vars, restRead
  <2>2. CASE str[fd] = <<>> /\ Return(fd, 0) /\ UNCHANGED <<str, line>>
    <3>1. restRead[fd] = <<>>
      <4>1. Text(<<>>) = <<>> /\ <<>> \o <<>> = <<>>
        BY ConcatEmptySeq DEF Text
      <4> QED
        BY <1>0, <2>0, <2>2, <4>1 DEF restRead
    <3>2. restRead' = restRead
      BY <2>0, <2>2 DEF restRead
    <3>3. LR!AtEnd(fd)
      BY <2>2, <3>1, <3>2 DEF LR!AtEnd, LR!Return, Return
    <3> QED
      BY <1>0, <3>3 DEF LR!Next
  <2>3. CASE /\ str[fd] \notin {NULL, <<>>} /\ line' = str[fd]
             /\ str' = [str EXCEPT ![fd] = <<>>] /\ Return(fd, 1)
    <3>1. str[fd] \in Texts /\ Text(str[fd]) = str[fd] /\ Text(<<>>) = <<>>
      BY <1>0, <2>3 DEF Text
    <3>2. restRead[fd] = str[fd]
      <4>1. str[fd] \o <<>> = str[fd]
        BY <3>1, ConcatEmptySeq DEF Texts
      <4> QED
        BY <1>0, <2>0, <3>1, <4>1 DEF restRead
    <3>3. ~HasEol(restRead[fd]) /\ restRead[fd] # CLOSED
      BY <1>00, <2>0, <3>1, <3>2 DEF KeptInv
    <3>4. restRead' = [restRead EXCEPT ![fd] = <<>>]
      <4>1. /\ str'[fd] = <<>> /\ file'[fd] = <<>>
            /\ \A g \in Fds : g # fd => file'[g] = file[g] /\ str'[g] = str[g]
        BY <1>0, <2>0, <2>3
      <4>2. <<>> \o <<>> = <<>> /\ <<>> # CLOSED
        BY <2>0, ConcatEmptySeq
      <4>3. <<>> = IF file'[fd] = CLOSED THEN CLOSED ELSE Text(str'[fd]) \o file'[fd]
        BY <3>1, <4>1, <4>2
      <4> QED
        BY <1>0, <4>1, <4>3, OneRest
    <3>5. LR!HandOutLast(fd)
      BY <2>3, <3>2, <3>3, <3>4 DEF LR!HandOutLast, LR!HasEol, HasEol, LR!Return, Return
    <3> QED
      BY <1>0, <3>5 DEF LR!Next
  <2> QED
    BY <1>5, <2>1, <2>2, <2>3 DEF read_end, checks_eof, get_the_node
<1>6. ASSUME NEW f \in Fds, NEW text \in Files, open(f, text) PROVE LR!Open(f, text)
  <2>0. text \in Texts /\ pc = "idle" /\ UNCHANGED <<str, line>> /\ file[f] = CLOSED
    BY <1>6, FilesAssumption DEF open, Texts
  <2>1. Text(str'[f]) = <<>>
    BY <2>0 DEF KeptInv
  <2>2. file'[f] = text /\ \A g \in Fds : g # f => file'[g] = file[g] /\ str'[g] = str[g]
    BY <1>0, <1>6 DEF open
  <2>3. <<>> \o text = text /\ text # CLOSED
    BY <1>00, <2>0, ConcatEmptySeq DEF Texts
  <2>4. restRead' = [restRead EXCEPT ![f] = text]
    BY <2>1, <2>2, <2>3, OneRest
  <2>5. restRead[f] = CLOSED
    BY <2>0 DEF restRead
  <2> QED
    BY <1>6, <2>0, <2>4, <2>5 DEF open, LR!Open, LR!Return
<1>7. ASSUME NEW f \in Fds, close(f) PROVE LR!Close(f)
  <2>1. file'[f] = CLOSED /\ \A g \in Fds : g # f => file'[g] = file[g] /\ str'[g] = str[g]
    BY <1>0, <1>7 DEF close
  <2>2. restRead' = [restRead EXCEPT ![f] = CLOSED]
    BY <2>1, OneRest
  <2>3. restRead[f] # CLOSED
    <3>1. file[f] \in Texts /\ Text(str[f]) \in Texts
      BY <1>0, <1>7, TextType DEF close
    <3>2. Text(str[f]) \o file[f] \in Texts
      BY <3>1, ConcatProperties DEF Texts
    <3> QED
      BY <1>00, <1>7, <3>2 DEF close, restRead
  <2> QED
    BY <1>7, <2>2, <2>3 DEF close, LR!Close
<1>8. CASE UNCHANGED vars
  BY <1>8 DEF vars, LR!vars, restRead
<1> QED
  BY <1>0, <1>1, <1>2, <1>3, <1>4, <1>5, <1>6, <1>7, <1>8
  DEF Next, Call, Caller, crashed, LR!Next

\* get_next_line implements LineReader: whatever the sizes of the reads and
\* however calls on several descriptors alternate, it hands out the lines.
THEOREM GetNextLineRefines == Spec => ImplementsLineReader
BY InitLR, StepLR, Invariant, PTL DEF Spec, ImplementsLineReader, LR!Spec
=============================================================================
