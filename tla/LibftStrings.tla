---------------------------- MODULE LibftStrings ----------------------------
(***************************************************************************)
(* String functions of libft: splitting, trimming, searching.  A string is *)
(* the sequence of its octets before the NUL; a pointer into it is an      *)
(* offset.  A step is one call.                                            *)
(***************************************************************************)
EXTENDS Integers, FiniteSetsExt, SequencesExt

CONSTANTS
  Letters, BLANK,  \* octets that are not blank, and one that is
  NUL,
  Calls,           \* the functions and arguments tried
  NULL, NONE

Octets == Letters \cup {BLANK}

ASSUME OctetsAssumption == BLANK \notin Letters /\ NUL \notin Octets

\* The texts given to the functions are octets and end at the first NUL.
LegalCall(c) ==
  \/ c \in [f : {"strsplit"}, s : Seq(Octets), c : Octets \cup {NUL}]
  \/ c \in [f : {"strtrim"}, s : Seq(Octets)]
  \/ c \in [f : {"strstr"}, s : Seq(Octets), nd : Seq(Octets)]
  \/ c \in [f : {"strnstr"}, s : Seq(Octets), nd : Seq(Octets), n : Nat]
ASSUME CallsAssumption == \A c \in Calls : LegalCall(c)

VARIABLES
  call,  \* [f |-> function, ...arguments]
  out    \* what it returned, NONE before

vars == <<call, out>>

Init == call \in Calls /\ out = NONE

\* s[i], the terminating NUL included.
At(s, i) == IF i < Len(s) THEN s[i + 1] ELSE NUL

\* The first offset from k on, the NUL's included, with an octet in octets.
Next_in(s, k, octets) == Min({j \in k..Len(s) : At(s, j) \in octets})

\* The copy ft_strncpy makes: at most len octets, none after the NUL.
ft_strsub(s, start, len) ==
  SubSeq(s, start + 1, Min({start + len, Len(s)}))

-----------------------------------------------------------------------------
(* ft_strsplit *)

ft_lenword(s, k, c) == Next_in(s, k, {c, NUL}) - k

\* The count without the test of what follows a separator.
ft_countword_separators(s, c) ==
  Cardinality({i \in 0..Len(s)-1 :
    (i = 0 /\ At(s, i) # c) \/ (At(s, i) = c /\ At(s, i + 1) # c)})

ft_countword(s, c) ==
  Cardinality({i \in 0..Len(s)-1 :
    (i = 0 /\ At(s, i) # c) \/ (At(s, i) = c /\ At(s, i + 1) \notin {c, NUL})})

\* The loop's body: skip separators, copy a word.
SplitWord(s, c, acc) ==
  LET k == Next_in(s, acc.k, (Octets \cup {NUL}) \ {c})
      n == ft_lenword(s, k, c)
  IN [k |-> k + n, words |-> Append(acc.words, ft_strsub(s, k, n))]

ft_strsplit(s, c) ==
  LET after[i \in 0..ft_countword(s, c)] ==
        IF i = 0 THEN [k |-> 0, words |-> <<>>] ELSE SplitWord(s, c, after[i - 1])
  IN after[ft_countword(s, c)].words

-----------------------------------------------------------------------------
(* ft_strtrim *)

\* The length left when the blanks from the first run that reaches the end
\* are dropped, counted without the blank the loop stops at.
ft_check_trim_back_short(s, len) ==
  LET runs == {i \in 0..Len(s)-1 : \A j \in i..Len(s)-1 : At(s, j) = BLANK}
  IN IF runs = {} THEN len ELSE len - (Len(s) - 1 - Min(runs))

ft_check_trim_back(s, len) ==
  LET runs == {i \in 0..Len(s)-1 : \A j \in i..Len(s)-1 : At(s, j) = BLANK}
  IN IF runs = {} THEN len ELSE len - (Len(s) - Min(runs))

ft_check_trim_front(s) ==
  LET i == Next_in(s, 0, Letters \cup {NUL})
  IN IF i = Len(s) THEN 0 ELSE ft_check_trim_back(s, Len(s) - i)

\* The last loop skips blanks and NULs: of a text without anything else it
\* leaves the text, and what it finds there is not the text's.
ft_strtrim(s) ==
  IF \A i \in 0..Len(s) : At(s, i) \in {BLANK, NUL}
  THEN [outside |-> TRUE, text |-> <<>>]
  ELSE [outside |-> FALSE,
        text |-> ft_strsub(s, Next_in(s, 0, Letters), ft_check_trim_front(s))]

-----------------------------------------------------------------------------
(* ft_strstr, ft_strnstr *)

\* Whether nd is at offset i of hs: the loop from the octet j of nd on.
it_works(hs, nd, i) ==
  LET works[j \in 0..Len(nd)-1] ==
        At(hs, i + j) = At(nd, j) /\ (At(nd, j + 1) = NUL \/ works[j + 1])
  IN works[0]

ft_strstr(hs, nd) ==
  LET from[i \in 0..Len(hs)] ==
        IF At(hs, i) = NUL THEN NULL ELSE IF it_works(hs, nd, i) THEN i ELSE from[i + 1]
  IN IF At(nd, 0) = NUL THEN 0 ELSE from[0]

\* Mutated: the bound is tested one octet late.
does_it_work_beyond(hs, nd, len, i) ==
  LET works[j \in 0..Len(nd)-1] ==
        /\ At(hs, i + j) = At(nd, j) /\ i + j <= len
        /\ At(nd, j + 1) = NUL \/ works[j + 1]
  IN works[0]

does_it_work(hs, nd, len, i) ==
  LET works[j \in 0..Len(nd)-1] ==
        /\ At(hs, i + j) = At(nd, j) /\ i + j < len
        /\ At(nd, j + 1) = NUL \/ works[j + 1]
  IN works[0]

ft_strnstr(hs, nd, len) ==
  LET from[i \in 0..Len(hs)] ==
        IF At(hs, i) = NUL \/ i > len THEN NULL
        ELSE IF does_it_work(hs, nd, len, i) THEN i ELSE from[i + 1]
  IN IF At(nd, 0) = NUL THEN 0 ELSE from[0]

-----------------------------------------------------------------------------
Returns(f, value) == call.f = f /\ out = NONE /\ out' = value /\ UNCHANGED call

strsplit == Returns("strsplit", ft_strsplit(call.s, call.c))
strtrim == Returns("strtrim", ft_strtrim(call.s))
strstr == Returns("strstr", ft_strstr(call.s, call.nd))
strnstr == Returns("strnstr", ft_strnstr(call.s, call.nd, call.n))
returned == out # NONE /\ UNCHANGED vars

Next == strsplit \/ strtrim \/ strstr \/ strnstr \/ returned
Spec == Init /\ [][Next]_vars

-----------------------------------------------------------------------------
(* Properties: each function against what it is named for. *)

Returned(f) == call.f = f /\ out # NONE

\* strsplit gives the longest runs without the separator, all of them, in order.
SplitsIntoWords ==
  Returned("strsplit") =>
    LET s == call.s
        words == {w \in (1..Len(s)) \X (1..Len(s)) :
                    /\ w[1] <= w[2] /\ \A k \in w[1]..w[2] : s[k] # call.c
                    /\ w[1] = 1 \/ s[w[1] - 1] = call.c
                    /\ w[2] = Len(s) \/ s[w[2] + 1] = call.c}
    IN \E at \in [1..Len(out) -> words] :
         /\ \A n \in 1..Len(out) : out[n] = SubSeq(s, at[n][1], at[n][2])
         /\ \A m, n \in 1..Len(out) : m < n => at[m][1] < at[n][1]
         /\ Range(at) = words

\* strtrim, where it stays in the text, drops the blanks at both ends and
\* nothing else.
TrimsBlanks ==
  Returned("strtrim") /\ ~out.outside =>
    \E i, j \in 1..Len(call.s) :
      /\ i <= j /\ out.text = SubSeq(call.s, i, j)
      /\ call.s[i] # BLANK /\ call.s[j] # BLANK
      /\ \A k \in 1..Len(call.s) : k < i \/ k > j => call.s[k] = BLANK

Occurs(nd, s, i) == i + Len(nd) <= Len(s) /\ SubSeq(s, i + 1, i + Len(nd)) = nd

IsFirst(i, S) == IF S = {} THEN i = NULL ELSE i = Min(S)

\* strstr finds the first occurrence, past partial ones that overlap it, and
\* strnstr the first that ends within n octets.
FindsFirst ==
  /\ Returned("strstr") =>
       IsFirst(out, {i \in 0..Len(call.s) : Occurs(call.nd, call.s, i)})
  /\ Returned("strnstr") =>
       IsFirst(out, {i \in 0..Len(call.s) :
                       Occurs(call.nd, call.s, i) /\ (i + Len(call.nd) <= call.n \/ call.nd = <<>>)})
=============================================================================
