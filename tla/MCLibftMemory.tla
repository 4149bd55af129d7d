--------------------------- MODULE MCLibftMemory ---------------------------
(* Calls within six cells of three values, NUL and a negative char among them. *)
EXTENDS LibftMemory

\* Both make a NUL of some octet.
MCF == [x \in Char |-> IF x = 1 THEN 0 ELSE 1]
MCFI == [k \in Cells |-> [x \in Char |-> IF x = 1 /\ k = 1 THEN 0 ELSE IF k = 0 THEN x ELSE -1]]
MCMemories == [Cells -> {-1, 0, 1}]

\* Overlaps of every kind; sources and targets in either order.
MCCalls ==
  [f : {"memmove"}, d : 0..3, s : 0..3, t : {0}, n : 0..4, c : {0}]
  \cup [f : {"memcpy", "memcmp"}, d : {0, 3}, s : {0, 3}, t : {0}, n : 0..3, c : {0}]
  \cup [f : {"memset", "bzero", "memalloc", "strnew"}, d : {1}, s : {0}, t : {0}, n : 0..3, c : {3}]
  \cup [f : {"memccpy", "memchr"}, d : {0}, s : {3}, t : {0}, n : 0..3, c : {-1, 0, 3}]
  \cup [f : {"strcpy", "striter", "striteri", "strclr", "strmap", "strmapi"}, d : {0}, s : {3}, t : {0}, n : {0}, c : {0}]
  \cup [f : {"strncpy", "strncat", "strlcat", "strncmp", "strnequ", "strndup"},
        d : {0}, s : {3}, t : {0}, n : 0..5, c : {0}]
  \cup [f : {"strcat", "strcmp", "strequ"}, d : {0}, s : 2..5, t : {0}, n : {0}, c : {0}]
  \cup [f : {"strjoin"}, d : {0}, s : {3, 4}, t : {3, 4, 5}, n : {0}, c : {0}]
  \cup [f : {"strchr", "strrchr"}, d : {0}, s : {2}, t : {0}, n : {0}, c : -1..3]
=============================================================================
