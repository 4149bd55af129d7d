---------------------------- MODULE GetNextLine ----------------------------
(***************************************************************************)
(* get_next_line (libraries/get_next_line.c): lines of several open files, *)
(* with what was read past a line kept per descriptor between the calls.   *)
(* One step is one read system call.                                       *)
(***************************************************************************)
EXTENDS Sequences, Integers

CONSTANTS
  Fds,        \* file descriptors
  Char, NL,   \* the octets of a text, NUL excluded, and the newline
  Files,      \* what a file may hold when it is opened
  BUFF_SIZE,
  NULL, CLOSED, NONE

ASSUME CharAssumption == NL \in Char
ASSUME FilesAssumption == Files \subseteq Seq(Char)
ASSUME BufferAssumption == BUFF_SIZE \in Nat \ {0}
ASSUME DistinctAssumption == NULL \notin Seq(Char) /\ CLOSED \notin Seq(Char)

VARIABLES
  file,    \* file[f]: what read has not delivered yet, or CLOSED
  str,     \* str[f]: the text read ahead in f's node of the list
  result,  \* result[f]: what the last call on f since its opening returned
  line,    \* *line, as the last call that set it left it
  pc,      \* "idle", "read": in read_line's loop, "segv": a null pointer was followed
  fd,      \* the descriptor of the call under way
  buf      \* what the loop of this call last read, NULL before

vars == <<file, str, result, line, pc, fd, buf>>

\* ft_strdup and ft_strlen take a null pointer for the empty text.
Text(s) == IF s = NULL THEN <<>> ELSE s

IsEol(s, i) == s[i] = NL /\ \A j \in 1..i-1 : s[j] # NL
HasEol(s) == \E i \in 1..Len(s) : s[i] = NL

Init ==
  /\ file = [f \in Fds |-> CLOSED] /\ str = [f \in Fds |-> NULL]
  /\ result = [f \in Fds |-> NONE] /\ line = <<>>
  /\ pc = "idle" /\ fd \in Fds /\ buf = NULL

\* get_the_node, when it returns the node of another descriptor.
get_the_node_first(f) == CHOOSE g \in Fds : TRUE

\* The node of f in the list, added with a null text when there is none.
get_the_node(f) == f

\* trim_and_del without its last test: ft_strndup makes no text of length 0.
trim_empty_to_null(n, s) ==
  \E i \in 1..Len(s) :
    /\ IsEol(s, i)
    /\ line' = IF i = 1 THEN NULL ELSE SubSeq(s, 1, i - 1)
    /\ str' = [str EXCEPT ![n] = SubSeq(s, i + 1, Len(s))]

\* s holds a newline: the line before it goes out, the text after it is kept.
trim_and_del(n, s) ==
  \E i \in 1..Len(s) :
    /\ IsEol(s, i)
    /\ line' = SubSeq(s, 1, i - 1)
    /\ str' = [str EXCEPT ![n] = SubSeq(s, i + 1, Len(s))]

Return(f, ret) == pc' = "idle" /\ result' = [result EXCEPT ![f] = ret] /\ buf' = NULL

refuse(f) ==
  /\ pc = "idle" /\ file[f] = CLOSED
  /\ fd' = f /\ Return(f, -1) /\ UNCHANGED <<file, str, line>>

\* The text read ahead already holds a line.
from_kept(f) ==
  /\ pc = "idle" /\ file[f] # CLOSED /\ HasEol(Text(str[get_the_node(f)]))
  /\ trim_and_del(get_the_node(f), str[get_the_node(f)])
  /\ fd' = f /\ Return(f, 1) /\ UNCHANGED file

enter_loop(f) ==
  /\ pc = "idle" /\ file[f] # CLOSED /\ ~HasEol(Text(str[get_the_node(f)]))
  /\ fd' = f /\ pc' = "read" /\ UNCHANGED <<file, str, result, line, buf>>

\* The loop's body once buf holds chunk: append it, leave at a newline.
append(chunk) ==
  LET n == get_the_node(fd)
      s == Text(str[n]) \o chunk IN
  \/ /\ HasEol(s) /\ trim_and_del(n, s) /\ Return(fd, 1)
  \/ /\ ~HasEol(s) /\ str' = [str EXCEPT ![n] = s] /\ buf' = chunk
     /\ UNCHANGED <<line, pc, result>>

\* read delivers some octets, fewer than asked for at times.
read_some ==
  /\ pc = "read"
  /\ \E len \in 1..Len(file[fd]) :
       /\ len <= BUFF_SIZE
       /\ append(SubSeq(file[fd], 1, len))
       /\ file' = [file EXCEPT ![fd] = SubSeq(@, len + 1, Len(@))]
  /\ UNCHANGED fd

\* checks_eof that leaves the last line in the list.
checks_eof_kept(n) ==
  \/ /\ str[n] = NULL /\ pc' = "segv" /\ UNCHANGED <<str, line, result, buf>>
  \/ /\ str[n] = <<>> /\ Return(fd, 0) /\ UNCHANGED <<str, line>>
  \/ /\ str[n] \notin {NULL, <<>>} /\ line' = str[n]
     /\ Return(fd, 1) /\ UNCHANGED str

\* checks_eof that reads on when nothing is left.
checks_eof_retry(n) ==
  \/ /\ str[n] = NULL /\ pc' = "segv" /\ UNCHANGED <<str, line, result, buf>>
  \/ /\ str[n] = <<>> /\ UNCHANGED <<str, line, result, pc, buf>>
  \/ /\ str[n] \notin {NULL, <<>>} /\ line' = str[n]
     /\ str' = [str EXCEPT ![n] = <<>>] /\ Return(fd, 1)

\* read returned 0: (*ct)[0] is read, even of a null pointer.
checks_eof(n) ==
  \/ /\ str[n] = NULL /\ pc' = "segv" /\ UNCHANGED <<str, line, result, buf>>
  \/ /\ str[n] = <<>> /\ Return(fd, 0) /\ UNCHANGED <<str, line>>
  \/ /\ str[n] \notin {NULL, <<>>} /\ line' = str[n]
     /\ str' = [str EXCEPT ![n] = <<>>] /\ Return(fd, 1)

read_end ==
  /\ pc = "read" /\ file[fd] = <<>> /\ checks_eof(get_the_node(fd))
  /\ UNCHANGED <<file, fd>>

\* read failed: -1 does not end the loop, and what buf held is appended once
\* more; before the first read of a call it holds anything.
read_error ==
  /\ pc = "read"
  /\ \E chunk \in IF buf = NULL THEN {<<>>} \cup {<<c>> : c \in Char} ELSE {buf} :
       append(chunk)
  /\ UNCHANGED <<file, fd>>

Call == (\E f \in Fds : refuse(f) \/ from_kept(f) \/ enter_loop(f)) \/ read_some \/ read_end

-----------------------------------------------------------------------------
(* The caller, who closes a file only when it was told its end. *)

open(f, text) ==
  /\ pc = "idle" /\ file[f] = CLOSED
  /\ file' = [file EXCEPT ![f] = text] /\ result' = [result EXCEPT ![f] = NONE]
  /\ UNCHANGED <<str, line, pc, fd, buf>>

close(f) ==
  /\ pc = "idle" /\ file[f] # CLOSED /\ result[f] # 1
  /\ file' = [file EXCEPT ![f] = CLOSED]
  /\ UNCHANGED <<str, result, line, pc, fd, buf>>

Caller == \E f \in Fds : close(f) \/ \E text \in Files : open(f, text)

crashed == pc = "segv" /\ UNCHANGED vars

Next == Call \/ Caller \/ crashed
Spec == Init /\ [][Next]_vars
FairSpec == Spec /\ WF_vars(read_some \/ read_end)

\* The same with reads that fail, by a signal or an error of the device.
SpecErrors == Init /\ [][Next \/ read_error]_vars

-----------------------------------------------------------------------------
(* Properties *)

TypeOK ==
  /\ file \in [Fds -> Seq(Char) \cup {CLOSED}]
  /\ str \in [Fds -> Seq(Char) \cup {NULL}]
  /\ result \in [Fds -> {-1, 0, 1, NONE}]
  /\ line \in Seq(Char) /\ buf \in Seq(Char) \cup {NULL}
  /\ pc \in {"idle", "read", "segv"} /\ fd \in Fds

\* What was read ahead and what read will still deliver are, in that order,
\* the text not handed out: whatever the sizes of the reads and however the
\* calls on several descriptors mix, get_next_line hands out the lines.
restRead == [f \in Fds |-> IF file[f] = CLOSED THEN CLOSED ELSE Text(str[f]) \o file[f]]
LR == INSTANCE LineReader WITH rest <- restRead
ImplementsLineReader == LR!Spec

\* A file's text never reaches the reader of the next file on the same
\* descriptor: nothing is kept for one that is closed.
NothingKept == \A f \in Fds : file[f] = CLOSED => Text(str[f]) = <<>>

\* A call that enters the loop returns to its caller, as long as there is an octet
\* to read or a text of the descriptor's, an empty one too, was kept.  Without
\* either, which is a file empty from the start, checks_eof reads through a null
\* pointer: that call never returns, and is the only one that does not.
CallReturns ==
  pc = "read" /\ (file[fd] # <<>> \/ str[fd] # NULL) ~> pc = "idle"

\* Reading a file line per line (libraries/README.md:16): what is left to hand
\* out of an open file never grows.
LinesOfFile ==
  [][\A f \in Fds : CLOSED \notin {file[f], file'[f]}
                      => Len(restRead'[f]) <= Len(restRead[f])]_vars
=============================================================================
