----------------------------- MODULE LineReader -----------------------------
(***************************************************************************)
(* What a reader of lines promises: each call on a descriptor hands out    *)
(* the text of its file up to the next newline and drops the newline, the  *)
(* text after the last newline is a line of its own, and 0 is returned     *)
(* when nothing is left.                                                   *)
(***************************************************************************)
EXTENDS Sequences, Integers

CONSTANTS Fds, Char, NL, Files, CLOSED, NONE

VARIABLES
  rest,     \* rest[f]: the text of f not handed out yet, or CLOSED
  result,   \* result[f]: what the last call on f returned since it was opened
  line      \* *line, the last line handed out

vars == <<rest, result, line>>

IsEol(s, i) == s[i] = NL /\ \A j \in 1..i-1 : s[j] # NL
HasEol(s) == \E i \in 1..Len(s) : s[i] = NL

Init ==
  /\ rest = [f \in Fds |-> CLOSED] /\ line = <<>>
  /\ result = [f \in Fds |-> NONE]

Return(f, ret) == result' = [result EXCEPT ![f] = ret]

HandOut(f) ==
  /\ rest[f] # CLOSED
  /\ \E i \in 1..Len(rest[f]) :
       /\ IsEol(rest[f], i)
       /\ line' = SubSeq(rest[f], 1, i - 1)
       /\ rest' = [rest EXCEPT ![f] = SubSeq(@, i + 1, Len(@))]
  /\ Return(f, 1)

HandOutLast(f) ==
  /\ rest[f] \notin {CLOSED, <<>>} /\ ~HasEol(rest[f])
  /\ line' = rest[f] /\ rest' = [rest EXCEPT ![f] = <<>>]
  /\ Return(f, 1)

AtEnd(f) == rest[f] = <<>> /\ Return(f, 0) /\ UNCHANGED <<rest, line>>

Refuse(f) == rest[f] = CLOSED /\ Return(f, -1) /\ UNCHANGED <<rest, line>>

Open(f, text) ==
  /\ rest[f] = CLOSED /\ rest' = [rest EXCEPT ![f] = text]
  /\ Return(f, NONE) /\ UNCHANGED line

Close(f) ==
  /\ rest[f] # CLOSED /\ rest' = [rest EXCEPT ![f] = CLOSED]
  /\ UNCHANGED <<result, line>>

Next == \E f \in Fds :
  \/ HandOut(f) \/ HandOutLast(f) \/ AtEnd(f) \/ Refuse(f) \/ Close(f)
  \/ \E text \in Files : Open(f, text)

Spec == Init /\ [][Next]_vars
=============================================================================
