--------------------------- MODULE MCGetNextLine ---------------------------
(* Small instances of GetNextLine: every text of up to three octets. *)
EXTENDS GetNextLine

CONSTANTS f1, f2, a, nl

MCFds == {f1, f2}
MCChar == {a, nl}
MCFiles == UNION {[1..n -> MCChar] : n \in 0..3}
=============================================================================
