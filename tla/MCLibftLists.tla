---------------------------- MODULE MCLibftLists ----------------------------
(* Two lists of up to four elements, three of them in one. *)
EXTENDS LibftLists

MCValues == 0..1
MCF == [v \in 0..1 |-> 1 - v]
Sym == Permutations(Nodes) \cup Permutations(Blocks) \cup Permutations(Lists)
=============================================================================
