SPECIFICATION Spec
CONSTANTS
  Nodes = {n1, n2, n3, n4}
  Blocks = {b1, b2, b3, b4}
  Lists = {l1, l2}
  Values <- MCValues
  F <- MCF
  NULL = NULL
SYMMETRY Sym
INVARIANTS ListsOwnHeap CallbacksInOrder
