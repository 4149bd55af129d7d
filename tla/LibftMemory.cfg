SPECIFICATION FairSpec
CONSTANTS
  SIZE = 6
  HALF = 2
  UINT = 8
  F <- MCF
  FI <- MCFI
  Calls <- MCCalls
  Memories <- MCMemories
  NULL = NULL
  NONE = NONE
INVARIANTS WritesInTarget CopiesExactly FindsOctet ComparesUnsigned
PROPERTY Returns
