SPECIFICATION Spec
CONSTANTS
  OCTET = 4
  MAXLEN = 8
  Messages <- MCMessages
INVARIANTS TypeOK SumFits ChecksumVerifies
PROPERTY FoldKeepsCarries
