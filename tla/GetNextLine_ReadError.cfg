SPECIFICATION SpecErrors
CONSTANTS
  f1 = f1
  f2 = f2
  a = a
  nl = nl
  Fds <- MCFds
  Char <- MCChar
  NL = nl
  Files <- MCFiles
  BUFF_SIZE = 2
  NULL = NULL
  CLOSED = CLOSED
  NONE = NONE
PROPERTY LinesOfFile
