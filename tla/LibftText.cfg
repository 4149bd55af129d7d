SPECIFICATION NumbersSpec
CONSTANTS
  x = x
  y = y
  Letters <- MCLetters
  BLANK = BLANK
  NUL = NUL
  Calls <- MCCalls
  NULL = NULL
  NONE = NONE
  BASE = 10
  INT_MAX = 511
  MIN_HEAD = 5
  MIN_TAIL = 12
  SQRT_MAX = 22
  MINUS = MINUS
  PLUS = PLUS
  DOT = DOT
  NumberCalls <- MCNumberCalls
  ROW2 = 4
  ROW16 = 16
  NEWLINE = NEWLINE
  BAR = BAR
INVARIANTS SplitsIntoWords TrimsBlanks FindsFirst NumbersReadBack SqrtExact DumpsReadBack
