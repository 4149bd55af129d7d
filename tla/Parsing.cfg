SPECIFICATION Spec
CONSTANTS
  Args <- MCArgs
  ARGC_MAX = 4
  INT_RANGE = 262144
INVARIANTS TypeOK SizesOK RolesPartition LengthHonoured
