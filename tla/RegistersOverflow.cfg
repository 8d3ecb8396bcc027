SPECIFICATION Spec
CONSTANTS
  RegId <- MCRegId
  LIMIT = 1
  INT_MOD = 4
  MAX_CALLS = 4
INVARIANTS
  RowsInTable
CHECK_DEADLOCK FALSE
