SPECIFICATION Spec
CONSTANTS
  RegId <- MCRegId
  LIMIT = 1
  INT_MOD = 8
  MAX_CALLS = 6
INVARIANTS
  TypeOK
  FanoutIsReadsPerValue
  AgeIsInstructionsPerValue
  RowsInTableWhileSmall
CHECK_DEADLOCK FALSE
