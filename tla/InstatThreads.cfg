\* Three calls that may meet, then two that do not.
SPECIFICATION Spec
CONSTANTS
  Thread = {t1, t2}
  Opcode = {o1, o2}
  NoIns = NoIns
  MemAddr = {o1, o2}
  Target <- Identity
  Garbage = Garbage
  PERIOD = 2
  OPCODES_CACHE = 1
  CAPACITY = 2
  MAX_MIXED = 3
  MAX_CALLS = 5
SYMMETRY Symmetry
INVARIANTS
  TypeOK
  ListEmptyBetween
  CountsBetween
  TotalBetween
  QuietCheckpoint
  AloneIsExact
CHECK_DEADLOCK FALSE
