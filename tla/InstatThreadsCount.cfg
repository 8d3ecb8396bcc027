\* The cache has room for both rows: only a checkpoint evicts.
SPECIFICATION Spec
CONSTANTS
  Thread = {t1, t2}
  Opcode = {o1, o2}
  NoIns = NoIns
  MemAddr = {o1, o2}
  Target <- Identity
  Garbage = Garbage
  PERIOD = 3
  OPCODES_CACHE = 2
  CAPACITY = 2
  MAX_MIXED = 3
  MAX_CALLS = 3
SYMMETRY Symmetry
INVARIANT
  OpcodesCounted
CHECK_DEADLOCK FALSE
