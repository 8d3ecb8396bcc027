SPECIFICATION FairSpec
CONSTANTS
  RegId = {0, 52}
  LIMIT = 0
  INT_MOD = 64
  Addr = {1, 2, 3, 4}
  NoIns = NoIns
  Prog <- TableProgram
  Opcode = {1, 2}
  MemAddr = {1, 2}
  Width = {0}
  LANES = 3
  FLOAT_LANES = 2
  PERIOD = 2
  EXECUTION_CACHE = 2
  MEMORY_CACHE = 2
  OPCODES_CACHE = 1
  IMAGE_CACHE = 1
  MAX_TOTAL = 3
PROPERTIES
  ExecutionImplementsProfile
  OpcodesImplementProfile
  MemoryImplementsProfile
  EventuallyOnDisk
CHECK_DEADLOCK FALSE
