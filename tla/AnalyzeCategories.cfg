\* The array of the category files.
SPECIFICATION Spec
CONSTANTS
  Opcode = {11, 12, 13, 14}
  RowValue <- ToolRows
  CATEGORIES = 3
  CaseLabels <- TwoCases
  BINS = 2
  Garbage = {0, 7}
  Addr = {1, 2, 3}
  MAX_COUNT = 3
  MemAddr = {1, 2}
  MemValue <- SmallAccesses
  PROGRESS = 2
  SCALE = 12
INVARIANT
  CategoriesCleared
\* The program ends.
CHECK_DEADLOCK FALSE
