\* Every table of the sizes below, also shorter than PROGRESS.
SPECIFICATION Spec
CONSTANTS
  Opcode = {11, 12, 13, 14}
  RowValue <- ToolRows
  CATEGORIES = 3
  CaseLabels <- TwoCases
  BINS = 2
  Garbage = {0, 7}
  Addr = {1, 2, 3}
  MAX_COUNT = 3
  MemAddr = {1, 2}
  MemValue <- SmallAccesses
  PROGRESS = 2
  SCALE = 12
INVARIANTS
  UsageAddsUp
  KindsAgree
  CumulativeEndsAtOne
  EveryRowIsFound
  TopLinesCoverMost
  BlocksHaveTheirRows
  SharesAddUp
\* The program ends.
CHECK_DEADLOCK FALSE
