\* Two operands an instruction, of every kind.
SPECIFICATION Spec
CONSTANTS
  BYTE = 2
  W = 8
  NarrowSize = {1, 2}
  Format <- SmallFormats
  Reg <- SmallRegs
  RegValue <- SmallValues
  MemSize = {1, 2, 4}
  WordValue = {0, 130, 255}
  RVAL = 16
  ROWS <- SmallRows
  MAX_OPERANDS = 2
INVARIANTS
  WidestElement
  NeverTooNarrow
  WithinHistogram
