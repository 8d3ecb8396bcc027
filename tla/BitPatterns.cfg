\* Every pattern of 13 bits: a word, and the rest of a LONGDOUBLE.
SPECIFICATION Patterns
CONSTANTS
  BYTE = 2
  W = 8
  NarrowSize = {1, 2}
  Format <- SmallFormats
  BITS = 13
INVARIANTS
  FieldsAreTheirBits
  WidthsAreLeast
  SignificandEndsAtLastOne
  SignCostsABitAtMost
  ExponentBelowTwo
\* The enumeration ends with the last pattern.
CHECK_DEADLOCK FALSE
