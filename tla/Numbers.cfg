SPECIFICATION NumbersSpec
CONSTANTS
  WORD = 32
  Radices = {2, 8, 10, 16}
  Widths = {0, 4, 9}
  Alphabet = {0, 1, 9, 10, 11, 33, 36, 37, 40}
  MaxLen = 4
  Before = 36
  INT_MAX = 127
  MaxFlags = 2
INVARIANTS FormatsAreUnderstood PrintedCanBeRead WidthIsKept TypedIsUnderstood
CHECK_DEADLOCK FALSE
