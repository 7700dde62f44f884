SPECIFICATION Spec
CONSTANTS
  MEMORY_SIZE = 104
  HEADER = 12
  ALIGNMENT = 8
  WORD = 256
  Requests = {0, 1, 24}
  Counts = {24}
  Null = Null
INVARIANTS ListWellFormed FreeBlocksMerged CountersRight RefusesOnlyWhenNoneFits
PROPERTY HeapSpec
