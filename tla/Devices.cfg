SPECIFICATION Spec
CONSTANTS
  WORD = 8
  Interval = 3
  Latency = 2
  Char = {c, n}
  Keys = {n}
  Nothing = Nothing
  MaxBytes = 2
INVARIANTS CompareIsAhead TicksAreApart NoByteIsStranded BytesInOrder
PROPERTIES TicksGoOn EveryByteIsRead
