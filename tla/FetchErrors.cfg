SPECIFICATION ResultSpec
CONSTANTS
  N = 3
  Values = {v1, v2}
  SqlNull = SqlNull
  Blank = Blank
  NoRow = NoRow
  IntMax = 7
  Offsets <- MCOffsets
INVARIANTS
  NullIsEnd
