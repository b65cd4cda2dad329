SPECIFICATION MdbSpec
CONSTANTS
  N = 3
  Values = {v1, v2}
  SqlNull = SqlNull
  Blank = Blank
  NoRow = NoRow
  IntMax = 7
  Offsets <- MCOffsets
  Stms = {s1}
  Ress = {r1, r2}
  Handles = {h1, h2, h3, h4, h5}
  Null = Null
  FreeAgain = FALSE
  Drivers = {d1, d2}
  Ours = d1
  Together = FALSE
  BothClasses = FALSE
SYMMETRY Symmetry
CHECK_DEADLOCK FALSE
INVARIANTS
  CacheAgrees
  HandlesOwned
  Usable
  ConnectionOwned
  HandlerRestored
PROPERTIES
  ImplementsRowCursor
  UndefinedIsKnown
