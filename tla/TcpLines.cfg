SPECIFICATION Spec
CONSTANTS
  r1 = r1
  r2 = r2
  N = 2
  Start <- Lines
  Readers <- OneReader
  Call <- AllRecvCLRF
  RecvSize = 1
  BufSize = 4
  Window = 5
INVARIANTS
  LinesInOrder
