SPECIFICATION Spec
CONSTANTS
  r1 = r1
  r2 = r2
  N = 2
  Start <- Stream
  Readers <- TwoReaders
  Call <- AllRecv
  RecvSize = 2
  BufSize = 1
  Window = 3
INVARIANTS
  EofIsTheEnd
  Divided
