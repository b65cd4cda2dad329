SPECIFICATION FairSpec
CONSTANTS
  r1 = r1
  r2 = r2
  N = 4
  Start <- Uneven
  Readers <- OneReader
  Call <- AllCRecv
  RecvSize = 1
  BufSize = 1
  Window = 3
INVARIANTS
  FrameIntegrity
  NoSpuriousThrow
PROPERTIES
  ImplementsFrames
  Termination
  AllDelivered
