SPECIFICATION FairSpec
CONSTANTS
  Scripts <- Programs
  PeerBytes = 5
  LineEnds = {3, 5}
  MaxRecord = 3
  Window = 2
  MaxHellos = 2
INVARIANTS
  Intact
  ZeroIsClose
  NoSpuriousThrow
PROPERTIES
  CallsReturn
