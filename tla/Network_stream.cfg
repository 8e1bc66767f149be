SPECIFICATION FairNetworkSpec
CONSTANTS
  Ends <- TwoEnds
  Protocol <- Talk
  IntWidth = 2
  LenWidth = 1
  MaxGarble = 2
  Space = 2
  Window = 2
INVARIANT
  NetworkInv
PROPERTIES
  StreamKept
  GetsEnd
CHECK_DEADLOCK FALSE
