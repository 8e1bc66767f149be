SPECIFICATION FairChannelsSpec
CONSTANTS
  a = a
  b = b
  c = c
  Streams <- ThreeStreams
  Chunk = 2
  MaxHandles = 5
  MaxEvents = 1
INVARIANT
  ChannelsInv
PROPERTIES
  ChannelsKept
  SoundsReleased
CHECK_DEADLOCK FALSE
