SPECIFICATION FrameSpec
CONSTANTS
  TimerCalls <- Nothing
  MaxTime = 2
  MaxNest = 2
  MaxSprites = 2
  MaxRate = 1
  MaxWait = 1
  QUAD = 4
INVARIANT
  RateAsDocumented
CHECK_DEADLOCK FALSE
