SPECIFICATION MCSpec
CONSTANTS
  TimerCalls <- Nothing
  MaxTime = 2
  MaxNest = 2
  MaxSprites = 2
  MaxRate = 1
  MaxWait = 1
  QUAD = 4
INVARIANTS
  FrameInv
  HookExact
  SpriteTurns
  SpritesAheadByNesting
CHECK_DEADLOCK FALSE
