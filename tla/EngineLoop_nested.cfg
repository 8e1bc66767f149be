SPECIFICATION MCFairSpec
CONSTANTS
  Calls <- EveryCall
  MaxNest = 2
  MaxLag = 1
  MaxPath = 1
  MaxWalk = 1
INVARIANTS
  LoopInv
  AheadByNestingOnly
PROPERTIES
  PlayerMoveEnds
  MapIsLeft
CHECK_DEADLOCK FALSE
