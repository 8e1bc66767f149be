SPECIFICATION LoopSpec
CONSTANTS
  Calls <- EveryCall
  MaxNest = 1
  MaxLag = 1
  MaxPath = 1
  MaxWalk = 1
INVARIANT
  OnlyReadyPlayerWalks
CHECK_DEADLOCK FALSE
