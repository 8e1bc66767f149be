SPECIFICATION ConvoySpec
CONSTANTS
  MaxEntities = 3
  RestalkAllowed = TRUE
  FOLLOWDISTANCE = 2
  MapSize = 2
  Movements = {0}
  Players = {1}
  TailJoinsOnly = FALSE
INVARIANTS
  NoDanglingLink
  RecursionTerminates
PROPERTIES
  LinksKept
  StalkersKeptAtWaypoint
  MoveRestoresOrder
CHECK_DEADLOCK FALSE
