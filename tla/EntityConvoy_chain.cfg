SPECIFICATION ConvoySpec
CONSTANTS
  MaxEntities = 3
  RestalkAllowed = FALSE
  FOLLOWDISTANCE = 1
  MapSize = 3
  Movements = {0, 3}
  Players = {0, 1}
  TailJoinsOnly = TRUE
INVARIANTS
  ConvoyInv
  LinksAgree
  StalkExcludesOwnMotion
PROPERTY
  NoJump
CHECK_DEADLOCK FALSE
