SPECIFICATION MCSpec
CONSTANTS
  Entities = {0, 1, 2}
  myself = 0
  Obstructing = {0, 1, 2}
  Obstructable = {0, 1, 2}
  Talking = {1}
  Tile = 2
  Width = 3
  Height = 2
  Walls <- TheWall
  Zone <- TheZone
  ObsTiles <- Doors
  ZoneTiles <- Border
  BoxFrom <- From
  BoxTo <- To
  HotW = 2
  HotH = 2
  playerstep = 2
  playerdiagonals = TRUE
  Home <- Homes
  Codes <- Code
  ScriptSteps <- Steps
  Turned = {1}
  TurnsWalking = FALSE
INVARIANT
  ObsInv
PROPERTIES
  KeysKeepOffWalls
  StepsAreFree
  WanderersStayHome
CHECK_DEADLOCK FALSE
