SPECIFICATION Spec
CONSTANTS
  Characters = {c1, c2}
  town = town
  cave = cave
  LostArea = ruins
  Areas <- MCAreas
  Cells <- MCCells
  Stats = {0}
  Scenes = {0, 1}
  OffMap = offmap
  Walkable <- MCWalkable
  NPCCells <- MCNPCCells
  Near <- MCNear
  Waypoints <- MCWaypoints
  Destination <- MCDestination
  AreaSpawn <- MCAreaSpawn
  DefaultSpawn <- MCDefaultSpawn
  ChatHistoryLimit = 1
  ChatCapacity = 2
  MaxTokens = 2
  MaxMessages = 0
PROPERTIES
  OutdatedViewsAreRefreshed
  ShutdownReleasesEveryClient
CHECK_DEADLOCK FALSE
