SPECIFICATION Spec
CONSTANTS
  Characters = {c1, c2}
  town = town
  cave = cave
  LostArea = ruins
  Areas <- HallAreas
  Cells <- HallCells
  Stats = {0}
  Scenes = {0}
  OffMap = offmap
  Walkable <- HallWalkable
  NPCCells <- HallNPCCells
  Near <- HallNear
  Waypoints <- HallWaypoints
  Destination <- HallDestination
  AreaSpawn <- HallAreaSpawn
  DefaultSpawn <- MCDefaultSpawn
  ChatHistoryLimit = 2
  ChatCapacity = 2
  MaxTokens = 3
  MaxMessages = 4
INVARIANTS
  LoopNeverWaits
  ChatInOrder
SYMMETRY MCSymmetry
CHECK_DEADLOCK FALSE
