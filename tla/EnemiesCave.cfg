SPECIFICATION Spec
CONSTANTS
  Players = {p1}
  Items = {}
  town = town
  cave = cave
  lair = lair
  p1 = p1
  den = den
  coin = coin
  Areas <- CaveAreas
  Points <- CavePoints
  Walkable <- CaveWalkable
  NPCPoints <- CaveNPCPoints
  DefaultSpawn <- CaveDefaultSpawn
  Spawns = {lair}
  SpawnArea <- CaveSpawnArea
  Territory <- CaveTerritory
  MaxEnemies <- CaveMaxEnemies
  EnemyHealth = 1
  EnemyDamage = 2
  Defense <- CaveDefense
  MaxHealth = 3
  AttackDamage = 1
  AttackRange = 1
  PickupRange = 1
  AggroRange = 2
  MaxKills = 2
INVARIANTS
  TypeOK
  SpawnBooksBalance
  RespawnIsNeverForgotten
  EnemiesStayHome
  PlayersStandAlive
PROPERTIES
  TicksNoteWhatTheyChange
