SPECIFICATION Spec
CONSTANTS
  Players = {p1}
  Items = {coin}
  town = town
  cave = cave
  lair = lair
  p1 = p1
  den = den
  coin = coin
  Areas <- StreetAreas
  Points <- StreetPoints
  Walkable <- StreetWalkable
  NPCPoints <- StreetNPCPoints
  DefaultSpawn <- StreetDefaultSpawn
  Spawns = {lair, den}
  SpawnArea <- StreetSpawnArea
  Territory <- StreetTerritory
  MaxEnemies <- StreetMaxEnemies
  EnemyHealth = 1
  EnemyDamage = 1
  Defense <- StreetDefense
  MaxHealth = 2
  AttackDamage = 1
  AttackRange = 1
  PickupRange = 1
  AggroRange = 2
  MaxKills = 2
PROPERTIES
  TheFallenAreSpared
  SpawnsRefill
