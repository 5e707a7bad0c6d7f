------------------------------ MODULE MCEnemies ------------------------------
(* Two small worlds of enemies, with every way a spawn's rectangle can      *)
(* differ from where an enemy may walk.                                     *)
EXTENDS Enemies, TLC

CONSTANTS town, cave, lair, den, p1, coin

Grid(width, height) == [x : 0 .. width - 1, y : 0 .. height - 1]

(* The cave: four columns of two points, one of them rock and one an NPC's. *)
(* A lair of two enemies is the three columns on the left; players respawn  *)
(* in a town of one point that has no enemies.                              *)
CaveAreas == {town, cave}
CavePoints == Grid(4, 2)
CaveWalkable == (town :> {[x |-> 0, y |-> 0]})
                @@ (cave :> CavePoints \ {[x |-> 1, y |-> 1]})
CaveNPCPoints == (town :> {}) @@ (cave :> {[x |-> 0, y |-> 1]})
CaveDefaultSpawn == [area |-> town, at |-> [x |-> 0, y |-> 0]]
CaveSpawnArea == (lair :> cave)
CaveTerritory == (lair :> Grid(3, 2))
CaveMaxEnemies == (lair :> 2)
CaveDefense == (p1 :> 0)

(* The street: one row that is the only area, where players respawn among   *)
(* the enemies of two spawns.                                               *)
StreetAreas == {town}
StreetPoints == Grid(3, 1)
StreetWalkable == (town :> StreetPoints)
StreetNPCPoints == (town :> {})
StreetDefaultSpawn == [area |-> town, at |-> [x |-> 0, y |-> 0]]
StreetSpawnArea == (lair :> town) @@ (den :> town)
StreetTerritory == (lair :> Grid(2, 1)) @@ (den :> Grid(3, 1) \ Grid(2, 1))
StreetMaxEnemies == (lair :> 1) @@ (den :> 1)
StreetDefense == (p1 :> 0)
=============================================================================
