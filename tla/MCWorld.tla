------------------------------- MODULE MCWorld -------------------------------
(* Two small worlds for TLC: a town and a cave joined by waypoints, with a   *)
(* cell nobody can stand on and one a merchant occupies.                     *)
EXTENDS World, TLC

CONSTANTS town, cave

MCAreas == {town, cave}
MCCells == 1 .. 3
MCWalkable == (town :> 1 .. 3) @@ (cave :> {1})
MCNPCCells == (town :> {2}) @@ (cave :> {})
MCNear == [cell \in MCCells |-> (MCCells \cup {OffMap}) \ {cell}]
MCWaypoints == {[area |-> town, cell |-> 3]}
MCDestination == [w \in MCWaypoints |-> [area |-> cave, cell |-> 1]]
MCAreaSpawn == (town :> 1) @@ (cave :> 1)
MCDefaultSpawn == [area |-> town, cell |-> 1]

(* One area, where only chat happens.                                        *)
HallAreas == {town}
HallCells == {1}
HallWalkable == (town :> {1})
HallNPCCells == (town :> {})
HallNear == [cell \in HallCells |-> {OffMap}]
HallWaypoints == {}
HallDestination == [w \in HallWaypoints |-> MCDefaultSpawn]
HallAreaSpawn == (town :> 1)

MCSymmetry == Permutations(Characters)
=============================================================================
