------------------------------ MODULE MCSaves ------------------------------
(* A character that walks, and one that learns; new ones and old ones.      *)
EXTENDS Saves, TLC

CONSTANTS s1, s2

Old == [Newborn EXCEPT !.place = "cave", !.level = 2, !.points = 1]

(* A new character walks, dies and is teleported, and comes back.           *)
Walking ==
  [row |-> Newborn, deeds |-> {"walk", "die", "tp"}, sessions |-> 1, changes |-> 3]
Returning ==
  [row |-> Old, deeds |-> {"walk", "tp"}, sessions |-> 2, changes |-> 2]

(* Points are spent while levels come from enemies and from staff.          *)
Learning ==
  [row |-> Old, deeds |-> {"spend", "fight", "lvl"}, sessions |-> 1, changes |-> 3]
Relearning ==
  [row |-> Old, deeds |-> {"spend", "fight", "exp"}, sessions |-> 2, changes |-> 2]

SavesScenes == {Walking, Returning, Learning, Relearning}

SessionSymmetry == Permutations(Sessions)
=============================================================================
