SPECIFICATION Spec
CONSTANTS
  s1 = s1
  s2 = s2
  Sessions = {s1, s2}
  NoSession = NoSession
  Places = {"spawn", "cave"}
  Nowhere = "nowhere"
  Spawn = "spawn"
  MaxInt = 4
  MaxExperience = 20
  Unit = 2
  Rewards = {3, 20}
  Levels = {1, 4}
  Scenes <- SavesScenes
  MaxSaves = 2
SYMMETRY SessionSymmetry
INVARIANTS
  SavedUnlessOvertaken
  PointsAddUp
CHECK_DEADLOCK FALSE
