SPECIFICATION Spec
CONSTANTS
  potion = potion
  blade = blade
  wreath = wreath
  s1 = s1
  s2 = s2
  Sessions = {s1, s2}
  NoSession = NoSession
  Items = {potion, blade, wreath}
  NoItem = NoItem
  Consumables = {potion}
  Wearables = {blade, wreath}
  Sellable = {potion, blade, wreath}
  Npcs = {"smith", "elder"}
  NoNpc = "nobody"
  Shops = {"smith"}
  Stock = {wreath}
  Objective = wreath
  EventLimit = 1
  Scenes <- ClientScenes
  MaxSlot = 3
  MaxTasks = 3
SYMMETRY SessionSymmetry
INVARIANTS
  TypeOK
  GoodsAddUp
  GearAgrees
  ScreensCatchUp
  FlagsMeanWork
CHECK_DEADLOCK FALSE
