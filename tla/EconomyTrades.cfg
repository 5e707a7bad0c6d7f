SPECIFICATION Spec
CONSTANTS
  Workers = {w1, w2, w3}
  Nobody = Nobody
  Pools <- BothPools
  w1 = w1
  w2 = w2
  w3 = w3
  potion = potion
  blade = blade
  NoItem = NoItem
  Items <- ShopItems
  MaxStack <- ShopMaxStack
  EquipmentSlots = {"weapon"}
  FitsIn <- ShopFitsIn
  BuyPrice <- ShopBuyPrice
  SellPrice <- ShopSellPrice
  Objective <- ShopObjective
  Reward = 2
  StartingGold = 2
  Requests <- BothRequests
  Attempts = 2
  MaxSlot = 6
  MaxCalls <- BothMaxCalls
SYMMETRY WorkerSymmetry
INVARIANTS
  TypeOK
  WornFits
  ResultsAreTrue
  StacksFit
  NeverConflicts
PROPERTIES
  SalesLeaveEquipment
  ImplementsLedger
CHECK_DEADLOCK FALSE
