SPECIFICATION Spec
CONSTANTS
  Workers = {w1, w2, w3}
  Nobody = Nobody
  Pools <- Postgres
  w1 = w1
  w2 = w2
  w3 = w3
  potion = potion
  blade = blade
  NoItem = NoItem
  Items <- ShopItems
  MaxStack <- ShopMaxStack
  EquipmentSlots = {"weapon"}
  FitsIn <- ShopFitsIn
  BuyPrice <- ShopBuyPrice
  SellPrice <- ShopSellPrice
  Objective <- ShopObjective
  Reward = 2
  StartingGold = 2
  Requests <- WaitingRequests
  Attempts = 2
  MaxSlot = 6
  MaxCalls <- ThreeCalls

PROPERTIES
  CallsEnd
CHECK_DEADLOCK FALSE
