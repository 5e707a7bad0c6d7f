------------------------------ MODULE MCEconomy ------------------------------
(* One character, potions that stack by two and blades that do not.         *)
EXTENDS Economy, TLC

CONSTANTS potion, blade, w1, w2, w3

Call(kind, item, slot, quantity) ==
  [kind |-> kind, item |-> item, slot |-> slot, quantity |-> quantity]

ShopItems == {potion, blade}
ShopMaxStack == (potion :> 2) @@ (blade :> 1)
ShopFitsIn == (potion :> NoItem) @@ (blade :> "weapon")
ShopBuyPrice == (potion :> 1) @@ (blade :> 2)
ShopSellPrice == (potion :> 1) @@ (blade :> 1)
ShopObjective == [item |-> potion, quantity |-> 2]

(* Additions that fill a stack and start the next, trades of both items,    *)
(* a hand-in and an item to wear.                                           *)
LockedCalls ==
  {Call("AddItems", potion, 1, 3), Call("Buy", blade, 1, 1),
   Call("Sell", potion, 1, 1), Call("Complete", potion, 1, 1)}
  \cup {Call("Sell", blade, s, 1) : s \in {1, 2}}
  \cup {Call("Equip", blade, s, 1) : s \in {1, 2}}

AllCalls == LockedCalls \cup {Call("Consume", potion, s, 1) : s \in {1, 2}}

(* One of each kind that locks more than the inventory.                     *)
WaitingCalls ==
  {Call("AddItems", potion, 1, 3), Call("Buy", blade, 1, 1),
   Call("Sell", potion, 1, 1), Call("Complete", potion, 1, 1)}

ConsumeCalls ==
  {Call("AddItems", potion, 1, 1), Call("Sell", potion, 1, 1),
   Call("Consume", potion, 1, 1)}

(* SQLite has one connection, PostgreSQL as good as one for each worker;    *)
(* ConsumeItem on PostgreSQL is checked apart.                              *)
BothPools == {1, 20}
BothRequests == (1 :> AllCalls) @@ (20 :> LockedCalls)
BothMaxCalls == (1 :> 5) @@ (20 :> 4)

Postgres == {20}
WaitingRequests == 20 :> WaitingCalls
ConsumeRequests == 20 :> ConsumeCalls
ThreeCalls == 20 :> 3

WorkerSymmetry == Permutations(Workers)
=============================================================================
