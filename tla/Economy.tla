------------------------------ MODULE Economy ------------------------------
(***************************************************************************)
(* The rows of one character -- inventory, equipment, progress, quest --   *)
(* and the transactions of src/src/repository that change them, statement  *)
(* by statement.                                                           *)
(*                                                                         *)
(* The database is modelled as the code uses it: transactions at READ      *)
(* COMMITTED, rows locked by SELECT ... FOR UPDATE and by writes until     *)
(* their transaction ends, writes visible to others when it commits.       *)
(* The limit of the pool is 20 connections for PostgreSQL, and 1 for       *)
(* SQLite, where a transaction has the database for itself.                *)
(*                                                                         *)
(* Statements of a transaction that only touch rows it has locked, and the *)
(* last write of a transaction with its commit, are one step.              *)
(***************************************************************************)
EXTENDS Integers, FiniteSets, FiniteSetsExt, Functions

CONSTANTS
  Workers,         \* goroutines that may call the repositories
  Nobody,
  Pools,           \* limits of the pool there are
  Items,
  NoItem,
  MaxStack,        \* [Items -> Nat]: item.Definition.MaxStack
  EquipmentSlots,
  FitsIn,          \* [Items -> EquipmentSlots, or NoItem]
  BuyPrice, SellPrice,
  Objective,       \* [item, quantity] of the quest
  Reward,          \* gold for the quest
  StartingGold,    \* domain.DefaultStartingGold
  Requests,        \* [Pools -> calls the workers make]
  Attempts,        \* economicTransactionAttempts
  MaxSlot,         \* bound: slots of an inventory
  MaxCalls         \* bound: [Pools -> calls ever made]

Slots == 1 .. MaxSlot

Kinds == {"AddItems", "Buy", "Sell", "Complete", "Consume", "Equip"}

Request == [kind : Kinds, item : Items, slot : Slots, quantity : Nat \ {0}]

NoStack == [item |-> NoItem, quantity |-> 0]

Stack == {NoStack} \cup [item : Items, quantity : Nat \ {0}]

ASSUME CallsAssumption ==
  /\ Pools \subseteq Nat \ {0}
  /\ Requests \in [Pools -> SUBSET Request] /\ MaxCalls \in [Pools -> Nat]
  /\ \A n \in Pools : \A r \in Requests[n] :
       /\ r.kind # "AddItems" => r.quantity = 1
       /\ r.kind = "Complete" => r.item = Objective.item
       /\ r.kind = "Equip" => FitsIn[r.item] # NoItem
  /\ IsFiniteSet(Workers) /\ Nobody \notin Workers
  /\ NoItem \notin Items
  /\ {Attempts, MaxSlot} \subseteq Nat \ {0}

(* What items.Load and quest.Load accept.                                  *)
ASSUME DefinitionsAssumption ==
  /\ MaxStack \in [Items -> Nat \ {0}]
  /\ FitsIn \in [Items -> EquipmentSlots \cup {NoItem}]
  /\ \A i \in Items : FitsIn[i] # NoItem => MaxStack[i] = 1
  /\ {BuyPrice, SellPrice} \subseteq [Items -> Nat \ {0}]
  /\ Objective \in [item : Items, quantity : Nat \ {0}]
  /\ {Reward, StartingGold} \subseteq Nat

VARIABLES
  pool,           \* sql.DB.SetMaxOpenConns, which never changes
  stacks,         \* [Slots -> Stack]: inventory_items, committed
  worn,           \* [EquipmentSlots -> Slots or 0]: character_equipment
  gold,           \* character_progress.gold
  quest,          \* character_quests.status
  inventoryLock,  \* who has the row of inventories
  progressLock,   \* who has the row of character_progress
  stackLock,      \* [Slots -> who has the row of inventory_items]
  tx,             \* [Workers -> open transaction, or Idle]
  calls,          \* calls made so far
  receipt,        \* [Items -> Int]: items gained and given up, by the results reported
  purse,          \* gold, by the results reported
  conflicted      \* a transaction gave up on a "concurrent state change"

rows == <<stacks, worn, gold, quest>>
locks == <<inventoryLock, progressLock, stackLock>>
books == <<receipt, purse>>
vars == <<pool, rows, locks, tx, calls, books, conflicted>>

-----------------------------------------------------------------------------
(* Transactions. *)

Idle == [step |-> "idle"]

Economic == {"AddItems", "Buy", "Sell", "Complete"}

FirstStep(kind) == IF kind \in Economic THEN "lock" ELSE "look"

(* drafts are the uncommitted writes to stacks, seen the rows read.        *)
Opened(request, attempt) ==
  [request |-> request, step |-> FirstStep(request.kind), attempt |-> attempt,
   left |-> request.quantity, at |-> request.slot, seen |-> [s \in {} |-> NoStack],
   drafts |-> [s \in {} |-> NoStack], earned |-> 0, claims |-> FALSE]

Busy == {w \in Workers : tx[w] # Idle}

Locking == {w \in Busy : tx[w].request.kind \in Economic}

At(w, kinds, step) ==
  /\ w \in Busy
  /\ tx[w].request.kind \in kinds
  /\ tx[w].step = step

Visible(w, s) ==
  IF s \in DOMAIN tx[w].drafts THEN tx[w].drafts[s] ELSE stacks[s]

Free(lock, w) == lock \in {Nobody, w}

Released(lock, w) == IF lock = w THEN Nobody ELSE lock

Drafted(w, s, stack) ==
  [r \in DOMAIN tx[w].drafts \cup {s} |-> IF r = s THEN stack ELSE tx[w].drafts[r]]

Holding(item, quantity) ==
  IF quantity = 0 THEN NoStack ELSE [item |-> item, quantity |-> quantity]

ReleaseNothing(w) == UNCHANGED locks

Release(w) ==
  /\ inventoryLock' = Released(inventoryLock, w)
  /\ progressLock' = Released(progressLock, w)
  /\ stackLock' = [s \in Slots |-> Released(stackLock[s], w)]

(* The transaction is rolled back and its error reported.                  *)
GiveUp(w) ==
  /\ tx' = [tx EXCEPT ![w] = Idle]
  /\ Release(w)
  /\ UNCHANGED <<rows, calls, books>>

Refuse(w) == GiveUp(w) /\ UNCHANGED conflicted

(* requireOneRow found none: "concurrent state change".                    *)
Conflict(w) == GiveUp(w) /\ conflicted' = TRUE

Proceed(w, transaction) ==
  /\ tx' = [tx EXCEPT ![w] = transaction]
  /\ UNCHANGED <<rows, calls, books, conflicted>>

Begin(w, request) ==
  /\ tx[w] = Idle
  /\ Cardinality(Busy) < pool
  /\ calls < MaxCalls[pool]
  /\ calls' = calls + 1
  /\ tx' = [tx EXCEPT ![w] = Opened(request, 1)]
  /\ UNCHANGED <<rows, locks, books, conflicted>>

AfterLock(kind) ==
  CASE kind = "AddItems" -> "find"
    [] kind = "Buy" -> "pay"
    [] kind \in {"Sell", "Complete"} -> "read"

MayLockAlways(w) == TRUE

MayLock(w) == Free(inventoryLock, w)

(* Every economic transaction first locks the character's inventory.       *)
LockInventory(w) ==
  /\ At(w, Economic, "lock")
  /\ MayLock(w)
  /\ inventoryLock' = w
  /\ Proceed(w, [tx[w] EXCEPT !.step = AfterLock(tx[w].request.kind)])
  /\ UNCHANGED <<progressLock, stackLock>>

-----------------------------------------------------------------------------
(* addItems: fill stacks from the lowest slot, then append new ones. *)

Fillable(w) ==
  {s \in Slots : /\ Visible(w, s).item = tx[w].request.item
                 /\ Visible(w, s).quantity < MaxStack[tx[w].request.item]}

LastSlot(w) == Max({0} \cup {s \in Slots : Visible(w, s) # NoStack})

FindStack(w) ==
  /\ At(w, {"AddItems", "Buy"}, "find")
  /\ \/ /\ Fillable(w) # {}
        /\ LET s == Min(Fillable(w))
           IN  /\ Free(stackLock[s], w)
               /\ stackLock' = [stackLock EXCEPT ![s] = w]
               /\ Proceed(w, [tx[w] EXCEPT !.step = "increase", !.at = s,
                                           !.seen = [r \in {s} |-> Visible(w, s)]])
     \/ /\ Fillable(w) = {}
        /\ LastSlot(w) < MaxSlot
        /\ Proceed(w, [tx[w] EXCEPT !.step = "insert", !.at = LastSlot(w) + 1])
        /\ UNCHANGED stackLock
  /\ UNCHANGED <<inventoryLock, progressLock>>

RoomUnbounded(item, quantity) == 2 * MaxStack[item]

(* How many more a stack takes.                                            *)
Room(item, quantity) == MaxStack[item] - quantity

Added(w, s, quantity, added) ==
  [tx[w] EXCEPT !.drafts = Drafted(w, s, Holding(tx[w].request.item, quantity + added)),
                !.left = @ - added,
                !.step = IF tx[w].left = added THEN "commit" ELSE "find"]

Lesser(m, n) == IF m < n THEN m ELSE n

IncreaseStack(w) ==
  LET s == tx[w].at
      quantity == tx[w].seen[s].quantity
      added == Lesser(tx[w].left, Room(tx[w].request.item, quantity))
  IN  /\ At(w, {"AddItems", "Buy"}, "increase")
      /\ IF Visible(w, s) = tx[w].seen[s]
           THEN Proceed(w, Added(w, s, quantity, added)) /\ UNCHANGED locks
           ELSE Conflict(w)

InsertStack(w) ==
  LET s == tx[w].at
      added == Lesser(tx[w].left, Room(tx[w].request.item, 0))
  IN  /\ At(w, {"AddItems", "Buy"}, "insert")
      /\ Free(stackLock[s], w)
      /\ IF stacks[s] = NoStack
           THEN /\ stackLock' = [stackLock EXCEPT ![s] = w]
                /\ Proceed(w, Added(w, s, 0, added))
                /\ UNCHANGED <<inventoryLock, progressLock>>
           ELSE Conflict(w)

-----------------------------------------------------------------------------
(* Gold: BuyItem pays before it adds, SellItem and Complete pay out last.  *)

Earns(request) ==
  CASE request.kind = "Buy" -> -BuyPrice[request.item]
    [] request.kind = "Sell" -> SellPrice[request.item]
    [] request.kind = "Complete" -> Reward
    [] request.kind \in {"AddItems", "Consume"} -> 0

AffordableAnyway(request) == TRUE

Affordable(request) == gold + Earns(request) >= 0

MoveGold(w) ==
  /\ At(w, {"Buy", "Sell", "Complete"}, "pay")
  /\ Free(progressLock, w)
  /\ IF Affordable(tx[w].request)
       THEN /\ progressLock' = w
            /\ Proceed(w, [tx[w] EXCEPT !.earned = Earns(tx[w].request),
                             !.step = IF tx[w].request.kind = "Buy" THEN "find" ELSE "commit"])
            /\ UNCHANGED <<inventoryLock, stackLock>>
       ELSE Refuse(w)

-----------------------------------------------------------------------------
(* SellItem. *)

WornUnchecked(s) == FALSE

Worn(s) == \E e \in EquipmentSlots : worn[e] = s

ReadSold(w) ==
  LET s == tx[w].request.slot
  IN  /\ At(w, {"Sell"}, "read")
      /\ Free(stackLock[s], w)
      /\ IF stacks[s].item = tx[w].request.item /\ ~Worn(s)
           THEN /\ stackLock' = [stackLock EXCEPT ![s] = w]
                /\ Proceed(w, [tx[w] EXCEPT !.step = "remove",
                                            !.seen = [r \in {s} |-> stacks[s]]])
                /\ UNCHANGED <<inventoryLock, progressLock>>
           ELSE Refuse(w)

RemoveSold(w) ==
  LET s == tx[w].request.slot
      quantity == tx[w].seen[s].quantity
  IN  /\ At(w, {"Sell"}, "remove")
      /\ IF stacks[s].quantity = quantity
           THEN /\ Proceed(w, [tx[w] EXCEPT !.step = "pay",
                     !.drafts = Drafted(w, s, Holding(stacks[s].item, quantity - 1))])
                /\ UNCHANGED locks
           ELSE Conflict(w)

-----------------------------------------------------------------------------
(* Complete. *)

Needed == {s \in Slots : stacks[s].item = Objective.item}

Quantity(shelf, slots) ==
  SumFunctionOnSet([s \in slots |-> shelf[s].quantity], slots)

ReadQuest(w) ==
  /\ At(w, {"Complete"}, "read")
  /\ \A s \in Needed : Free(stackLock[s], w)
  /\ IF quest = "active" /\ Quantity(stacks, Needed) >= Objective.quantity
       THEN /\ stackLock' = [s \in Slots |-> IF s \in Needed THEN w ELSE stackLock[s]]
            /\ Proceed(w, [tx[w] EXCEPT !.step = "claim",
                                        !.seen = [s \in Needed |-> stacks[s]]])
            /\ UNCHANGED <<inventoryLock, progressLock>>
       ELSE Refuse(w)

(* Stacks are used up from the lowest slot on.                             *)
HandedInWhole(seen, s) ==
  IF Quantity(seen, {r \in DOMAIN seen : r < s}) < Objective.quantity
    THEN seen[s].quantity ELSE 0

HandedIn(seen, s) ==
  LET before == Quantity(seen, {r \in DOMAIN seen : r < s})
  IN  Lesser(seen[s].quantity, Max({0, Objective.quantity - before}))

ClaimQuest(w) ==
  LET seen == tx[w].seen
      used == {s \in DOMAIN seen : HandedIn(seen, s) > 0}
  IN  /\ At(w, {"Complete"}, "claim")
      /\ IF quest # "active" THEN Refuse(w)
         ELSE IF \E s \in used : stacks[s].quantity # seen[s].quantity THEN Conflict(w)
         ELSE /\ Proceed(w, [tx[w] EXCEPT !.step = "pay", !.claims = TRUE,
                   !.drafts = [s \in used |->
                     Holding(Objective.item, seen[s].quantity - HandedIn(seen, s))]])
              /\ UNCHANGED locks

(* Accept is one statement; a quest that is there already stays.           *)
AcceptQuest ==
  /\ quest = "none"
  /\ Cardinality(Busy) < pool
  /\ quest' = "active"
  /\ UNCHANGED <<stacks, worn, gold, locks, tx, calls, books, conflicted>>

-----------------------------------------------------------------------------
(* Endings. *)

Gains(request) ==
  CASE request.kind = "AddItems" -> request.quantity
    [] request.kind = "Buy" -> 1
    [] request.kind \in {"Sell", "Consume"} -> -1
    [] request.kind = "Complete" -> -Objective.quantity

Report(request) ==
  /\ receipt' = [receipt EXCEPT ![request.item] = @ + Gains(request)]
  /\ purse' = purse + Earns(request)

(* Deleting a stack takes it out of the equipment (ON DELETE CASCADE).     *)
StillWorn(shelf) ==
  [e \in EquipmentSlots |->
     IF worn[e] \in Slots /\ shelf[worn[e]] = NoStack THEN 0 ELSE worn[e]]

Commit(w) ==
  LET shelf == [s \in Slots |-> Visible(w, s)]
  IN  /\ At(w, Economic, "commit")
      /\ stacks' = shelf
      /\ worn' = StillWorn(shelf)
      /\ gold' = gold + tx[w].earned
      /\ quest' = IF tx[w].claims THEN "completed" ELSE quest
      /\ Report(tx[w].request)
      /\ tx' = [tx EXCEPT ![w] = Idle]
      /\ Release(w)
      /\ UNCHANGED <<calls, conflicted>>

ReplayOfTheRest(w) ==
  [Opened(tx[w].request, tx[w].attempt + 1) EXCEPT !.left = tx[w].left]

(* The whole transaction again, from its first statement.                  *)
Replay(w) == Opened(tx[w].request, tx[w].attempt + 1)

(* PostgreSQL aborts a transaction with 40001 or 40P01: it is replayed.    *)
Retry(w) ==
  /\ w \in Locking
  /\ tx[w].attempt < Attempts
  /\ tx' = [tx EXCEPT ![w] = Replay(w)]
  /\ Release(w)
  /\ UNCHANGED <<rows, calls, books, conflicted>>

(* Any other failure, a cancelled context or a crash: rolled back.         *)
Rollback(w) == w \in Busy /\ Refuse(w)

-----------------------------------------------------------------------------
(* ConsumeItem, Equip, Unequip: no lock on the inventory. *)

OwnsAnything(w) == stacks[tx[w].request.slot] # NoStack

Owns(w) == stacks[tx[w].request.slot].item = tx[w].request.item

LookAt(w) ==
  LET s == tx[w].request.slot
  IN  /\ At(w, {"Consume", "Equip"}, "look")
      /\ IF Owns(w)
           THEN /\ Proceed(w, [tx[w] EXCEPT !.step = "write",
                                            !.seen = [r \in {s} |-> stacks[s]]])
                /\ UNCHANGED locks
           ELSE Refuse(w)

(* The update of a consumption names the slot only, and nobody counts the  *)
(* rows it changed; a quantity of nothing fails a CHECK.                   *)
ConsumedStack(seen, stack) ==
  IF seen.quantity > 1 /\ stack # NoStack
    THEN Holding(stack.item, stack.quantity - 1)
    ELSE NoStack

ConsumeItem(w) ==
  LET s == tx[w].request.slot
      seen == tx[w].seen[s]
  IN  /\ At(w, {"Consume"}, "write")
      /\ Free(stackLock[s], w)
      /\ IF seen.quantity > 1 /\ stacks[s].quantity = 1 THEN Refuse(w)
         ELSE /\ stacks' = [stacks EXCEPT ![s] = ConsumedStack(seen, @)]
              /\ worn' = StillWorn(stacks')
              /\ Report(tx[w].request)
              /\ tx' = [tx EXCEPT ![w] = Idle]
              /\ UNCHANGED <<gold, quest, locks, calls, conflicted>>

(* The foreign key waits for the stack's row and insists that it is there. *)
Equip(w) ==
  LET s == tx[w].request.slot
      slot == FitsIn[tx[w].request.item]
  IN  /\ At(w, {"Equip"}, "write")
      /\ Free(stackLock[s], w)
      /\ IF stacks[s] = NoStack THEN Refuse(w)
         ELSE /\ worn' = [e \in EquipmentSlots |->
                            IF e = slot THEN s ELSE IF worn[e] = s THEN 0 ELSE worn[e]]
              /\ tx' = [tx EXCEPT ![w] = Idle]
              /\ UNCHANGED <<stacks, gold, quest, locks, calls, books, conflicted>>

Unequip(e) ==
  /\ worn[e] # 0
  /\ Cardinality(Busy) < pool
  /\ worn' = [worn EXCEPT ![e] = 0]
  /\ UNCHANGED <<stacks, gold, quest, locks, tx, calls, books, conflicted>>

-----------------------------------------------------------------------------
Init ==
  /\ pool \in Pools
  /\ stacks = [s \in Slots |-> NoStack]
  /\ worn = [e \in EquipmentSlots |-> 0]
  /\ gold = StartingGold
  /\ quest = "none"
  /\ inventoryLock = Nobody
  /\ progressLock = Nobody
  /\ stackLock = [s \in Slots |-> Nobody]
  /\ tx = [w \in Workers |-> Idle]
  /\ calls = 0
  /\ receipt = [i \in Items |-> 0]
  /\ purse = StartingGold
  /\ conflicted = FALSE

(* What a worker's transaction does when nothing goes wrong.               *)
Advance(w) ==
  \/ LockInventory(w)
  \/ FindStack(w) \/ IncreaseStack(w) \/ InsertStack(w)
  \/ MoveGold(w)
  \/ ReadSold(w) \/ RemoveSold(w)
  \/ ReadQuest(w) \/ ClaimQuest(w)
  \/ LookAt(w) \/ ConsumeItem(w) \/ Equip(w)
  \/ Commit(w)

Next ==
  /\ \/ \E w \in Workers : \/ \E request \in Requests[pool] : Begin(w, request)
                           \/ Advance(w)
                           \/ Retry(w)
                           \/ Rollback(w)
     \/ AcceptQuest
     \/ \E e \in EquipmentSlots : Unequip(e)
  /\ UNCHANGED pool

(* The database answers, and the code goes on to the next statement.       *)
Fairness == \A w \in Workers : WF_vars(Advance(w) /\ UNCHANGED pool)

Spec == Init /\ [][Next]_vars /\ Fairness

-----------------------------------------------------------------------------
(* Properties. *)

(* Rows, locks and transactions hold values of their kind.                 *)
TypeOK ==
  /\ pool \in Pools
  /\ stacks \in [Slots -> Stack]
  /\ worn \in [EquipmentSlots -> Slots \cup {0}]
  /\ gold \in Nat
  /\ quest \in {"none", "active", "completed"}
  /\ {inventoryLock, progressLock} \subseteq Workers \cup {Nobody}
  /\ stackLock \in [Slots -> Workers \cup {Nobody}]
  /\ \A w \in Busy : /\ tx[w].request \in Requests[pool]
                      /\ DOMAIN tx[w].drafts \subseteq Slots
                      /\ tx[w].attempt \in 1 .. Attempts
  /\ conflicted \in BOOLEAN

Total(i) == Quantity(stacks, {s \in Slots : stacks[s].item = i})

(* What is stored is what the callers were told: items and gold are        *)
(* neither lost nor made by calls that overlap, fail half-way or are       *)
(* replayed (the concurrent totals of TestPostgreSQLConcurrentEconomic-    *)
(* Transitions, for every interleaving of every mix of calls).             *)
ResultsAreTrue ==
  /\ \A i \in Items : Total(i) = receipt[i]
  /\ gold = purse

(* No stack outgrows its item's limit, however additions interleave with   *)
(* sales and hand-ins (addItems).                                          *)
StacksFit ==
  \A s \in Slots : stacks[s] # NoStack => stacks[s].quantity <= MaxStack[stacks[s].item]

(* The locks of an economic transaction are enough: it never has to give   *)
(* up because a row is not as it read it (requireOneRow).                  *)
NeverConflicts == ~conflicted

(* A sale never takes an item off the character: what is worn when the     *)
(* sale looks stays sold-proof until it commits (ErrItemEquipped).         *)
SalesLeaveEquipment ==
  [][\A w \in Workers : Commit(w) /\ tx[w].request.kind = "Sell" => worn' = worn]_vars

(* What is worn in an equipment slot fits there: an inventory slot freed   *)
(* and filled again never leaves a wrong item worn (Equip, and the foreign *)
(* key of character_equipment), where one connection serialises the calls. *)
WornFits ==
  pool = 1 =>
    \A e \in EquipmentSlots : worn[e] # 0 => FitsIn[stacks[worn[e]].item] = e

(* No call waits for ever for the rows of others.                          *)
CallsEnd == \A w \in Workers : (tx[w] # Idle) ~> (tx[w] = Idle)

(* All of it implements whole trades, one at a time: no step shows others  *)
(* gold that moved without its item, or a quest paid twice or for less.    *)
Accounts == INSTANCE Ledger WITH
  owned <- [i \in Items |-> Total(i)], purse <- gold

ImplementsLedger == Accounts!Spec
=============================================================================
