--------------------------- MODULE EconomyProofs ---------------------------
(***************************************************************************)
(* Theorems about Economy, for every set of workers, items, prices,        *)
(* requests and every limit of the pool.                                   *)
(*                                                                         *)
(* The argument: whoever has the row of inventories is the only economic   *)
(* transaction that is past its first statement (LocksHeld), so that only  *)
(* ConsumeItem, Equip and Unequip come between its statements, and those   *)
(* wait for the stacks it has locked.  InStage says what a transaction has *)
(* read and drafted at each of its statements, and that the rows it will   *)
(* rely on are still as it read them.                                      *)
(***************************************************************************)
EXTENDS Economy, Sums

-----------------------------------------------------------------------------
(* The inductive invariant. *)

Steps == {"lock", "look", "find", "increase", "insert", "pay", "read", "remove",
          "claim", "write", "commit"}

SomeStacks == UNION {[S -> Stack] : S \in SUBSET Slots}

Transaction ==
  [request : Request, step : Steps, attempt : 1 .. Attempts, left : Nat, at : Slots,
   seen : SomeStacks, drafts : SomeStacks, earned : Int, claims : BOOLEAN]

Typed ==
  /\ pool \in Pools
  /\ stacks \in [Slots -> Stack]
  /\ worn \in [EquipmentSlots -> Slots \cup {0}]
  /\ gold \in Nat
  /\ quest \in {"none", "active", "completed"}
  /\ tx \in [Workers -> Transaction \cup {Idle}]
  /\ \A w \in Busy : tx[w].request \in Requests[pool]
  /\ conflicted \in BOOLEAN

(* Past its first statement, with the row of inventories.                  *)
Holder(w) ==
  /\ tx[w] # Idle
  /\ tx[w].request.kind \in Economic
  /\ tx[w].step # "lock"

LocksHeld ==
  /\ inventoryLock \in Workers \cup {Nobody}
  /\ \A w \in Workers : Holder(w) <=> inventoryLock = w
  /\ progressLock \in {Nobody, inventoryLock}
  /\ stackLock \in [Slots -> {Nobody, inventoryLock}]

Untouched(w) ==
  /\ DOMAIN tx[w].drafts = {}
  /\ tx[w].earned = 0
  /\ tx[w].claims = FALSE
  /\ tx[w].left = tx[w].request.quantity

Paid(w) ==
  /\ tx[w].earned = Earns(tx[w].request)
  /\ gold + tx[w].earned >= 0

Keeps(w, s) == stackLock[s] = w /\ ~Worn(s)

Beginning(w) ==
  /\ tx[w].step = FirstStep(tx[w].request.kind)
  /\ Untouched(w)

Paying(w) ==
  /\ tx[w].request.kind = "Buy" /\ tx[w].step = "pay"
  /\ Untouched(w)

Reading(w) ==
  /\ tx[w].request.kind \in {"Sell", "Complete"} /\ tx[w].step = "read"
  /\ Untouched(w)

(* ConsumeItem and Equip after their first statement.                      *)
Looked(w) ==
  LET s == tx[w].request.slot
  IN  /\ tx[w].request.kind \in {"Consume", "Equip"} /\ tx[w].step = "write"
      /\ Untouched(w)
      /\ DOMAIN tx[w].seen = {s}
      /\ tx[w].seen[s].item = tx[w].request.item
      /\ pool = 1 => tx[w].seen[s] = stacks[s]

Adding(w) ==
  LET item == tx[w].request.item
      at == tx[w].at
  IN  /\ tx[w].request.kind \in {"AddItems", "Buy"}
      /\ tx[w].step \in {"find", "increase", "insert", "commit"}
      /\ tx[w].step = "commit" <=> tx[w].left = 0
      /\ Paid(w)
      /\ tx[w].claims = FALSE
      /\ \A s \in DOMAIN tx[w].drafts :
           /\ stackLock[s] = w
           /\ stacks[s].item \in {NoItem, item}
           /\ tx[w].drafts[s].item = item
           /\ tx[w].drafts[s].quantity <= MaxStack[item]
      /\ tx[w].step = "increase" =>
           /\ stackLock[at] = w
           /\ DOMAIN tx[w].seen = {at}
           /\ tx[w].seen[at] = Visible(w, at)
           /\ tx[w].seen[at].item = item
           /\ tx[w].seen[at].quantity < MaxStack[item]
      /\ tx[w].step = "insert" =>
           /\ at \notin DOMAIN tx[w].drafts
           /\ stacks[at] = NoStack

Removing(w) ==
  LET s == tx[w].request.slot
  IN  /\ tx[w].request.kind = "Sell" /\ tx[w].step = "remove"
      /\ Untouched(w)
      /\ Keeps(w, s)
      /\ stacks[s].item = tx[w].request.item
      /\ DOMAIN tx[w].seen = {s} /\ tx[w].seen[s] = stacks[s]

Removed(w) ==
  LET s == tx[w].request.slot
  IN  /\ tx[w].request.kind = "Sell" /\ tx[w].step \in {"pay", "commit"}
      /\ tx[w].claims = FALSE
      /\ Keeps(w, s)
      /\ stacks[s].item = tx[w].request.item
      /\ DOMAIN tx[w].drafts = {s}
      /\ tx[w].drafts[s] = Holding(stacks[s].item, stacks[s].quantity - 1)
      /\ tx[w].step = "commit" => Paid(w)

(* Complete has read and locked the stacks it needs.                       *)
HasRead(w) ==
  /\ tx[w].request.kind = "Complete"
  /\ quest = "active"
  /\ DOMAIN tx[w].seen = Needed
  /\ \A s \in Needed : stackLock[s] = w /\ tx[w].seen[s] = stacks[s]
  /\ Quantity(stacks, Needed) >= Objective.quantity

Claiming(w) ==
  /\ tx[w].step = "claim"
  /\ HasRead(w)
  /\ Untouched(w)

Claimed(w) ==
  LET seen == tx[w].seen
  IN  /\ tx[w].step \in {"pay", "commit"}
      /\ HasRead(w)
      /\ tx[w].claims = TRUE
      /\ DOMAIN tx[w].drafts = {s \in DOMAIN seen : HandedIn(seen, s) > 0}
      /\ \A s \in DOMAIN tx[w].drafts :
           tx[w].drafts[s] = Holding(Objective.item, seen[s].quantity - HandedIn(seen, s))
      /\ tx[w].step = "commit" => Paid(w)

InStage(w) ==
  \/ Beginning(w) \/ Looked(w)
  \/ Paying(w) \/ Adding(w)
  \/ Reading(w) \/ Removing(w) \/ Removed(w)
  \/ Claiming(w) \/ Claimed(w)

(* The foreign key of character_equipment.                                 *)
WornIsStored == \A e \in EquipmentSlots : worn[e] # 0 => stacks[worn[e]] # NoStack

IInv ==
  /\ Typed
  /\ LocksHeld
  /\ \A w \in Busy : InStage(w)
  /\ Cardinality(Busy) <= pool
  /\ WornIsStored
  /\ StacksFit
  /\ WornFits
  /\ NeverConflicts

-----------------------------------------------------------------------------
(* Stacks, requests and transactions. *)

LEMMA StackFacts ==
  /\ NoStack \in Stack /\ NoStack.item = NoItem /\ NoStack.quantity = 0
  /\ \A stack \in Stack :
       /\ stack.quantity \in Nat
       /\ stack = NoStack <=> stack.item = NoItem
       /\ stack = NoStack <=> stack.quantity = 0
       /\ stack # NoStack => stack.item \in Items
BY CallsAssumption DEF Stack, NoStack

LEMMA HoldingFacts ==
  ASSUME NEW i \in Items, NEW q \in Nat
  PROVE  /\ Holding(i, q) \in Stack
         /\ Holding(i, q).quantity = q
         /\ q > 0 => Holding(i, q).item = i
         /\ Holding(i, q).item \in {i, NoItem}
BY CallsAssumption DEF Holding, Stack, NoStack

LEMMA RequestFacts ==
  ASSUME NEW n \in Pools, NEW r \in Requests[n]
  PROVE  /\ r \in Request
         /\ r.kind # "AddItems" => r.quantity = 1
         /\ r.kind = "Complete" => r.item = Objective.item
         /\ r.kind = "Equip" => FitsIn[r.item] # NoItem
BY CallsAssumption

LEMMA EarnsType ==
  ASSUME NEW r \in Request, r.kind # "Equip"
  PROVE  Earns(r) \in Int
<1>1. BuyPrice[r.item] \in Nat /\ SellPrice[r.item] \in Nat /\ Reward \in Nat
  BY DefinitionsAssumption DEF Request
<1>2. r.kind \in Kinds
  BY DEF Request
<1> QED BY <1>1, <1>2 DEF Earns, Kinds

LEMMA NotIdle ==
  /\ \A t \in Transaction : t # Idle
  /\ Idle.step = "idle"
BY DEF Transaction, Steps, Idle

LEMMA NoDrafts ==
  /\ [s \in {} |-> NoStack] \in SomeStacks
  /\ DOMAIN [s \in {} |-> NoStack] = {}
<1>1. [s \in {} |-> NoStack] \in [{} -> Stack]
  OBVIOUS
<1>2. {} \in SUBSET Slots
  OBVIOUS
<1> QED BY <1>1, <1>2 DEF SomeStacks

LEMMA SomeStacksFacts ==
  /\ \A S \in SUBSET Slots : [S -> Stack] \subseteq SomeStacks
  /\ \A f \in SomeStacks : /\ DOMAIN f \subseteq Slots
                           /\ f = [s \in DOMAIN f |-> f[s]]
                           /\ \A s \in DOMAIN f : f[s] \in Stack
BY DEF SomeStacks

LEMMA OpenedType ==
  ASSUME NEW r \in Request, NEW a \in 1 .. Attempts
  PROVE  Opened(r, a) \in Transaction
<1>1. FirstStep(r.kind) \in Steps
  BY DEF FirstStep, Steps
<1>2. r.slot \in Slots /\ r.quantity \in Nat
  BY DEF Request
<1> QED BY <1>1, <1>2, NoDrafts DEF Opened, Transaction

(* What a busy worker's transaction is.                                    *)
LEMMA BusyFacts ==
  ASSUME Typed, NEW w \in Workers
  PROVE  /\ w \in Busy <=> tx[w] # Idle
         /\ w \in Busy <=> tx[w] \in Transaction
         /\ w \in Busy =>
              /\ tx[w].request \in Request /\ tx[w].request \in Requests[pool]
              /\ tx[w].step \in Steps
              /\ tx[w].seen \in SomeStacks /\ tx[w].drafts \in SomeStacks
              /\ tx[w].left \in Nat /\ tx[w].at \in Slots /\ tx[w].earned \in Int
<1>1. tx[w] \in Transaction \cup {Idle}
  BY DEF Typed
<1>2. w \in Busy <=> tx[w] # Idle
  BY DEF Busy
<1>3. w \in Busy <=> tx[w] \in Transaction
  BY <1>1, <1>2, NotIdle
<1>4. w \in Busy => tx[w].request \in Requests[pool]
  BY DEF Typed
<1> QED BY <1>2, <1>3, <1>4 DEF Transaction

(* One economic transaction at a time is past its first statement, and     *)
(* only it has locks.                                                      *)
LEMMA OneHolder ==
  ASSUME LocksHeld, NEW w \in Workers, Holder(w), NEW v \in Workers
  PROVE  /\ inventoryLock = w
         /\ Holder(v) => v = w
         /\ v # w => \A s \in Slots : stackLock[s] # v
         /\ v # w => progressLock # v
BY CallsAssumption DEF LocksHeld

(* Only holders have locks, and nobody has one without the inventory's.    *)
LEMMA OnlyHolders ==
  ASSUME LocksHeld, NEW w \in Workers
  PROVE  /\ \A s \in Slots : stackLock[s] = w => Holder(w)
         /\ progressLock = w => Holder(w)
BY CallsAssumption DEF LocksHeld

-----------------------------------------------------------------------------
(* What others do, and what stays as it was. *)

(* What the stage of v rests on: its own rows, and what nobody changes     *)
(* while v has the inventory.                                              *)
Spared(v) ==
  /\ tx'[v] = tx[v] /\ pool' = pool
  /\ \A s \in Slots : stackLock[s] = v => /\ stackLock'[s] = v
                                          /\ stacks'[s] = stacks[s]
                                          /\ Worn(s)' => Worn(s)
  /\ Holder(v) => \A s \in Slots : stacks'[s].item \in {stacks[s].item, NoItem}
  /\ stacks' \in [Slots -> Stack]
  /\ Holder(v) => gold' = gold
  /\ Holder(v) /\ quest = "active" => quest' = "active"
  /\ pool = 1 => stacks' = stacks

LEMMA StaysClaiming ==
  ASSUME Typed, NEW v \in Busy, HasRead(v), Spared(v), Holder(v)
  PROVE  HasRead(v)'
<1>1. \A s \in Needed : stackLock[s] = v
  BY DEF HasRead
<1>2. Needed' = Needed
  <2>1. \A s \in Slots : s \in Needed => stacks'[s] = stacks[s]
    BY <1>1 DEF Spared
  <2>2. Objective.item # NoItem
    BY DefinitionsAssumption, CallsAssumption
  <2>3. \A s \in Slots : s \notin Needed => stacks'[s].item # Objective.item
    BY <2>2 DEF Spared, Needed
  <2> QED BY <2>1, <2>3 DEF Needed
<1>3. \A s \in Needed : stackLock'[s] = v /\ stacks'[s] = stacks[s]
  BY <1>1 DEF Spared, Needed
<1>4. Quantity(stacks, Needed)' = Quantity(stacks, Needed)
  <2>1. [s \in Needed |-> stacks'[s].quantity] = [s \in Needed |-> stacks[s].quantity]
    BY <1>3
  <2>2. Quantity(stacks, Needed)' = Quantity(stacks', Needed')
    BY DEF Quantity
  <2> QED BY <1>2, <2>1, <2>2 DEF Quantity
<1>5. quest' = "active" /\ tx'[v] = tx[v]
  BY DEF HasRead, Spared
<1> QED BY <1>2, <1>3, <1>4, <1>5 DEF HasRead

LEMMA StaysInStage ==
  ASSUME Typed, NEW v \in Busy, InStage(v), Spared(v)
  PROVE  InStage(v)'
<1> DEFINE t == tx[v]
<1>0. /\ tx'[v] = t /\ pool' = pool
      /\ t.request \in Request /\ t.at \in Slots /\ DOMAIN t.drafts \subseteq Slots
      /\ t.request.slot \in Slots /\ t # Idle
  BY BusyFacts, SomeStacksFacts DEF Spared, Busy, Request
<1>1. CASE Beginning(v)
  BY <1>0, <1>1 DEF Beginning, Untouched, InStage
<1>2. CASE Looked(v)
  <2>1. pool = 1 => stacks' = stacks
    BY DEF Spared
  <2> QED BY <1>0, <1>2, <2>1 DEF Looked, Untouched, InStage
<1>3. CASE Paying(v)
  BY <1>0, <1>3 DEF Paying, Untouched, InStage
<1>4. CASE Adding(v)
  <2>0. Holder(v)
    BY <1>0, <1>4 DEF Adding, Holder, Economic
  <2>1. gold' = gold
    BY <2>0 DEF Spared
  <2>2. \A s \in DOMAIN t.drafts : stackLock'[s] = v /\ stacks'[s] = stacks[s]
    BY <1>0, <1>4 DEF Adding, Spared
  <2>3. t.step = "increase" => stackLock'[t.at] = v /\ Visible(v, t.at)' = Visible(v, t.at)
    BY <1>0, <1>4 DEF Adding, Spared, Visible
  <2>4. t.step = "insert" => stacks'[t.at] = NoStack
    <3>1. t.step = "insert" => stacks[t.at].item = NoItem
      BY <1>4, StackFacts DEF Adding
    <3>2. t.step = "insert" => stacks'[t.at].item = NoItem /\ stacks'[t.at] \in Stack
      BY <1>0, <2>0, <3>1 DEF Spared
    <3> QED BY <3>2, StackFacts
  <2>5. Paid(v)'
    BY <1>0, <1>4, <2>1 DEF Adding, Paid
  <2>6. Adding(v)'
    BY <1>0, <1>4, <2>2, <2>3, <2>4, <2>5 DEF Adding
  <2> QED BY <2>6 DEF InStage
<1>5. CASE Reading(v)
  BY <1>0, <1>5 DEF Reading, Untouched, InStage
<1>6. CASE Removing(v)
  <2> DEFINE s == t.request.slot
  <2>1. stackLock'[s] = v /\ stacks'[s] = stacks[s] /\ ~Worn(s)'
    BY <1>0, <1>6 DEF Removing, Keeps, Spared
  <2>2. Keeps(v, s)'
    BY <1>0, <2>1 DEF Keeps, Worn
  <2> QED BY <1>0, <1>6, <2>1, <2>2 DEF Removing, Untouched, InStage
<1>7. CASE Removed(v)
  <2> DEFINE s == t.request.slot
  <2>1. stackLock'[s] = v /\ stacks'[s] = stacks[s] /\ ~Worn(s)'
    BY <1>0, <1>7 DEF Removed, Keeps, Spared
  <2>2. Keeps(v, s)'
    BY <1>0, <2>1 DEF Keeps, Worn
  <2>3. gold' = gold
    <3>1. Holder(v)
      BY <1>0, <1>7 DEF Removed, Holder, Economic
    <3> QED BY <3>1 DEF Spared
  <2>4. Paid(v) => Paid(v)'
    BY <1>0, <2>3 DEF Paid
  <2> QED BY <1>0, <1>7, <2>1, <2>2, <2>4 DEF Removed, InStage
<1>8. CASE Claiming(v)
  <2>1. Holder(v)
    BY <1>0, <1>8 DEF Claiming, HasRead, Holder, Economic
  <2>2. HasRead(v)'
    BY <1>8, <2>1, StaysClaiming DEF Claiming
  <2> QED BY <1>0, <1>8, <2>2 DEF Claiming, Untouched, InStage
<1>9. CASE Claimed(v)
  <2>1. Holder(v)
    BY <1>0, <1>9 DEF Claimed, HasRead, Holder, Economic
  <2>2. HasRead(v)'
    BY <1>9, <2>1, StaysClaiming DEF Claimed
  <2>3. Paid(v) => Paid(v)'
    BY <1>0, <2>1 DEF Paid, Spared
  <2> QED BY <1>0, <1>9, <2>2, <2>3 DEF Claimed, InStage
<1> QED BY <1>1, <1>2, <1>3, <1>4, <1>5, <1>6, <1>7, <1>8, <1>9 DEF InStage

-----------------------------------------------------------------------------
(* The shape of every step: w acts, the others are spared.                 *)
LEMMA OneActs ==
  ASSUME IInv, NEW w \in Workers,
         Typed', LocksHeld', Cardinality(Busy)' <= pool',
         \A v \in Workers \ {w} : tx'[v] = tx[v],
         \A v \in Busy \ {w} : Spared(v),
         tx'[w] # Idle => InStage(w)',
         WornIsStored', StacksFit', WornFits', conflicted' = conflicted
  PROVE  IInv'
<1>1. ASSUME NEW v \in Workers, v \in Busy' PROVE InStage(v)'
  <2>1. CASE v = w
    <3>1. tx'[w] # Idle
      BY <1>1, <2>1 DEF Busy
    <3> QED BY <2>1, <3>1
  <2>2. CASE v # w
    <3>1. v \in Busy
      BY <1>1, <2>2 DEF Busy
    <3> QED BY <2>2, <3>1, StaysInStage DEF IInv
  <2> QED BY <2>1, <2>2
<1>2. \A v \in Busy' : InStage(v)'
  BY <1>1 DEF Busy
<1> QED BY <1>2 DEF IInv, NeverConflicts

(* Nothing but transactions and locks changes.                             *)
LEMMA RowsStay ==
  ASSUME IInv, UNCHANGED <<pool, rows>>
  PROVE  WornIsStored' /\ StacksFit' /\ WornFits'
BY DEF IInv, WornIsStored, StacksFit, WornFits, rows

LEMMA RowsSpare ==
  ASSUME IInv, UNCHANGED <<pool, rows>>, NEW v \in Busy, tx'[v] = tx[v],
         \A s \in Slots : stackLock[s] = v => stackLock'[s] = v
  PROVE  Spared(v)
<1>1. \A s \in Slots : Worn(s)' <=> Worn(s)
  BY DEF rows, Worn
<1>2. stacks \in [Slots -> Stack]
  BY DEF IInv, Typed
<1> QED BY <1>1, <1>2 DEF rows, Spared

LEMMA BusyIsFinite ==
  /\ IsFiniteSet(Busy)
  /\ Cardinality(Busy) \in Nat
<1>1. Busy \subseteq Workers
  BY DEF Busy
<1> QED BY <1>1, CallsAssumption, FS_Subset, FS_CardinalityType

(* The step of a transaction that goes on.                                 *)
LEMMA GoesOn ==
  ASSUME IInv, NEW w \in Busy, NEW t \in Transaction, Proceed(w, t), pool' = pool,
         t.request = tx[w].request, LocksHeld',
         \A v \in Workers \ {w} : \A s \in Slots : stackLock[s] = v => stackLock'[s] = v,
         InStage(w)'
  PROVE  IInv'
<1>0. w \in Workers /\ tx \in [Workers -> Transaction \cup {Idle}]
  BY DEF Busy, IInv, Typed
<1>1. /\ tx' = [tx EXCEPT ![w] = t]
      /\ UNCHANGED <<pool, rows>> /\ conflicted' = conflicted
  BY DEF Proceed
<1>2. t # Idle /\ tx[w] # Idle
  BY NotIdle DEF Busy
<1>3. tx'[w] = t /\ \A v \in Workers \ {w} : tx'[v] = tx[v]
  BY <1>0, <1>1
<1>4. Busy' = Busy
  BY <1>0, <1>2, <1>3 DEF Busy
<1>5. Typed'
  <2>1. tx' \in [Workers -> Transaction \cup {Idle}]
    BY <1>0, <1>1
  <2>2. \A v \in Busy' : tx'[v].request \in Requests[pool]
    BY <1>3, <1>4 DEF IInv, Typed, Busy
  <2> QED BY <1>1, <2>1, <2>2 DEF IInv, Typed, rows
<1>6. \A v \in Busy \ {w} : Spared(v)
  BY <1>1, <1>3, RowsSpare DEF Busy
<1>7. Cardinality(Busy)' <= pool'
  BY <1>1, <1>4 DEF IInv
<1> QED BY <1>0, <1>1, <1>3, <1>5, <1>6, <1>7, OneActs, RowsStay

(* Locks given back leave those of others.                                 *)
LEMMA ReleaseFacts ==
  ASSUME LocksHeld, NEW w \in Workers, Release(w), ~Holder(w)',
         \A v \in Workers \ {w} : tx'[v] = tx[v]
  PROVE  /\ LocksHeld'
         /\ \A v \in Workers \ {w} : \A s \in Slots : stackLock[s] = v => stackLock'[s] = v
<1>0. Nobody \notin Workers /\ \A v \in Workers \ {w} : Holder(v)' <=> Holder(v)
  BY CallsAssumption DEF Holder
<1>1. CASE inventoryLock = w
  <2>1. /\ inventoryLock' = Nobody /\ progressLock' = Nobody
        /\ stackLock' \in [Slots -> {Nobody}]
    BY <1>1 DEF LocksHeld, Release, Released
  <2>2. \A v \in Workers \ {w} : \A s \in Slots : stackLock[s] # v
    BY <1>0, <1>1 DEF LocksHeld
  <2>3. \A v \in Workers : ~Holder(v)'
    BY <1>0, <1>1 DEF LocksHeld
  <2> QED BY <1>0, <2>1, <2>2, <2>3 DEF LocksHeld
<1>2. CASE inventoryLock # w
  <2>1. /\ inventoryLock' = inventoryLock /\ progressLock' = progressLock
        /\ stackLock' = [s \in Slots |-> stackLock[s]]
    BY <1>0, <1>2 DEF LocksHeld, Release, Released
  <2>2. stackLock' = stackLock
    BY <2>1 DEF LocksHeld
  <2>3. \A v \in Workers : Holder(v)' <=> Holder(v)
    BY <1>0, <1>2 DEF LocksHeld
  <2> QED BY <2>1, <2>2, <2>3 DEF LocksHeld
<1> QED BY <1>1, <1>2

-----------------------------------------------------------------------------
(* One lemma for each action. *)

(* A transaction that ends: nothing is left of it but what it wrote.       *)
LEMMA Ends ==
  ASSUME IInv, NEW w \in Busy, tx' = [tx EXCEPT ![w] = Idle], pool' = pool
  PROVE  /\ tx'[w] = Idle /\ ~Holder(w)'
         /\ \A v \in Workers \ {w} : tx'[v] = tx[v]
         /\ tx' \in [Workers -> Transaction \cup {Idle}]
         /\ \A v \in Busy' : tx'[v].request \in Requests[pool']
         /\ Cardinality(Busy)' <= pool'
<1>0. w \in Workers /\ tx \in [Workers -> Transaction \cup {Idle}]
  BY DEF Busy, IInv, Typed
<1>1. tx'[w] = Idle /\ \A v \in Workers \ {w} : tx'[v] = tx[v]
  BY <1>0
<1>2. Busy' \subseteq Busy /\ w \notin Busy'
  BY <1>1 DEF Busy
<1>3. Cardinality(Busy') \in Nat /\ Cardinality(Busy') <= Cardinality(Busy)
  BY <1>2, BusyIsFinite, FS_Subset, FS_CardinalityType
<1>4. Cardinality(Busy') <= pool'
  <2>1. Cardinality(Busy) <= pool /\ pool \in Nat /\ Cardinality(Busy) \in Nat
    BY BusyIsFinite, CallsAssumption DEF IInv, Typed
  <2> QED BY <1>3, <2>1
<1>5. \A v \in Busy' : tx'[v].request \in Requests[pool']
  BY <1>1, <1>2 DEF IInv, Typed, Busy
<1>6. ~Holder(w)'
  BY <1>1 DEF Holder
<1> QED BY <1>0, <1>1, <1>4, <1>5, <1>6

LEMMA GivesUp ==
  ASSUME IInv, NEW w \in Busy, GiveUp(w), conflicted' = conflicted, pool' = pool
  PROVE  IInv'
<1>0. w \in Workers
  BY DEF Busy
<1>1. /\ tx' = [tx EXCEPT ![w] = Idle] /\ Release(w)
      /\ UNCHANGED <<pool, rows>>
  BY DEF GiveUp
<1>2. /\ LocksHeld'
      /\ \A v \in Workers \ {w} : \A s \in Slots : stackLock[s] = v => stackLock'[s] = v
  BY <1>0, <1>1, Ends, ReleaseFacts DEF IInv
<1>3. Typed'
  BY <1>1, Ends DEF IInv, Typed, rows
<1>4. \A v \in Busy \ {w} : Spared(v)
  BY <1>0, <1>1, <1>2, Ends, RowsSpare DEF Busy
<1> QED BY <1>0, <1>1, <1>2, <1>3, <1>4, Ends, OneActs, RowsStay

(* A transaction that starts, for the first time or again.                 *)
LEMMA Starts ==
  ASSUME IInv, NEW w \in Workers, NEW r \in Requests[pool], NEW a \in 1 .. Attempts,
         tx' = [tx EXCEPT ![w] = Opened(r, a)],
         UNCHANGED <<pool, rows>>, conflicted' = conflicted,
         LocksHeld', \A v \in Workers \ {w} : \A s \in Slots : stackLock[s] = v => stackLock'[s] = v,
         Cardinality(Busy)' <= pool'
  PROVE  IInv'
<1>0. pool \in Pools /\ r \in Request
  BY RequestFacts DEF IInv, Typed
<1>1. Opened(r, a) \in Transaction
  BY <1>0, OpenedType
<1>2. tx \in [Workers -> Transaction \cup {Idle}]
  BY DEF IInv, Typed
<1>3. tx'[w] = Opened(r, a) /\ \A v \in Workers \ {w} : tx'[v] = tx[v]
  BY <1>2
<1>4. Beginning(w)'
  <2>1. /\ tx'[w].request = r /\ tx'[w].step = FirstStep(r.kind) /\ DOMAIN tx'[w].drafts = {}
        /\ tx'[w].earned = 0 /\ tx'[w].claims = FALSE /\ tx'[w].left = r.quantity
    BY <1>3 DEF Opened
  <2> QED BY <2>1 DEF Beginning, Untouched
<1>5. Typed'
  <2>1. tx' \in [Workers -> Transaction \cup {Idle}]
    BY <1>1, <1>2
  <2>2. \A v \in Busy' : tx'[v].request \in Requests[pool]
    <3>1. tx'[w].request \in Requests[pool]
      <4>1. Opened(r, a).request = r
        BY DEF Opened
      <4> QED BY <1>3, <4>1
    <3>2. \A v \in Busy' : v # w => v \in Busy /\ tx'[v] = tx[v]
      BY <1>3 DEF Busy
    <3> QED BY <3>1, <3>2 DEF IInv, Typed
  <2> QED BY <2>1, <2>2 DEF IInv, Typed, rows
<1>6. \A v \in Busy \ {w} : Spared(v)
  BY <1>3, RowsSpare DEF Busy
<1> QED BY <1>3, <1>4, <1>5, <1>6, OneActs, RowsStay DEF InStage

LEMMA BeginStep ==
  ASSUME IInv, NEW w \in Workers, NEW r \in Requests[pool], Begin(w, r), pool' = pool
  PROVE  IInv'
<1>0. pool \in Pools /\ r \in Request /\ 1 \in 1 .. Attempts /\ pool \in Nat
  <2>1. pool \in Pools /\ r \in Request
    BY RequestFacts DEF IInv, Typed
  <2>2. pool \in Nat /\ Attempts \in Nat \ {0}
    BY <2>1, CallsAssumption
  <2> QED BY <2>1, <2>2
<1>1. /\ tx[w] = Idle /\ tx' = [tx EXCEPT ![w] = Opened(r, 1)]
      /\ UNCHANGED <<pool, rows>> /\ conflicted' = conflicted /\ UNCHANGED locks
      /\ Cardinality(Busy) < pool
  BY DEF Begin
<1>2. tx \in [Workers -> Transaction \cup {Idle}]
  BY DEF IInv, Typed
<1>3. tx'[w] = Opened(r, 1) /\ \A v \in Workers \ {w} : tx'[v] = tx[v]
  BY <1>1, <1>2
<1>4. tx'[w].request = r /\ tx'[w].step = FirstStep(r.kind) /\ tx'[w] # Idle
  <2>1. Opened(r, 1) \in Transaction
    BY <1>0, OpenedType
  <2>2. Opened(r, 1).request = r /\ Opened(r, 1).step = FirstStep(r.kind)
    BY DEF Opened
  <2> QED BY <1>3, <2>1, <2>2, NotIdle
<1>5. \A v \in Workers : Holder(v)' <=> Holder(v)
  <2>1. ~Holder(w) /\ ~Holder(w)'
    BY <1>1, <1>4 DEF Holder, FirstStep
  <2> QED BY <1>3, <2>1 DEF Holder
<1>6. LocksHeld'
  BY <1>1, <1>5 DEF IInv, LocksHeld, locks
<1>7. Cardinality(Busy)' <= pool'
  <2>1. Busy' = Busy \cup {w} /\ w \notin Busy
    BY <1>1, <1>3, <1>4 DEF Busy
  <2>2. Cardinality(Busy') = Cardinality(Busy) + 1
    BY <2>1, BusyIsFinite, FS_AddElement
  <2> QED BY <1>0, <1>1, <2>2, BusyIsFinite
<1>8. \A v \in Workers \ {w} : \A s \in Slots : stackLock[s] = v => stackLock'[s] = v
  BY <1>1 DEF locks
<1> QED BY <1>0, <1>1, <1>6, <1>7, <1>8, Starts

LEMMA RetryStep ==
  ASSUME IInv, NEW w \in Workers, Retry(w), pool' = pool
  PROVE  IInv'
<1> DEFINE r == tx[w].request
           a == tx[w].attempt + 1
<1>0. /\ w \in Busy /\ r.kind \in Economic
      /\ tx[w].attempt < Attempts
      /\ tx' = [tx EXCEPT ![w] = Opened(r, a)]
      /\ Release(w) /\ UNCHANGED <<pool, rows>> /\ conflicted' = conflicted
  BY DEF Retry, Locking, Replay
<1>1. a \in 1 .. Attempts
  <2>1. tx[w] \in Transaction
    BY <1>0, BusyFacts DEF IInv
  <2>2. tx[w].attempt \in 1 .. Attempts
    BY <2>1 DEF Transaction
  <2>3. Attempts \in Nat
    BY CallsAssumption
  <2> QED BY <1>0, <2>2, <2>3
<1>2. r \in Requests[pool] /\ r \in Request
  BY <1>0, BusyFacts DEF IInv
<1>3. tx \in [Workers -> Transaction \cup {Idle}]
  BY DEF IInv, Typed
<1>4. tx'[w] = Opened(r, a) /\ \A v \in Workers \ {w} : tx'[v] = tx[v]
  BY <1>0, <1>3
<1>5. tx'[w].request = r /\ tx'[w].step = FirstStep(r.kind) /\ tx'[w] # Idle
  <2>1. Opened(r, a) \in Transaction
    BY <1>1, <1>2, OpenedType
  <2>2. Opened(r, a).request = r /\ Opened(r, a).step = FirstStep(r.kind)
    BY DEF Opened
  <2> HIDE DEF r, a
  <2> QED BY <1>4, <2>1, <2>2, NotIdle
<1>6. ~Holder(w)'
  BY <1>0, <1>5 DEF Holder, FirstStep
<1>7. /\ LocksHeld'
      /\ \A v \in Workers \ {w} : \A s \in Slots : stackLock[s] = v => stackLock'[s] = v
  BY <1>0, <1>4, <1>6, ReleaseFacts DEF IInv
<1>8. Cardinality(Busy)' <= pool'
  <2>1. Busy' = Busy
    BY <1>0, <1>4, <1>5 DEF Busy
  <2> QED BY <1>0, <2>1 DEF IInv
<1> QED BY <1>0, <1>1, <1>2, <1>7, <1>8, Starts

(* The stage that follows from the kind and the step.                      *)
LEMMA StageOf ==
  ASSUME NEW w, InStage(w)
  PROVE  LET kind == tx[w].request.kind
             step == tx[w].step
         IN  /\ step \in {"lock", "look"} => Beginning(w)
             /\ step = "write" => Looked(w)
             /\ step \in {"find", "increase", "insert"} => Adding(w)
             /\ kind \in {"AddItems", "Buy"} /\ step = "commit" => Adding(w)
             /\ kind = "Buy" /\ step = "pay" => Paying(w)
             /\ step = "read" => Reading(w)
             /\ step = "remove" => Removing(w)
             /\ kind = "Sell" /\ step \in {"pay", "commit"} => Removed(w)
             /\ step = "claim" => Claiming(w)
             /\ kind = "Complete" /\ step \in {"pay", "commit"} => Claimed(w)
<1> DEFINE kind == tx[w].request.kind
           step == tx[w].step
<1>1. Beginning(w) => step \in {"lock", "look"}
  BY DEF Beginning, FirstStep
<1>2. Looked(w) => step = "write" /\ kind \in {"Consume", "Equip"}
  BY DEF Looked
<1>3. Paying(w) => step = "pay" /\ kind = "Buy"
  BY DEF Paying
<1>4. Adding(w) => step \in {"find", "increase", "insert", "commit"} /\ kind \in {"AddItems", "Buy"}
  BY DEF Adding
<1>5. Reading(w) => step = "read"
  BY DEF Reading
<1>6. Removing(w) => step = "remove"
  BY DEF Removing
<1>7. Removed(w) => step \in {"pay", "commit"} /\ kind = "Sell"
  BY DEF Removed
<1>8. Claiming(w) => step = "claim"
  BY DEF Claiming
<1>9. Claimed(w) => step \in {"pay", "commit"} /\ kind = "Complete"
  BY DEF Claimed, HasRead
<1> HIDE DEF kind, step
<1>10. /\ step \in {"lock", "look"} => Beginning(w)
       /\ step = "write" => Looked(w)
       /\ step \in {"find", "increase", "insert"} => Adding(w)
       /\ kind \in {"AddItems", "Buy"} /\ step = "commit" => Adding(w)
       /\ kind = "Buy" /\ step = "pay" => Paying(w)
       /\ step = "read" => Reading(w)
       /\ step = "remove" => Removing(w)
       /\ kind = "Sell" /\ step \in {"pay", "commit"} => Removed(w)
       /\ step = "claim" => Claiming(w)
       /\ kind = "Complete" /\ step \in {"pay", "commit"} => Claimed(w)
  BY <1>1, <1>2, <1>3, <1>4, <1>5, <1>6, <1>7, <1>8, <1>9 DEF InStage
<1> QED BY <1>10 DEF kind, step

(* A holder locks more rows.                                               *)
LEMMA HolderLocks ==
  ASSUME LocksHeld, NEW w \in Workers, Holder(w), Holder(w)',
         \A v \in Workers \ {w} : tx'[v] = tx[v],
         inventoryLock' = inventoryLock, progressLock' \in {progressLock, w},
         DOMAIN stackLock' = Slots, stackLock' = [s \in Slots |-> stackLock'[s]],
         \A s \in Slots : stackLock'[s] \in {stackLock[s], w}
  PROVE  /\ LocksHeld'
         /\ \A v \in Workers \ {w} : \A s \in Slots : stackLock[s] = v => stackLock'[s] = v
<1>0. Nobody \notin Workers /\ \A v \in Workers \ {w} : Holder(v)' <=> Holder(v)
  BY CallsAssumption DEF Holder
<1>1. inventoryLock = w /\ progressLock \in {Nobody, w} /\ stackLock \in [Slots -> {Nobody, w}]
  BY DEF LocksHeld
<1>2. \A v \in Workers : Holder(v)' <=> inventoryLock' = v
  BY <1>0, <1>1 DEF LocksHeld
<1>3. stackLock' \in [Slots -> {Nobody, w}]
  <2>1. \A s \in Slots : stackLock'[s] \in {Nobody, w}
    BY <1>1
  <2> QED BY <2>1
<1> QED BY <1>0, <1>1, <1>2, <1>3 DEF LocksHeld

LEMMA LockStep ==
  ASSUME IInv, NEW w \in Workers, LockInventory(w), pool' = pool
  PROVE  IInv'
<1> DEFINE r == tx[w].request
           t == [tx[w] EXCEPT !.step = AfterLock(r.kind)]
<1>0. /\ w \in Busy /\ r.kind \in Economic /\ tx[w].step = "lock"
      /\ Free(inventoryLock, w) /\ inventoryLock' = w
      /\ progressLock' = progressLock /\ stackLock' = stackLock
      /\ Proceed(w, t) /\ tx' = [tx EXCEPT ![w] = t] /\ UNCHANGED rows
  BY DEF LockInventory, At, MayLock, Proceed
<1>1. tx[w] \in Transaction /\ tx \in [Workers -> Transaction \cup {Idle}] /\ r \in Request
  BY <1>0, BusyFacts DEF IInv, Typed
<1>2. AfterLock(r.kind) \in Steps \ {"lock"}
  BY <1>0 DEF AfterLock, Economic, Steps
<1>3. t \in Transaction /\ t.request = r /\ t.step = AfterLock(r.kind)
  BY <1>1, <1>2 DEF Transaction
<1>4. tx'[w] = t /\ \A v \in Workers \ {w} : tx'[v] = tx[v]
  BY <1>0, <1>1
<1>5. ~Holder(w) /\ Holder(w)' /\ \A v \in Workers \ {w} : Holder(v)' <=> Holder(v)
  <2>1. Holder(w)'
    BY <1>0, <1>2, <1>3, <1>4, NotIdle DEF Holder
  <2> QED BY <1>0, <1>4, <2>1 DEF Holder
<1>6. inventoryLock = Nobody /\ Nobody \notin Workers
  BY <1>0, <1>5, CallsAssumption DEF IInv, LocksHeld, Free
<1>7. LocksHeld'
  <2>1. \A v \in Workers : Holder(v)' <=> inventoryLock' = v
    BY <1>0, <1>5, <1>6 DEF IInv, LocksHeld
  <2>2. progressLock = Nobody /\ stackLock \in [Slots -> {Nobody}]
    BY <1>6 DEF IInv, LocksHeld
  <2> QED BY <1>0, <2>1, <2>2 DEF LocksHeld
<1>8. InStage(w)'
  <2>0. InStage(w)
    BY <1>0 DEF IInv
  <2>1. Untouched(w) /\ t.drafts = tx[w].drafts /\ t.earned = 0 /\ t.claims = FALSE /\ t.left = r.quantity
    <3>1. Beginning(w)
      BY <1>0, <2>0, StageOf
    <3> QED BY <1>1, <3>1 DEF Beginning, Untouched, Transaction
  <2>2. Untouched(w)'
    BY <1>3, <1>4, <2>1 DEF Untouched
  <2>3. CASE r.kind = "AddItems"
    <3>1. gold \in Nat /\ r.quantity \in Nat \ {0}
      BY <1>1 DEF IInv, Typed, Request
    <3>2. t.step = "find" /\ Earns(r) = 0
      BY <1>3, <2>3 DEF AfterLock, Earns
    <3>3. Paid(w)'
      BY <1>0, <1>3, <1>4, <2>1, <3>1, <3>2 DEF Paid, rows
    <3>4. DOMAIN t.drafts = {}
      BY <2>1 DEF Untouched
    <3> HIDE DEF t, r
    <3>5. Adding(w)'
      BY <1>3, <1>4, <2>1, <2>3, <3>1, <3>2, <3>3, <3>4 DEF Adding
    <3> QED BY <3>5 DEF InStage
  <2>4. CASE r.kind = "Buy"
    BY <1>3, <1>4, <2>2, <2>4 DEF AfterLock, Paying, InStage
  <2>5. CASE r.kind \in {"Sell", "Complete"}
    BY <1>3, <1>4, <2>2, <2>5 DEF AfterLock, Reading, InStage
  <2> QED BY <1>0, <2>3, <2>4, <2>5 DEF Economic
<1> QED BY <1>0, <1>3, <1>7, <1>8, GoesOn

(* addItems. *)
LEMMA VisibleType ==
  ASSUME Typed, NEW w \in Busy, NEW s \in Slots
  PROVE  Visible(w, s) \in Stack
<1>1. stacks[s] \in Stack /\ w \in Workers
  BY DEF Typed, Busy
<1>2. \A r \in DOMAIN tx[w].drafts : tx[w].drafts[r] \in Stack
  BY <1>1, BusyFacts, SomeStacksFacts
<1> QED BY <1>1, <1>2 DEF Visible

LEMMA DraftedType ==
  ASSUME Typed, NEW w \in Busy, NEW s \in Slots, NEW stack \in Stack
  PROVE  Drafted(w, s, stack) \in SomeStacks
<1>1. DOMAIN tx[w].drafts \subseteq Slots /\ \A r \in DOMAIN tx[w].drafts : tx[w].drafts[r] \in Stack
  BY BusyFacts, SomeStacksFacts DEF Busy
<1>2. Drafted(w, s, stack) \in [DOMAIN tx[w].drafts \cup {s} -> Stack]
  BY <1>1 DEF Drafted
<1>3. DOMAIN tx[w].drafts \cup {s} \in SUBSET Slots
  BY <1>1
<1> QED BY <1>2, <1>3, SomeStacksFacts

LEMMA AddingFacts ==
  ASSUME IInv, NEW w \in Busy, Adding(w)
  PROVE  /\ tx[w].request \in Request /\ tx[w].request.item \in Items
         /\ MaxStack[tx[w].request.item] \in Nat \ {0}
         /\ tx[w].left \in Nat /\ tx[w].at \in Slots
         /\ Holder(w)
         /\ tx[w].drafts \in SomeStacks /\ DOMAIN tx[w].drafts \subseteq Slots
<1>1. tx[w].request \in Request /\ tx[w].left \in Nat /\ tx[w].at \in Slots /\ tx[w].drafts \in SomeStacks
  BY BusyFacts DEF IInv, Busy
<1>2. tx[w].request.item \in Items
  BY <1>1 DEF Request
<1>3. Holder(w)
  BY DEF Adding, Holder, Busy, Economic
<1> QED BY <1>1, <1>2, <1>3, SomeStacksFacts, DefinitionsAssumption

(* How much is added to a stack of q.                                      *)
LEMMA AddedAmount ==
  ASSUME NEW left \in Nat, left > 0, NEW i \in Items, NEW q \in Nat, q < MaxStack[i]
  PROVE  LET added == Lesser(left, Room(i, q))
         IN  added \in Nat /\ added > 0 /\ added <= left /\ q + added <= MaxStack[i]
<1>1. MaxStack[i] \in Nat
  BY DefinitionsAssumption
<1> QED BY <1>1 DEF Lesser, Room

LEMMA AddsToStack ==
  ASSUME IInv, NEW w \in Busy, Adding(w), tx[w].step # "commit",
         NEW s \in Slots, NEW q \in Nat, q < MaxStack[tx[w].request.item],
         stacks[s].item \in {NoItem, tx[w].request.item},
         NEW added, added = Lesser(tx[w].left, Room(tx[w].request.item, q)),
         Proceed(w, Added(w, s, q, added)),
         stackLock'[s] = w, \A r \in Slots : stackLock[r] = w => stackLock'[r] = w
  PROVE  /\ Added(w, s, q, added) \in Transaction
         /\ Added(w, s, q, added).request = tx[w].request
         /\ InStage(w)'
         /\ Holder(w)'
<1> DEFINE item == tx[w].request.item
           t == Added(w, s, q, added)
           stack == Holding(item, q + added)
<1>0. /\ item \in Items /\ tx[w].left \in Nat /\ DOMAIN tx[w].drafts \subseteq Slots
      /\ tx[w].left > 0
  <2>1. item \in Items /\ tx[w].left \in Nat /\ DOMAIN tx[w].drafts \subseteq Slots
    BY AddingFacts
  <2>2. tx[w].left # 0
    BY DEF Adding
  <2> QED BY <2>1, <2>2
<1>1. added \in Nat /\ added > 0 /\ added <= tx[w].left /\ q + added <= MaxStack[item]
  BY <1>0, AddedAmount
<1>2. /\ t \in Transaction
      /\ t.request = tx[w].request /\ t.earned = tx[w].earned /\ t.claims = tx[w].claims
      /\ t.drafts = Drafted(w, s, stack) /\ stack \in Stack
      /\ t.left = tx[w].left - added
      /\ t.step = IF tx[w].left = added THEN "commit" ELSE "find"
  <2> DEFINE step == IF tx[w].left = added THEN "commit" ELSE "find"
             d == Drafted(w, s, stack)
  <2>1. stack \in Stack
    BY <1>0, <1>1, HoldingFacts
  <2>2. d \in SomeStacks
    BY <2>1, DraftedType DEF IInv
  <2>3. tx[w].left - added \in Nat /\ tx[w] \in Transaction
    BY <1>1, BusyFacts DEF IInv, Busy
  <2>4. step \in Steps
    BY DEF Steps
  <2>5. t = [tx[w] EXCEPT !.drafts = d, !.left = @ - added, !.step = step]
    BY DEF Added
  <2> HIDE DEF t, d, step, stack
  <2>6. t \in Transaction
    BY <2>2, <2>3, <2>4, <2>5 DEF Transaction
  <2> QED BY <2>1, <2>3, <2>5, <2>6 DEF d, step, Transaction
<1>3. /\ DOMAIN t.drafts = DOMAIN tx[w].drafts \cup {s}
      /\ t.drafts[s] = stack
      /\ \A r \in DOMAIN tx[w].drafts : r # s => t.drafts[r] = tx[w].drafts[r]
  <2> HIDE DEF t, stack
  <2> QED BY <1>2 DEF Drafted
<1>4. stack.item = item /\ stack.quantity <= MaxStack[item]
  BY <1>0, <1>1, HoldingFacts
<1> HIDE DEF t, stack
<1>5. tx'[w] = t /\ UNCHANGED rows
  BY DEF Proceed, IInv, Typed, Busy, t
<1>6. \A r \in DOMAIN tx'[w].drafts :
           /\ stackLock'[r] = w
           /\ stacks'[r].item \in {NoItem, item}
           /\ tx'[w].drafts[r].item = item
           /\ tx'[w].drafts[r].quantity <= MaxStack[item]
  <2>1. \A r \in DOMAIN tx[w].drafts :
           /\ stackLock'[r] = w
           /\ stacks[r].item \in {NoItem, item}
           /\ tx[w].drafts[r].item = item
           /\ tx[w].drafts[r].quantity <= MaxStack[item]
    BY <1>0 DEF Adding
  <2>2. stacks' = stacks
    BY <1>5 DEF rows
  <2> QED BY <1>3, <1>4, <1>5, <2>1, <2>2
<1>7. Paid(w)'
  BY <1>2, <1>5 DEF Adding, Paid, rows
<1>8. t.step = "commit" <=> t.left = 0
  BY <1>0, <1>1, <1>2
<1>9. t.step \in {"find", "commit"}
  BY <1>2
<1>10. Adding(w)'
  BY <1>2, <1>5, <1>6, <1>7, <1>8, <1>9 DEF Adding
<1>11. Holder(w)'
  BY <1>2, <1>5, <1>9, NotIdle DEF Holder, Adding, Economic
<1> QED BY <1>2, <1>10, <1>11 DEF InStage, t

(* The step of a holder that goes on, and may lock more rows.              *)
LEMMA HolderGoesOn ==
  ASSUME IInv, NEW w \in Busy, Holder(w),
         NEW t \in Transaction, Proceed(w, t), pool' = pool,
         t.request = tx[w].request, t.step # "lock",
         inventoryLock' = inventoryLock, progressLock' \in {progressLock, w},
         DOMAIN stackLock' = Slots, stackLock' = [s \in Slots |-> stackLock'[s]],
         \A s \in Slots : stackLock'[s] \in {stackLock[s], w},
         InStage(w)'
  PROVE  IInv'
<1>0. w \in Workers /\ tx \in [Workers -> Transaction \cup {Idle}]
  BY DEF Busy, IInv, Typed
<1>1. tx'[w] = t /\ \A v \in Workers \ {w} : tx'[v] = tx[v]
  BY <1>0 DEF Proceed
<1>2. Holder(w)'
  BY <1>1, NotIdle DEF Holder
<1>3. /\ LocksHeld'
      /\ \A v \in Workers \ {w} : \A s \in Slots : stackLock[s] = v => stackLock'[s] = v
  BY <1>0, <1>1, <1>2, HolderLocks DEF IInv
<1> QED BY <1>3, GoesOn

LEMMA FindStep ==
  ASSUME IInv, NEW w \in Workers, FindStack(w), pool' = pool
  PROVE  IInv'
<1> DEFINE item == tx[w].request.item
<1>0. w \in Busy /\ tx[w].step = "find" /\ Adding(w)
  <2>1. w \in Busy /\ tx[w].step = "find"
    BY DEF FindStack, At
  <2>2. InStage(w)
    BY <2>1 DEF IInv
  <2> QED BY <2>1, <2>2, StageOf
<1>1. /\ tx[w] \in Transaction /\ tx \in [Workers -> Transaction \cup {Idle}]
      /\ item \in Items /\ DOMAIN tx[w].drafts \subseteq Slots /\ Holder(w)
  BY <1>0, BusyFacts, AddingFacts DEF IInv, Typed
<1>2. CASE Fillable(w) # {}
  <2>1. PICK s \in Fillable(w) : s = Min(Fillable(w))
    <3>1. Fillable(w) \subseteq Slots
      BY DEF Fillable
    <3>2. Slots \subseteq Nat
      BY DEF Slots
    <3> QED BY <1>2, <3>1, <3>2, MinIs
  <2> DEFINE seen == [r \in {s} |-> Visible(w, s)]
             t == [tx[w] EXCEPT !.step = "increase", !.at = s, !.seen = seen]
  <2>2. s \in Slots /\ Visible(w, s).item = item /\ Visible(w, s).quantity < MaxStack[item]
    BY <2>1 DEF Fillable
  <2>3. stackLock' = [stackLock EXCEPT ![s] = w] /\ Proceed(w, t)
        /\ inventoryLock' = inventoryLock /\ progressLock' = progressLock
    BY <1>2, <2>1 DEF FindStack
  <2>4. seen \in SomeStacks /\ DOMAIN seen = {s} /\ seen[s] = Visible(w, s)
    <3>1. Visible(w, s) \in Stack
      BY <1>0, <2>2, VisibleType DEF IInv
    <3>2. seen \in [{s} -> Stack] /\ {s} \in SUBSET Slots
      BY <2>2, <3>1
    <3> QED BY <3>2, SomeStacksFacts
  <2> HIDE DEF seen
  <2>5. /\ t \in Transaction /\ t.request = tx[w].request /\ t.step = "increase" /\ t.at = s
        /\ t.seen = seen /\ t.drafts = tx[w].drafts /\ t.earned = tx[w].earned
        /\ t.claims = tx[w].claims /\ t.left = tx[w].left
    BY <1>1, <2>2, <2>4 DEF Transaction, Steps
  <2>6. tx'[w] = t /\ UNCHANGED rows
    BY <1>1, <2>3 DEF Proceed
  <2> HIDE DEF t
  <2>7. /\ stackLock'[s] = w
        /\ \A r \in Slots : stackLock'[r] \in {stackLock[r], w}
        /\ DOMAIN stackLock' = Slots /\ stackLock' = [r \in Slots |-> stackLock'[r]]
    BY <2>2, <2>3 DEF IInv, LocksHeld
  <2>8. \A r \in Slots : stackLock[r] = w => stackLock'[r] = w
    BY <2>7
  <2>9. Visible(w, s)' = Visible(w, s)
    BY <2>5, <2>6 DEF Visible, rows
  <2>10. \A r \in DOMAIN t.drafts :
           /\ stackLock'[r] = w
           /\ stacks'[r].item \in {NoItem, item}
           /\ t.drafts[r].item = item
           /\ t.drafts[r].quantity <= MaxStack[item]
    BY <1>0, <1>1, <2>5, <2>6, <2>8 DEF Adding, rows
  <2>11. Paid(w)'
    BY <1>0, <2>5, <2>6 DEF Adding, Paid, rows
  <2>12. Adding(w)'
    BY <1>0, <2>2, <2>4, <2>5, <2>6, <2>7, <2>9, <2>10, <2>11 DEF Adding
  <2> QED BY <1>0, <1>1, <2>3, <2>5, <2>7, <2>12, HolderGoesOn DEF InStage
<1>3. CASE Fillable(w) = {}
  <2> DEFINE at == LastSlot(w) + 1
             used == {s \in Slots : Visible(w, s) # NoStack}
             t == [tx[w] EXCEPT !.step = "insert", !.at = at]
  <2>1. LastSlot(w) < MaxSlot /\ Proceed(w, t) /\ UNCHANGED locks
    BY <1>3 DEF FindStack, locks
  <2>2. at \in Slots /\ at \notin used
    <3>1. {0} \cup used \subseteq 0 .. MaxSlot /\ MaxSlot \in Nat
      BY CallsAssumption DEF Slots
    <3>2. LastSlot(w) \in {0} \cup used /\ \A s \in {0} \cup used : s <= LastSlot(w)
      <4> HIDE DEF used
      <4>1. Max({0} \cup used) \in {0} \cup used /\ \A s \in {0} \cup used : s <= Max({0} \cup used)
        BY <3>1, MaxIs
      <4>2. LastSlot(w) = Max({0} \cup used)
        BY DEF LastSlot, used
      <4> QED BY <4>1, <4>2
    <3>3. LastSlot(w) \in 0 .. MaxSlot
      BY <3>1, <3>2
    <3> HIDE DEF used
    <3> QED BY <2>1, <3>1, <3>2, <3>3 DEF Slots
  <2>3. at \notin DOMAIN tx[w].drafts /\ stacks[at] = NoStack
    <3>1. Visible(w, at) = NoStack
      BY <2>2
    <3>2. item # NoItem
      BY <1>1, CallsAssumption
    <3>3. at \in DOMAIN tx[w].drafts => tx[w].drafts[at].item = item
      BY <1>0 DEF Adding
    <3> HIDE DEF at
    <3> QED BY <3>1, <3>2, <3>3, StackFacts DEF Visible
  <2> HIDE DEF at
  <2>4. /\ t \in Transaction /\ t.request = tx[w].request /\ t.step = "insert" /\ t.at = at
        /\ t.drafts = tx[w].drafts /\ t.earned = tx[w].earned
        /\ t.claims = tx[w].claims /\ t.left = tx[w].left
    BY <1>1, <2>2 DEF Transaction, Steps
  <2>5. tx'[w] = t /\ UNCHANGED rows
    BY <1>1, <2>1 DEF Proceed
  <2> HIDE DEF t
  <2>6. Paid(w)'
    BY <1>0, <2>4, <2>5 DEF Adding, Paid, rows
  <2>7. Adding(w)'
    BY <1>0, <2>1, <2>3, <2>4, <2>5, <2>6 DEF Adding, rows, locks
  <2>8. DOMAIN stackLock' = Slots /\ stackLock' = [s \in Slots |-> stackLock'[s]]
    BY <2>1 DEF IInv, LocksHeld, locks
  <2> QED BY <1>0, <1>1, <2>1, <2>4, <2>7, <2>8, HolderGoesOn DEF InStage, locks
<1> QED BY <1>2, <1>3

LEMMA IncreaseStep ==
  ASSUME IInv, NEW w \in Workers, IncreaseStack(w), pool' = pool
  PROVE  IInv'
<1> DEFINE s == tx[w].at
           item == tx[w].request.item
           q == tx[w].seen[s].quantity
           added == Lesser(tx[w].left, Room(item, q))
<1>0. w \in Busy /\ tx[w].step = "increase" /\ Adding(w)
  <2>1. w \in Busy /\ tx[w].step = "increase"
    BY DEF IncreaseStack, At
  <2>2. InStage(w)
    BY <2>1 DEF IInv
  <2> QED BY <2>1, <2>2, StageOf
<1>1. s \in Slots /\ tx \in [Workers -> Transaction \cup {Idle}] /\ Holder(w) /\ item \in Items
  BY <1>0, AddingFacts DEF IInv, Typed
<1>2. /\ stackLock[s] = w /\ tx[w].seen[s] = Visible(w, s)
      /\ Visible(w, s).item = item /\ q < MaxStack[item]
  BY <1>0 DEF Adding
<1>3. q \in Nat
  BY <1>0, <1>1, <1>2, VisibleType, StackFacts DEF IInv
<1>4. Proceed(w, Added(w, s, q, added)) /\ UNCHANGED locks
  BY <1>2 DEF IncreaseStack
<1>5. stacks[s].item \in {NoItem, item}
  BY <1>0, <1>2 DEF Adding, Visible
<1>6. stackLock'[s] = w /\ \A r \in Slots : stackLock[r] = w => stackLock'[r] = w
  BY <1>2, <1>4 DEF locks
<1> HIDE DEF s, q
<1>7. /\ Added(w, s, q, added) \in Transaction
      /\ Added(w, s, q, added).request = tx[w].request
      /\ InStage(w)' /\ Holder(w)'
  BY <1>0, <1>1, <1>2, <1>3, <1>4, <1>5, <1>6, AddsToStack
<1>8. tx[w].step # "lock" /\ Added(w, s, q, added).step # "lock"
  BY <1>0, <1>1, <1>4, <1>7 DEF Holder, Proceed
<1>9. DOMAIN stackLock' = Slots /\ stackLock' = [r \in Slots |-> stackLock'[r]]
  BY <1>4 DEF IInv, LocksHeld, locks
<1> HIDE DEF added
<1> QED BY <1>0, <1>1, <1>4, <1>7, <1>8, <1>9, HolderGoesOn DEF locks

LEMMA InsertStep ==
  ASSUME IInv, NEW w \in Workers, InsertStack(w), pool' = pool
  PROVE  IInv'
<1> DEFINE s == tx[w].at
           item == tx[w].request.item
           added == Lesser(tx[w].left, Room(item, 0))
<1>0. w \in Busy /\ tx[w].step = "insert" /\ Adding(w)
  <2>1. w \in Busy /\ tx[w].step = "insert"
    BY DEF InsertStack, At
  <2>2. InStage(w)
    BY <2>1 DEF IInv
  <2> QED BY <2>1, <2>2, StageOf
<1>1. /\ s \in Slots /\ tx \in [Workers -> Transaction \cup {Idle}] /\ Holder(w)
      /\ item \in Items /\ 0 < MaxStack[item]
  BY <1>0, AddingFacts DEF IInv, Typed
<1>2. stacks[s] = NoStack
  BY <1>0 DEF Adding
<1>3. /\ Proceed(w, Added(w, s, 0, added))
      /\ stackLock' = [stackLock EXCEPT ![s] = w]
      /\ inventoryLock' = inventoryLock /\ progressLock' = progressLock
  BY <1>2 DEF InsertStack
<1>4. stacks[s].item \in {NoItem, item}
  BY <1>2, StackFacts
<1> HIDE DEF s
<1>5. /\ stackLock'[s] = w /\ \A r \in Slots : stackLock[r] = w => stackLock'[r] = w
      /\ \A r \in Slots : stackLock'[r] \in {stackLock[r], w}
      /\ DOMAIN stackLock' = Slots /\ stackLock' = [r \in Slots |-> stackLock'[r]]
  BY <1>1, <1>3 DEF IInv, LocksHeld
<1>6. /\ Added(w, s, 0, added) \in Transaction
      /\ Added(w, s, 0, added).request = tx[w].request
      /\ InStage(w)' /\ Holder(w)'
  BY <1>0, <1>1, <1>3, <1>4, <1>5, AddsToStack
<1>7. Added(w, s, 0, added).step # "lock"
  BY <1>0, <1>1, <1>3, <1>6 DEF Holder, Proceed
<1> HIDE DEF added
<1> QED BY <1>0, <1>1, <1>3, <1>5, <1>6, <1>7, HolderGoesOn

(* What is known of a busy worker before its step.                         *)
LEMMA Before ==
  ASSUME IInv, NEW w \in Busy
  PROVE  /\ InStage(w) /\ w \in Workers
         /\ tx[w] \in Transaction /\ tx \in [Workers -> Transaction \cup {Idle}]
         /\ tx[w].request \in Requests[pool] /\ pool \in Pools
         /\ tx[w].request \in Request
         /\ tx[w].request.item \in Items /\ tx[w].request.slot \in Slots
         /\ tx[w].request.quantity \in Nat \ {0}
<1>1. InStage(w) /\ w \in Workers /\ tx \in [Workers -> Transaction \cup {Idle}] /\ pool \in Pools
  BY DEF IInv, Typed, Busy
<1>2. tx[w] \in Transaction /\ tx[w].request \in Requests[pool] /\ tx[w].request \in Request
  BY <1>1, BusyFacts DEF IInv
<1> QED BY <1>1, <1>2 DEF Request

LEMMA PayStep ==
  ASSUME IInv, NEW w \in Workers, MoveGold(w), pool' = pool
  PROVE  IInv'
<1> DEFINE r == tx[w].request
           step == IF r.kind = "Buy" THEN "find" ELSE "commit"
           t == [tx[w] EXCEPT !.earned = Earns(r), !.step = step]
<1>0. /\ w \in Busy /\ r.kind \in {"Buy", "Sell", "Complete"} /\ tx[w].step = "pay"
  BY DEF MoveGold, At
<1>1. CASE ~Affordable(r)
  <2>1. Refuse(w)
    BY <1>1 DEF MoveGold
  <2> QED BY <1>0, <2>1, GivesUp DEF Refuse
<1>2. CASE Affordable(r)
  <2>1. /\ progressLock' = w /\ Proceed(w, t)
        /\ inventoryLock' = inventoryLock /\ stackLock' = stackLock
    BY <1>2 DEF MoveGold
  <2>2. Earns(r) \in Int /\ tx[w] \in Transaction
    BY <1>0, Before, EarnsType
  <2>3. /\ t \in Transaction /\ t.request = r /\ t.step = step
        /\ t.drafts = tx[w].drafts /\ t.seen = tx[w].seen /\ t.earned = Earns(r)
        /\ t.claims = tx[w].claims /\ t.left = tx[w].left
    <3>1. step \in Steps
      BY DEF Steps
    <3> HIDE DEF step
    <3> QED BY <2>2, <3>1 DEF Transaction
  <2>4. tx'[w] = t /\ UNCHANGED rows
    BY <1>0, <2>1, Before DEF Proceed
  <2>5. Holder(w) /\ t.step # "lock"
    BY <1>0, <2>3 DEF Holder, Economic, Busy
  <2> HIDE DEF t
  <2>6. Paid(w)'
    BY <1>2, <2>3, <2>4 DEF Affordable, Paid, rows
  <2>7. ASSUME r.kind = "Buy" PROVE InStage(w)'
    <3>1. Untouched(w) /\ r.quantity \in Nat \ {0}
      BY <1>0, <2>7, Before, StageOf DEF Paying
    <3>2. t.step = "find" /\ DOMAIN t.drafts = {} /\ t.claims = FALSE /\ t.left # 0
      BY <2>3, <2>7, <3>1 DEF Untouched
    <3>3. Adding(w)'
      BY <2>3, <2>4, <2>6, <2>7, <3>2 DEF Adding
    <3> QED BY <3>3 DEF InStage
  <2>8. ASSUME r.kind = "Sell" PROVE InStage(w)'
    <3>1. Removed(w)
      BY <1>0, <2>8, Before, StageOf
    <3>2. t.step = "commit"
      BY <2>3, <2>8
    <3>3. stacks' = stacks /\ stackLock' = stackLock /\ worn' = worn
      BY <2>1, <2>4 DEF rows
    <3>4. Keeps(w, r.slot)'
      BY <2>3, <2>4, <3>1, <3>3 DEF Removed, Keeps, Worn
    <3>5. Removed(w)'
      BY <2>3, <2>4, <2>6, <3>1, <3>2, <3>3, <3>4 DEF Removed
    <3> QED BY <3>5 DEF InStage
  <2>9. ASSUME r.kind = "Complete" PROVE InStage(w)'
    <3>1. Claimed(w)
      BY <1>0, <2>9, Before, StageOf
    <3>2. t.step = "commit"
      BY <2>3, <2>9
    <3>3. stacks' = stacks /\ stackLock' = stackLock /\ quest' = quest
      BY <2>1, <2>4 DEF rows
    <3>4. HasRead(w)'
      BY <2>3, <2>4, <3>1, <3>3 DEF Claimed, HasRead, Needed, Quantity
    <3>5. Claimed(w)'
      BY <2>3, <2>4, <2>6, <3>1, <3>2, <3>4 DEF Claimed
    <3> QED BY <3>5 DEF InStage
  <2>10. InStage(w)'
    BY <1>0, <2>7, <2>8, <2>9
  <2>11. DOMAIN stackLock = Slots /\ stackLock = [s \in Slots |-> stackLock[s]]
    BY DEF IInv, LocksHeld
  <2> QED BY <1>0, <2>1, <2>3, <2>5, <2>10, <2>11, HolderGoesOn
<1> QED BY <1>1, <1>2

LEMMA ReadSoldStep ==
  ASSUME IInv, NEW w \in Workers, ReadSold(w), pool' = pool
  PROVE  IInv'
<1> DEFINE r == tx[w].request
           s == r.slot
           seen == [q \in {s} |-> stacks[s]]
           t == [tx[w] EXCEPT !.step = "remove", !.seen = seen]
<1>0. w \in Busy /\ r.kind = "Sell" /\ tx[w].step = "read"
  BY DEF ReadSold, At
<1>1. CASE ~(stacks[s].item = r.item /\ ~Worn(s))
  <2>1. Refuse(w)
    BY <1>1 DEF ReadSold
  <2> QED BY <1>0, <2>1, GivesUp DEF Refuse
<1>2. CASE stacks[s].item = r.item /\ ~Worn(s)
  <2>1. /\ stackLock' = [stackLock EXCEPT ![s] = w] /\ Proceed(w, t)
        /\ inventoryLock' = inventoryLock /\ progressLock' = progressLock
    BY <1>2 DEF ReadSold
  <2>2. tx[w] \in Transaction /\ s \in Slots /\ stacks[s] \in Stack
    BY <1>0, Before DEF IInv, Typed
  <2>3. seen \in SomeStacks /\ DOMAIN seen = {s} /\ seen[s] = stacks[s]
    <3>1. seen \in [{s} -> Stack] /\ {s} \in SUBSET Slots
      BY <2>2
    <3> QED BY <3>1, SomeStacksFacts
  <2> HIDE DEF seen
  <2>4. /\ t \in Transaction /\ t.request = r /\ t.step = "remove" /\ t.seen = seen
        /\ t.drafts = tx[w].drafts /\ t.earned = tx[w].earned
        /\ t.claims = tx[w].claims /\ t.left = tx[w].left
    BY <2>2, <2>3 DEF Transaction, Steps
  <2>5. tx'[w] = t /\ UNCHANGED rows
    BY <1>0, <2>1, Before DEF Proceed
  <2> HIDE DEF t
  <2>6. /\ stackLock'[s] = w
        /\ \A q \in Slots : stackLock'[q] \in {stackLock[q], w}
        /\ DOMAIN stackLock' = Slots /\ stackLock' = [q \in Slots |-> stackLock'[q]]
    BY <2>1, <2>2 DEF IInv, LocksHeld
  <2>7. Untouched(w)'
    <3>1. Untouched(w)
      BY <1>0, Before, StageOf DEF Reading
    <3> QED BY <2>4, <2>5, <3>1 DEF Untouched
  <2>8. Keeps(w, s)'
    BY <1>2, <2>4, <2>5, <2>6 DEF Keeps, Worn, rows
  <2>9. Removing(w)'
    BY <1>0, <1>2, <2>3, <2>4, <2>5, <2>7, <2>8 DEF Removing, rows
  <2>10. Holder(w)
    BY <1>0 DEF Holder, Economic, Busy
  <2> QED BY <1>0, <2>1, <2>4, <2>6, <2>9, <2>10, HolderGoesOn DEF InStage
<1> QED BY <1>1, <1>2

LEMMA RemoveSoldStep ==
  ASSUME IInv, NEW w \in Workers, RemoveSold(w), pool' = pool
  PROVE  IInv'
<1> DEFINE r == tx[w].request
           s == r.slot
           stack == Holding(stacks[s].item, stacks[s].quantity - 1)
           d == Drafted(w, s, stack)
           t == [tx[w] EXCEPT !.step = "pay", !.drafts = d]
<1>0. w \in Busy /\ r.kind = "Sell" /\ tx[w].step = "remove"
  BY DEF RemoveSold, At
<1>1. Removing(w)
  BY <1>0, Before, StageOf
<1>2. tx[w].seen[s] = stacks[s] /\ stacks[s].item = r.item /\ Untouched(w) /\ Keeps(w, s)
  BY <1>1 DEF Removing
<1>3. Proceed(w, t) /\ UNCHANGED locks
  BY <1>2 DEF RemoveSold
<1>4. tx[w] \in Transaction /\ s \in Slots /\ stack \in Stack
  <2>1. tx[w] \in Transaction /\ s \in Slots /\ r.item \in Items /\ stacks[s] \in Stack
    BY <1>0, Before DEF IInv, Typed
  <2>2. stacks[s].quantity \in Nat \ {0}
    BY <1>2, <2>1, StackFacts, CallsAssumption
  <2>3. stacks[s].quantity - 1 \in Nat
    BY <2>2
  <2> QED BY <1>2, <2>1, <2>3, HoldingFacts
<1> HIDE DEF stack
<1>5. d \in SomeStacks /\ DOMAIN d = {s} /\ d[s] = stack
  <2>1. d \in SomeStacks
    BY <1>0, <1>4, DraftedType DEF IInv
  <2> QED BY <1>2, <2>1 DEF Drafted, Untouched
<1> HIDE DEF d
<1>6. /\ t \in Transaction /\ t.request = r /\ t.step = "pay" /\ t.drafts = d
      /\ t.claims = tx[w].claims
  BY <1>4, <1>5 DEF Transaction, Steps
<1>7. tx'[w] = t /\ UNCHANGED rows
  BY <1>0, <1>3, Before DEF Proceed
<1> HIDE DEF t
<1>8. Keeps(w, s)'
  BY <1>2, <1>3, <1>6, <1>7 DEF Keeps, Worn, rows, locks
<1>9. Removed(w)'
  <2>1. stacks' = stacks /\ d[s] = Holding(stacks[s].item, stacks[s].quantity - 1) /\ t.claims = FALSE
    BY <1>2, <1>5, <1>6, <1>7 DEF rows, stack, Untouched
  <2> QED BY <1>0, <1>2, <1>5, <1>6, <1>7, <1>8, <2>1 DEF Removed
<1>10. Holder(w)
  BY <1>0 DEF Holder, Economic, Busy
<1>11. DOMAIN stackLock = Slots /\ stackLock = [q \in Slots |-> stackLock[q]]
  BY DEF IInv, LocksHeld
<1> QED BY <1>0, <1>3, <1>6, <1>9, <1>10, <1>11, HolderGoesOn DEF InStage, locks

(* Complete. *)
LEMMA SlotsAreFinite ==
  ASSUME NEW S \in SUBSET Slots
  PROVE  IsFiniteSet(S)
<1>1. IsFiniteSet(Slots)
  BY FS_Interval, CallsAssumption DEF Slots
<1> QED BY <1>1, FS_Subset

LEMMA QuantityType ==
  ASSUME NEW S \in SUBSET Slots, NEW shelf, \A s \in S : shelf[s] \in Stack
  PROVE  Quantity(shelf, S) \in Nat
<1> DEFINE f == [s \in S |-> shelf[s].quantity]
<1>1. \A s \in S : f[s] \in Nat
  BY StackFacts
<1>2. SumFunctionOnSet(f, S) \in Nat
  <2> HIDE DEF f
  <2> QED BY <1>1, SlotsAreFinite, SumOfNaturals
<1> QED BY <1>2 DEF Quantity

LEMMA HandedInFacts ==
  ASSUME NEW seen \in SomeStacks, NEW s \in DOMAIN seen
  PROVE  HandedIn(seen, s) \in Nat /\ HandedIn(seen, s) <= seen[s].quantity
<1> DEFINE before == Quantity(seen, {r \in DOMAIN seen : r < s})
<1>1. DOMAIN seen \subseteq Slots /\ \A r \in DOMAIN seen : seen[r] \in Stack
  BY SomeStacksFacts
<1>2. before \in Nat
  <2>1. {r \in DOMAIN seen : r < s} \in SUBSET Slots
    BY <1>1
  <2> QED BY <1>1, <2>1, QuantityType
<1>3. Objective.quantity \in Nat /\ seen[s].quantity \in Nat
  BY <1>1, StackFacts, DefinitionsAssumption
<1> HIDE DEF before
<1>4. Max({0, Objective.quantity - before}) \in Nat
  BY <1>2, <1>3, MaxOfTwo
<1>5. HandedIn(seen, s) = Lesser(seen[s].quantity, Max({0, Objective.quantity - before}))
  BY DEF HandedIn, before
<1> QED BY <1>3, <1>4, <1>5 DEF Lesser

LEMMA ReadQuestStep ==
  ASSUME IInv, NEW w \in Workers, ReadQuest(w), pool' = pool
  PROVE  IInv'
<1> DEFINE enough == quest = "active" /\ Quantity(stacks, Needed) >= Objective.quantity
           seen == [s \in Needed |-> stacks[s]]
           t == [tx[w] EXCEPT !.step = "claim", !.seen = seen]
<1>0. w \in Busy /\ tx[w].request.kind = "Complete" /\ tx[w].step = "read"
  BY DEF ReadQuest, At
<1>1. CASE ~enough
  <2>1. Refuse(w)
    BY <1>1 DEF ReadQuest
  <2> QED BY <1>0, <2>1, GivesUp DEF Refuse
<1>2. CASE enough
  <2>1. /\ stackLock' = [s \in Slots |-> IF s \in Needed THEN w ELSE stackLock[s]]
        /\ Proceed(w, t)
        /\ inventoryLock' = inventoryLock /\ progressLock' = progressLock
    BY <1>2 DEF ReadQuest
  <2>2. tx[w] \in Transaction /\ Needed \in SUBSET Slots /\ stacks \in [Slots -> Stack]
    BY <1>0, Before DEF Needed, IInv, Typed
  <2>3. seen \in SomeStacks /\ DOMAIN seen = Needed /\ \A s \in Needed : seen[s] = stacks[s]
    <3>1. seen \in [Needed -> Stack]
      BY <2>2
    <3> QED BY <2>2, <3>1, SomeStacksFacts
  <2> HIDE DEF seen
  <2>4. /\ t \in Transaction /\ t.request = tx[w].request /\ t.step = "claim" /\ t.seen = seen
        /\ t.drafts = tx[w].drafts /\ t.earned = tx[w].earned
        /\ t.claims = tx[w].claims /\ t.left = tx[w].left
    BY <2>2, <2>3 DEF Transaction, Steps
  <2>5. tx'[w] = t /\ UNCHANGED rows
    BY <1>0, <2>1, Before DEF Proceed
  <2> HIDE DEF t
  <2>6. /\ \A s \in Needed : stackLock'[s] = w
        /\ \A s \in Slots : stackLock'[s] \in {stackLock[s], w}
        /\ DOMAIN stackLock' = Slots /\ stackLock' = [s \in Slots |-> stackLock'[s]]
    BY <2>1, <2>2
  <2>7. Untouched(w)'
    <3>1. Untouched(w)
      BY <1>0, Before, StageOf DEF Reading
    <3> QED BY <2>4, <2>5, <3>1 DEF Untouched
  <2>8. stacks' = stacks /\ quest' = quest /\ Needed' = Needed
    BY <2>5 DEF rows, Needed
  <2>9. HasRead(w)'
    <3>1. Quantity(stacks, Needed)' = Quantity(stacks, Needed)
      BY <2>8 DEF Quantity
    <3> QED BY <1>0, <1>2, <2>3, <2>4, <2>5, <2>6, <2>8, <3>1 DEF HasRead
  <2>10. Claiming(w)'
    BY <2>4, <2>5, <2>7, <2>9 DEF Claiming
  <2>11. Holder(w)
    BY <1>0 DEF Holder, Economic, Busy
  <2> QED BY <1>0, <2>1, <2>4, <2>6, <2>10, <2>11, HolderGoesOn DEF InStage
<1> QED BY <1>1, <1>2

LEMMA ClaimStep ==
  ASSUME IInv, NEW w \in Workers, ClaimQuest(w), pool' = pool
  PROVE  IInv'
<1> DEFINE seen == tx[w].seen
           used == {s \in DOMAIN seen : HandedIn(seen, s) > 0}
           d == [s \in used |-> Holding(Objective.item, seen[s].quantity - HandedIn(seen, s))]
           t == [tx[w] EXCEPT !.step = "pay", !.claims = TRUE, !.drafts = d]
<1>0. w \in Busy /\ tx[w].request.kind = "Complete" /\ tx[w].step = "claim"
  BY DEF ClaimQuest, At
<1>1. HasRead(w) /\ Untouched(w)
  BY <1>0, Before, StageOf DEF Claiming
<1>2. quest = "active" /\ \A s \in used : stacks[s] = seen[s]
  BY <1>1 DEF HasRead
<1>3. Proceed(w, t) /\ UNCHANGED locks
  BY <1>2 DEF ClaimQuest
<1>4. tx[w] \in Transaction /\ seen \in SomeStacks /\ DOMAIN seen \subseteq Slots
  BY <1>0, Before, SomeStacksFacts DEF Transaction
<1>5. d \in SomeStacks
  <2>1. ASSUME NEW s \in used
        PROVE  Holding(Objective.item, seen[s].quantity - HandedIn(seen, s)) \in Stack
    <3>1. HandedIn(seen, s) \in Nat /\ HandedIn(seen, s) <= seen[s].quantity
      BY <1>4, HandedInFacts
    <3>2. seen[s].quantity \in Nat
      BY <1>4, SomeStacksFacts, StackFacts
    <3>3. seen[s].quantity - HandedIn(seen, s) \in Nat /\ Objective.item \in Items
      BY <3>1, <3>2, DefinitionsAssumption
    <3> QED BY <3>3, HoldingFacts
  <2>2. d \in [used -> Stack] /\ used \in SUBSET Slots
    BY <1>4, <2>1
  <2> QED BY <2>2, SomeStacksFacts
<1>6. /\ DOMAIN d = used
      /\ \A s \in DOMAIN d : d[s] = Holding(Objective.item, seen[s].quantity - HandedIn(seen, s))
  OBVIOUS
<1> HIDE DEF d
<1>7. /\ t \in Transaction /\ t.request = tx[w].request /\ t.step = "pay" /\ t.drafts = d
      /\ t.claims = TRUE /\ t.seen = seen
  BY <1>4, <1>5 DEF Transaction, Steps
<1>8. tx'[w] = t /\ UNCHANGED rows
  BY <1>0, <1>3, Before DEF Proceed
<1> HIDE DEF t
<1>9. HasRead(w)'
  <2>1. stacks' = stacks /\ quest' = quest /\ Needed' = Needed /\ stackLock' = stackLock
    BY <1>3, <1>8 DEF rows, Needed, locks
  <2>2. Quantity(stacks, Needed)' = Quantity(stacks, Needed)
    BY <2>1 DEF Quantity
  <2> QED BY <1>1, <1>7, <1>8, <2>1, <2>2 DEF HasRead
<1>10. Claimed(w)'
  BY <1>6, <1>7, <1>8, <1>9 DEF Claimed
<1>11. Holder(w)
  BY <1>0 DEF Holder, Economic, Busy
<1>12. DOMAIN stackLock = Slots /\ stackLock = [q \in Slots |-> stackLock[q]]
  BY DEF IInv, LocksHeld
<1> QED BY <1>0, <1>3, <1>7, <1>10, <1>11, <1>12, HolderGoesOn DEF InStage, locks

(* The calls that do not lock the inventory.                               *)
LEMMA LocksStay ==
  ASSUME LocksHeld, UNCHANGED locks,
         \A v \in Workers : Holder(v)' <=> Holder(v)
  PROVE  /\ LocksHeld'
         /\ \A v \in Workers : \A s \in Slots : stackLock[s] = v => stackLock'[s] = v
BY DEF LocksHeld, locks

LEMMA LookStep ==
  ASSUME IInv, NEW w \in Workers, LookAt(w), pool' = pool
  PROVE  IInv'
<1> DEFINE r == tx[w].request
           s == r.slot
           seen == [q \in {s} |-> stacks[s]]
           t == [tx[w] EXCEPT !.step = "write", !.seen = seen]
<1>0. w \in Busy /\ r.kind \in {"Consume", "Equip"} /\ tx[w].step = "look"
  BY DEF LookAt, At
<1>1. CASE ~Owns(w)
  <2>1. Refuse(w)
    BY <1>1 DEF LookAt
  <2> QED BY <1>0, <2>1, GivesUp DEF Refuse
<1>2. CASE Owns(w)
  <2>1. Proceed(w, t) /\ UNCHANGED locks
    BY <1>2 DEF LookAt
  <2>2. tx[w] \in Transaction /\ s \in Slots /\ stacks[s] \in Stack
    BY <1>0, Before DEF IInv, Typed
  <2>3. seen \in SomeStacks /\ DOMAIN seen = {s} /\ seen[s] = stacks[s]
    <3>1. seen \in [{s} -> Stack] /\ {s} \in SUBSET Slots
      BY <2>2
    <3> QED BY <3>1, SomeStacksFacts
  <2> HIDE DEF seen
  <2>4. /\ t \in Transaction /\ t.request = r /\ t.step = "write" /\ t.seen = seen
        /\ t.drafts = tx[w].drafts /\ t.earned = tx[w].earned
        /\ t.claims = tx[w].claims /\ t.left = tx[w].left
    BY <2>2, <2>3 DEF Transaction, Steps
  <2>5. tx'[w] = t /\ UNCHANGED rows /\ \A v \in Workers \ {w} : tx'[v] = tx[v]
    BY <1>0, <2>1, Before DEF Proceed
  <2> HIDE DEF t
  <2>6. \A v \in Workers : Holder(v)' <=> Holder(v)
    BY <1>0, <2>4, <2>5 DEF Holder, Economic
  <2>7. Untouched(w)'
    <3>1. Untouched(w)
      BY <1>0, Before, StageOf DEF Beginning
    <3> QED BY <2>4, <2>5, <3>1 DEF Untouched
  <2>8. Looked(w)'
    BY <1>0, <1>2, <2>3, <2>4, <2>5, <2>7 DEF Looked, Owns, rows
  <2> QED BY <1>0, <2>1, <2>4, <2>6, <2>8, LocksStay, GoesOn DEF InStage, IInv
<1> QED BY <1>1, <1>2

(* With one connection, the transaction that runs runs alone.              *)
LEMMA Alone ==
  ASSUME IInv, pool = 1, NEW w \in Busy
  PROVE  Busy = {w}
<1>1. Cardinality(Busy) = 1
  <2>1. Cardinality(Busy) # 0
    BY BusyIsFinite, FS_EmptySet
  <2> QED BY <2>1, BusyIsFinite DEF IInv
<1>2. Cardinality(Busy \ {w}) = 0 /\ IsFiniteSet(Busy \ {w})
  BY <1>1, BusyIsFinite, FS_RemoveElement
<1>3. Busy \ {w} = {}
  BY <1>2, FS_EmptySet
<1> QED BY <1>3

(* Steps of no transaction.                                                *)
LEMMA NoneActs ==
  ASSUME IInv, Typed', UNCHANGED <<pool, tx, locks, conflicted>>,
         \A v \in Busy : Spared(v),
         WornIsStored', StacksFit', WornFits'
  PROVE  IInv'
<1>1. Busy' = Busy
  BY DEF Busy
<1>2. \A v \in Busy' : InStage(v)'
  BY <1>1, StaysInStage DEF IInv
<1>3. LocksHeld'
  <2>1. \A v \in Workers : Holder(v)' <=> Holder(v)
    BY DEF Holder
  <2> QED BY <2>1, LocksStay DEF IInv
<1> QED BY <1>1, <1>2, <1>3 DEF IInv, NeverConflicts

LEMMA AcceptStep ==
  ASSUME IInv, AcceptQuest, pool' = pool
  PROVE  IInv'
<1>1. /\ UNCHANGED <<pool, tx, locks, conflicted, stacks, worn, gold>>
      /\ quest = "none" /\ quest' = "active"
  BY DEF AcceptQuest
<1>2. Typed'
  BY <1>1 DEF IInv, Typed, Busy
<1>3. \A v \in Busy : Spared(v)
  BY <1>1 DEF Spared, Worn, locks, IInv, Typed
<1>4. WornIsStored' /\ StacksFit' /\ WornFits'
  BY <1>1 DEF IInv, WornIsStored, StacksFit, WornFits
<1> QED BY <1>1, <1>2, <1>3, <1>4, NoneActs

LEMMA UnequipStep ==
  ASSUME IInv, NEW e \in EquipmentSlots, Unequip(e), pool' = pool
  PROVE  IInv'
<1>1. /\ UNCHANGED <<pool, tx, locks, conflicted, stacks, gold, quest>>
      /\ worn' = [worn EXCEPT ![e] = 0]
  BY DEF Unequip
<1>2. worn \in [EquipmentSlots -> Slots \cup {0}] /\ worn' \in [EquipmentSlots -> Slots \cup {0}]
  BY <1>1 DEF IInv, Typed
<1>3. \A f \in EquipmentSlots : worn'[f] # 0 => worn'[f] = worn[f]
  BY <1>1, <1>2
<1>4. Typed'
  BY <1>1, <1>2 DEF IInv, Typed, Busy
<1>5. \A s \in Slots : Worn(s)' => Worn(s)
  BY <1>3 DEF Worn, Slots
<1>6. \A v \in Busy : Spared(v)
  BY <1>1, <1>5 DEF Spared, locks, IInv, Typed
<1>7. WornIsStored' /\ StacksFit' /\ WornFits'
  BY <1>1, <1>3 DEF IInv, WornIsStored, StacksFit, WornFits
<1> QED BY <1>1, <1>4, <1>6, <1>7, NoneActs

(* What ConsumeItem and Equip find when they write.                        *)
LEMMA Writes ==
  ASSUME IInv, NEW w \in Busy, tx[w].request.kind \in {"Consume", "Equip"},
         tx[w].step = "write", Free(stackLock[tx[w].request.slot], w)
  PROVE  LET s == tx[w].request.slot
         IN  /\ Looked(w) /\ ~Holder(w) /\ s \in Slots /\ s # 0
             /\ \A v \in Workers : \A q \in Slots : stackLock[q] = v => q # s
<1> DEFINE s == tx[w].request.slot
<1>1. Looked(w) /\ s \in Slots /\ w \in Workers
  BY Before, StageOf
<1>2. ~Holder(w)
  BY DEF Holder, Economic
<1>3. stackLock[s] = Nobody
  BY <1>1, <1>2, OnlyHolders DEF IInv, Free
<1> QED BY <1>1, <1>2, <1>3, CallsAssumption DEF Slots

LEMMA EquipStep ==
  ASSUME IInv, NEW w \in Workers, Equip(w), pool' = pool
  PROVE  IInv'
<1> DEFINE s == tx[w].request.slot
           slot == FitsIn[tx[w].request.item]
<1>0. /\ w \in Busy /\ tx[w].request.kind = "Equip" /\ tx[w].step = "write"
      /\ Free(stackLock[s], w)
  BY DEF Equip, At
<1>1. CASE stacks[s] = NoStack
  <2>1. Refuse(w)
    BY <1>1 DEF Equip
  <2> QED BY <1>0, <2>1, GivesUp DEF Refuse
<1>2. CASE stacks[s] # NoStack
  <2>1. /\ worn' = [e \in EquipmentSlots |-> IF e = slot THEN s ELSE IF worn[e] = s THEN 0 ELSE worn[e]]
        /\ tx' = [tx EXCEPT ![w] = Idle]
        /\ UNCHANGED <<pool, stacks, gold, quest, locks, conflicted>>
    BY <1>2 DEF Equip
  <2>2. /\ Looked(w) /\ ~Holder(w) /\ s \in Slots /\ s # 0
        /\ \A v \in Workers : \A q \in Slots : stackLock[q] = v => q # s
    BY <1>0, Writes
  <2>3. /\ tx'[w] = Idle /\ ~Holder(w)' /\ \A v \in Workers \ {w} : tx'[v] = tx[v]
        /\ tx' \in [Workers -> Transaction \cup {Idle}]
        /\ \A v \in Busy' : tx'[v].request \in Requests[pool']
        /\ Cardinality(Busy)' <= pool'
    BY <1>0, <2>1, Ends
  <2>4. worn \in [EquipmentSlots -> Slots \cup {0}]
    BY DEF IInv, Typed
  <2> HIDE DEF s, slot
  <2>5. worn' \in [EquipmentSlots -> Slots \cup {0}]
    BY <2>1, <2>2, <2>4
  <2>6. \A e \in EquipmentSlots : \/ worn'[e] = s /\ e = slot
                                  \/ worn'[e] = 0
                                  \/ worn'[e] = worn[e] /\ worn[e] # s
    BY <2>1
  <2>7. Typed'
    BY <2>1, <2>3, <2>5 DEF IInv, Typed
  <2>8. LocksHeld'
    <3>1. \A v \in Workers : Holder(v)' <=> Holder(v)
      BY <2>2, <2>3 DEF Holder
    <3> QED BY <2>1, <3>1, LocksStay DEF IInv
  <2>9. \A v \in Busy \ {w} : Spared(v)
    <3>1. \A q \in Slots : q # s => (Worn(q)' => Worn(q))
      BY <2>6 DEF Worn, Slots
    <3>2. \A v \in Busy \ {w} : v \in Workers /\ tx'[v] = tx[v]
      BY <2>3 DEF Busy
    <3>3. stacks \in [Slots -> Stack]
      BY DEF IInv, Typed
    <3> QED BY <2>1, <2>2, <3>1, <3>2, <3>3 DEF Spared, locks
  <2>10. WornIsStored' /\ StacksFit'
    BY <1>2, <2>1, <2>6 DEF IInv, WornIsStored, StacksFit, s
  <2>11. WornFits'
    <3>1. SUFFICES ASSUME pool = 1, NEW e \in EquipmentSlots, worn'[e] # 0
                   PROVE  FitsIn[stacks[worn'[e]].item] = e
      BY <2>1 DEF WornFits
    <3>2. stacks[s].item = tx[w].request.item
      BY <2>2, <3>1 DEF Looked, s
    <3>3. CASE worn'[e] = s /\ e = slot
      BY <3>2, <3>3 DEF slot
    <3>4. CASE worn'[e] = worn[e]
      BY <3>1, <3>4 DEF IInv, WornFits
    <3> QED BY <2>6, <3>1, <3>3, <3>4
  <2> QED BY <2>1, <2>3, <2>7, <2>8, <2>9, <2>10, <2>11, OneActs
<1> QED BY <1>1, <1>2

LEMMA ConsumedFacts ==
  ASSUME NEW seen, NEW stack \in Stack, ~(seen.quantity > 1 /\ stack.quantity = 1)
  PROVE  LET left == ConsumedStack(seen, stack)
         IN  /\ left \in Stack
             /\ left # NoStack => left.item = stack.item /\ left.quantity <= stack.quantity
             /\ left.item \in {stack.item, NoItem}
<1>1. CASE seen.quantity > 1 /\ stack # NoStack
  <2>1. stack.item \in Items /\ stack.quantity \in Nat \ {0}
    BY <1>1, StackFacts
  <2>2. stack.quantity - 1 \in Nat \ {0}
    BY <1>1, <2>1
  <2> QED BY <1>1, <2>1, <2>2, HoldingFacts DEF ConsumedStack
<1>2. CASE ~(seen.quantity > 1 /\ stack # NoStack)
  BY <1>2, StackFacts DEF ConsumedStack
<1> QED BY <1>1, <1>2

(* The cascade of a deletion only takes off.                               *)
LEMMA StillWornFacts ==
  ASSUME Typed, WornIsStored, NEW shelf, worn' = StillWorn(shelf), stacks' = shelf
  PROVE  /\ worn' \in [EquipmentSlots -> Slots \cup {0}]
         /\ \A e \in EquipmentSlots : worn'[e] # 0 => worn'[e] = worn[e] /\ shelf[worn[e]] # NoStack
         /\ \A s \in Slots : Worn(s)' => Worn(s)
         /\ WornIsStored'
<1>1. worn \in [EquipmentSlots -> Slots \cup {0}]
  BY DEF Typed
<1>2. worn' \in [EquipmentSlots -> Slots \cup {0}]
  BY <1>1 DEF StillWorn
<1>3. \A e \in EquipmentSlots : worn'[e] # 0 => worn'[e] = worn[e] /\ shelf[worn[e]] # NoStack
  BY <1>1 DEF StillWorn
<1>4. \A s \in Slots : Worn(s)' => Worn(s)
  BY <1>3 DEF Worn, Slots
<1> QED BY <1>2, <1>3, <1>4 DEF WornIsStored

LEMMA ConsumeStep ==
  ASSUME IInv, NEW w \in Workers, ConsumeItem(w), pool' = pool
  PROVE  IInv'
<1> DEFINE s == tx[w].request.slot
           seen == tx[w].seen[s]
<1>0. /\ w \in Busy /\ tx[w].request.kind = "Consume" /\ tx[w].step = "write"
      /\ Free(stackLock[s], w)
  BY DEF ConsumeItem, At
<1>1. CASE seen.quantity > 1 /\ stacks[s].quantity = 1
  <2>1. Refuse(w)
    BY <1>1 DEF ConsumeItem
  <2> QED BY <1>0, <2>1, GivesUp DEF Refuse
<1>2. CASE ~(seen.quantity > 1 /\ stacks[s].quantity = 1)
  <2>1. /\ stacks' = [stacks EXCEPT ![s] = ConsumedStack(seen, @)]
        /\ worn' = StillWorn(stacks')
        /\ tx' = [tx EXCEPT ![w] = Idle]
        /\ UNCHANGED <<pool, gold, quest, locks, conflicted>>
    BY <1>2 DEF ConsumeItem
  <2>2. /\ ~Holder(w) /\ s \in Slots /\ s # 0
        /\ \A v \in Workers : \A q \in Slots : stackLock[q] = v => q # s
    BY <1>0, Writes
  <2>3. /\ tx'[w] = Idle /\ ~Holder(w)' /\ \A v \in Workers \ {w} : tx'[v] = tx[v]
        /\ tx' \in [Workers -> Transaction \cup {Idle}]
        /\ \A v \in Busy' : tx'[v].request \in Requests[pool']
        /\ Cardinality(Busy)' <= pool'
    BY <1>0, <2>1, Ends
  <2>4. stacks \in [Slots -> Stack] /\ stacks[s] \in Stack
    BY <2>2 DEF IInv, Typed
  <2> DEFINE left == ConsumedStack(seen, stacks[s])
  <2>5. /\ left \in Stack
        /\ left # NoStack => left.item = stacks[s].item /\ left.quantity <= stacks[s].quantity
        /\ left.item \in {stacks[s].item, NoItem}
    BY <1>2, <2>4, ConsumedFacts
  <2> HIDE DEF left
  <2>6. stacks' = [stacks EXCEPT ![s] = left]
    BY <2>1 DEF left
  <2> HIDE DEF s, seen
  <2>7. stacks' \in [Slots -> Stack] /\ stacks'[s] = left /\ \A q \in Slots \ {s} : stacks'[q] = stacks[q]
    BY <2>2, <2>4, <2>5, <2>6
  <2>8. /\ worn' \in [EquipmentSlots -> Slots \cup {0}]
        /\ \A e \in EquipmentSlots : worn'[e] # 0 => worn'[e] = worn[e] /\ stacks'[worn[e]] # NoStack
        /\ \A q \in Slots : Worn(q)' => Worn(q)
        /\ WornIsStored'
    BY <2>1, StillWornFacts DEF IInv
  <2>9. Typed'
    BY <2>1, <2>3, <2>7, <2>8 DEF IInv, Typed
  <2>10. LocksHeld'
    <3>1. \A v \in Workers : Holder(v)' <=> Holder(v)
      BY <2>2, <2>3 DEF Holder
    <3> QED BY <2>1, <3>1, LocksStay DEF IInv
  <2>11. \A v \in Busy \ {w} : Spared(v)
    <3>1. \A v \in Busy \ {w} : v \in Workers /\ tx'[v] = tx[v]
      BY <2>3 DEF Busy
    <3>2. \A q \in Slots : stacks'[q].item \in {stacks[q].item, NoItem}
      BY <2>5, <2>7
    <3>3. pool = 1 => Busy \ {w} = {}
      BY <1>0, Alone
    <3>4. \A q \in Slots : \A v \in Workers : stackLock[q] = v => stacks'[q] = stacks[q] /\ stackLock'[q] = v
      BY <2>1, <2>2, <2>7 DEF locks
    <3>5. gold' = gold /\ quest' = quest /\ pool' = pool
      BY <2>1
    <3> QED BY <2>7, <2>8, <3>1, <3>2, <3>3, <3>4, <3>5 DEF Spared
  <2>12. StacksFit'
    <3>1. SUFFICES ASSUME NEW q \in Slots, stacks'[q] # NoStack
                   PROVE  stacks'[q].quantity <= MaxStack[stacks'[q].item]
      BY DEF StacksFit
    <3>2. CASE q = s
      <4>1. stacks[s] # NoStack
        BY <2>5, <2>7, <3>1, <3>2, StackFacts
      <4>2. stacks[s].quantity <= MaxStack[stacks[s].item]
        BY <2>2, <4>1 DEF IInv, StacksFit
      <4>3. stacks[s].item \in Items /\ stacks[s].quantity \in Nat /\ left.quantity \in Nat
        BY <2>4, <2>5, <4>1, StackFacts
      <4>4. MaxStack[stacks[s].item] \in Nat
        BY <4>3, DefinitionsAssumption
      <4> QED BY <2>5, <2>7, <3>1, <3>2, <4>2, <4>3, <4>4
    <3>3. CASE q # s
      BY <2>7, <3>1, <3>3 DEF IInv, StacksFit
    <3> QED BY <3>2, <3>3
  <2>13. WornFits'
    <3>1. SUFFICES ASSUME pool = 1, NEW e \in EquipmentSlots, worn'[e] # 0
                   PROVE  FitsIn[stacks'[worn'[e]].item] = e
      BY <2>1 DEF WornFits
    <3>2. worn'[e] = worn[e] /\ stacks'[worn[e]] # NoStack /\ FitsIn[stacks[worn[e]].item] = e
      BY <2>8, <3>1 DEF IInv, WornFits
    <3>3. worn[e] \in Slots
      BY <2>8, <3>1, <3>2
    <3>4. stacks'[worn[e]].item = stacks[worn[e]].item
      BY <2>5, <2>7, <3>2, <3>3
    <3> QED BY <3>2, <3>4
  <2> QED BY <2>1, <2>3, <2>8, <2>9, <2>10, <2>11, <2>12, <2>13, OneActs
<1> QED BY <1>1, <1>2

(* What a transaction commits: stacks that fit, each of the item it was    *)
(* of, and gold there is.                                                  *)
LEMMA CommitFacts ==
  ASSUME IInv, NEW w \in Busy, tx[w].request.kind \in Economic, tx[w].step = "commit"
  PROVE  /\ Paid(w) /\ Holder(w)
         /\ \A s \in Slots : Visible(w, s) # NoStack =>
              /\ Visible(w, s).quantity <= MaxStack[Visible(w, s).item]
              /\ stacks[s] # NoStack => Visible(w, s).item = stacks[s].item
<1>1. Holder(w)
  BY DEF Holder, Busy
<1>2. DOMAIN tx[w].drafts \subseteq Slots /\ stacks \in [Slots -> Stack] /\ tx[w].request \in Request
  BY BusyFacts, SomeStacksFacts DEF IInv, Typed, Busy
<1>3. \A s \in Slots : stacks[s] # NoStack => stacks[s].quantity <= MaxStack[stacks[s].item]
  BY DEF IInv, StacksFit
<1>4. \A s \in Slots : stacks[s] # NoStack =>
        stacks[s].item \in Items /\ stacks[s].quantity \in Nat \ {0} /\ MaxStack[stacks[s].item] \in Nat
  BY <1>2, StackFacts, DefinitionsAssumption
<1>5. ASSUME Paid(w), NEW s \in Slots, Visible(w, s) # NoStack,
             s \in DOMAIN tx[w].drafts =>
               /\ tx[w].drafts[s].quantity <= MaxStack[tx[w].drafts[s].item]
               /\ stacks[s] # NoStack => tx[w].drafts[s].item = stacks[s].item
      PROVE  /\ Visible(w, s).quantity <= MaxStack[Visible(w, s).item]
             /\ stacks[s] # NoStack => Visible(w, s).item = stacks[s].item
  BY <1>3, <1>5 DEF Visible
(* A draft that took some off a stack that is there.                       *)
<1>6. ASSUME NEW s \in Slots, NEW n \in Nat, n <= stacks[s].quantity, stacks[s] # NoStack,
             NEW stack, stack = Holding(stacks[s].item, stacks[s].quantity - n), stack # NoStack
      PROVE  stack.quantity <= MaxStack[stack.item] /\ stack.item = stacks[s].item
  <2>1. stacks[s].quantity - n \in Nat /\ stacks[s].item \in Items
    BY <1>4, <1>6
  <2>2. stack.item = stacks[s].item /\ stack.quantity = stacks[s].quantity - n
    BY <1>6, <2>1, HoldingFacts DEF Holding
  <2> QED BY <1>3, <1>4, <1>6, <2>2
<1>7. CASE tx[w].request.kind \in {"AddItems", "Buy"}
  <2>1. Adding(w)
    BY <1>7, Before, StageOf
  <2>2. \A s \in DOMAIN tx[w].drafts : /\ stacks[s].item \in {NoItem, tx[w].request.item}
                                       /\ tx[w].drafts[s].item = tx[w].request.item
                                       /\ tx[w].drafts[s].quantity <= MaxStack[tx[w].request.item]
    BY <2>1 DEF Adding
  <2>3. \A s \in Slots : stacks[s] # NoStack => stacks[s].item # NoItem
    BY <1>2, StackFacts
  <2>4. Paid(w)
    BY <2>1 DEF Adding
  <2> QED BY <1>1, <1>2, <1>5, <2>2, <2>3, <2>4
<1>8. CASE tx[w].request.kind = "Sell"
  <2> DEFINE s == tx[w].request.slot
  <2>1. Removed(w)
    BY <1>8, Before, StageOf
  <2>2. /\ Paid(w) /\ DOMAIN tx[w].drafts = {s} /\ s \in Slots
        /\ tx[w].drafts[s] = Holding(stacks[s].item, stacks[s].quantity - 1)
        /\ stacks[s].item \in Items
    BY <1>2, <2>1 DEF Removed, Request
  <2>3. stacks[s] # NoStack /\ 1 <= stacks[s].quantity
    BY <1>4, <2>2, StackFacts, CallsAssumption
  <2>4. tx[w].drafts[s] # NoStack =>
          /\ tx[w].drafts[s].quantity <= MaxStack[tx[w].drafts[s].item]
          /\ tx[w].drafts[s].item = stacks[s].item
    BY <1>6, <2>2, <2>3
  <2>5. ASSUME NEW q \in Slots, Visible(w, q) # NoStack
        PROVE  /\ Visible(w, q).quantity <= MaxStack[Visible(w, q).item]
               /\ stacks[q] # NoStack => Visible(w, q).item = stacks[q].item
    <3> HIDE DEF s
    <3>1. CASE q = s
      BY <1>5, <2>2, <2>4, <2>5, <3>1 DEF Visible
    <3>2. CASE q # s
      BY <1>5, <2>2, <2>5, <3>2
    <3> QED BY <3>1, <3>2
  <2> QED BY <1>1, <2>2, <2>5
<1>9. CASE tx[w].request.kind = "Complete"
  <2> DEFINE seen == tx[w].seen
  <2>1. Claimed(w)
    BY <1>9, Before, StageOf
  <2>2. /\ Paid(w) /\ DOMAIN seen = Needed /\ Needed \subseteq Slots
        /\ \A s \in Needed : seen[s] = stacks[s] /\ stacks[s].item = Objective.item
        /\ DOMAIN tx[w].drafts \subseteq Needed
        /\ \A s \in DOMAIN tx[w].drafts :
             tx[w].drafts[s] = Holding(Objective.item, seen[s].quantity - HandedIn(seen, s))
    BY <2>1 DEF Claimed, HasRead, Needed
  <2>3. seen \in SomeStacks
    BY BusyFacts DEF IInv, Busy
  <2>4. ASSUME NEW s \in DOMAIN tx[w].drafts, tx[w].drafts[s] # NoStack
        PROVE  /\ tx[w].drafts[s].quantity <= MaxStack[tx[w].drafts[s].item]
               /\ tx[w].drafts[s].item = stacks[s].item
    <3>1. HandedIn(seen, s) \in Nat /\ HandedIn(seen, s) <= stacks[s].quantity
      BY <2>2, <2>3, HandedInFacts
    <3>2. stacks[s] # NoStack
      BY <2>2, StackFacts, DefinitionsAssumption, CallsAssumption
    <3>3. tx[w].drafts[s] = Holding(stacks[s].item, stacks[s].quantity - HandedIn(seen, s))
      BY <2>2
    <3> QED BY <1>6, <2>2, <2>4, <3>1, <3>2, <3>3
  <2>5. ASSUME NEW s \in Slots, Visible(w, s) # NoStack
        PROVE  /\ Visible(w, s).quantity <= MaxStack[Visible(w, s).item]
               /\ stacks[s] # NoStack => Visible(w, s).item = stacks[s].item
    <3>1. CASE s \in DOMAIN tx[w].drafts
      BY <1>5, <2>2, <2>4, <2>5, <3>1 DEF Visible
    <3>2. CASE s \notin DOMAIN tx[w].drafts
      BY <1>5, <2>2, <2>5, <3>2
    <3> QED BY <3>1, <3>2
  <2> QED BY <1>1, <2>2, <2>5
<1> QED BY <1>7, <1>8, <1>9 DEF Economic

LEMMA CommitStep ==
  ASSUME IInv, NEW w \in Workers, Commit(w), pool' = pool
  PROVE  IInv'
<1> DEFINE shelf == [s \in Slots |-> Visible(w, s)]
<1>0. /\ w \in Busy /\ tx[w].request.kind \in Economic /\ tx[w].step = "commit"
      /\ stacks' = shelf /\ worn' = StillWorn(shelf) /\ gold' = gold + tx[w].earned
      /\ quest' = IF tx[w].claims THEN "completed" ELSE quest
      /\ tx' = [tx EXCEPT ![w] = Idle] /\ Release(w) /\ conflicted' = conflicted
  BY DEF Commit, At
<1>1. /\ Paid(w) /\ Holder(w)
      /\ \A s \in Slots : Visible(w, s) # NoStack =>
           /\ Visible(w, s).quantity <= MaxStack[Visible(w, s).item]
           /\ stacks[s] # NoStack => Visible(w, s).item = stacks[s].item
  BY <1>0, CommitFacts
<1>2. /\ tx'[w] = Idle /\ ~Holder(w)' /\ \A v \in Workers \ {w} : tx'[v] = tx[v]
      /\ tx' \in [Workers -> Transaction \cup {Idle}]
      /\ \A v \in Busy' : tx'[v].request \in Requests[pool']
      /\ Cardinality(Busy)' <= pool'
  BY <1>0, Ends
<1>3. \A s \in Slots : Visible(w, s) \in Stack
  BY <1>0, VisibleType DEF IInv
<1>4. stacks' \in [Slots -> Stack] /\ \A s \in Slots : stacks'[s] = Visible(w, s)
  BY <1>0, <1>3
<1>5. /\ worn' \in [EquipmentSlots -> Slots \cup {0}]
      /\ \A e \in EquipmentSlots : worn'[e] # 0 => worn'[e] = worn[e] /\ shelf[worn[e]] # NoStack
      /\ \A s \in Slots : Worn(s)' => Worn(s)
      /\ WornIsStored'
  <2> HIDE DEF shelf
  <2> QED BY <1>0, StillWornFacts DEF IInv
<1>6. gold' \in Nat
  <2>1. tx[w].earned \in Int /\ gold \in Nat
    BY <1>0, BusyFacts DEF IInv, Typed
  <2> QED BY <1>0, <1>1, <2>1 DEF Paid
<1>7. Typed'
  BY <1>0, <1>2, <1>4, <1>5, <1>6 DEF IInv, Typed
<1>8. /\ LocksHeld'
      /\ \A v \in Workers \ {w} : \A s \in Slots : stackLock[s] = v => stackLock'[s] = v
  BY <1>0, <1>2, ReleaseFacts DEF IInv
<1>9. \A v \in Busy \ {w} : Spared(v)
  <2>1. \A v \in Busy \ {w} : v \in Workers /\ tx'[v] = tx[v] /\ ~Holder(v)
    BY <1>1, <1>2, OneHolder DEF Busy, IInv
  <2>2. \A v \in Busy \ {w} : \A s \in Slots : stackLock[s] # v
    BY <2>1, OnlyHolders DEF IInv
  <2>3. pool = 1 => Busy \ {w} = {}
    BY <1>0, Alone
  <2> QED BY <1>4, <2>1, <2>2, <2>3 DEF Spared
<1>10. StacksFit'
  BY <1>1, <1>4 DEF StacksFit
<1>11. WornFits'
  <2>1. SUFFICES ASSUME pool = 1, NEW e \in EquipmentSlots, worn'[e] # 0
                 PROVE  FitsIn[stacks'[worn'[e]].item] = e
    BY DEF WornFits
  <2>2. /\ worn'[e] = worn[e] /\ worn[e] \in Slots
        /\ FitsIn[stacks[worn[e]].item] = e /\ stacks[worn[e]] # NoStack
    BY <1>5, <2>1 DEF IInv, WornFits, WornIsStored
  <2>3. Visible(w, worn[e]) # NoStack
    BY <1>5, <2>1, <2>2
  <2>4. stacks'[worn[e]].item = stacks[worn[e]].item
    BY <1>1, <1>4, <2>2, <2>3
  <2> QED BY <2>2, <2>4
<1> QED BY <1>0, <1>2, <1>5, <1>7, <1>8, <1>9, <1>10, <1>11, OneActs

-----------------------------------------------------------------------------
LEMMA Start == Init => IInv
<1> SUFFICES ASSUME Init PROVE IInv
  OBVIOUS
<1>1. Busy = {} /\ tx \in [Workers -> Transaction \cup {Idle}] /\ \A w \in Workers : ~Holder(w)
  BY DEF Init, Busy, Holder
<1>2. Typed
  <2>1. StartingGold \in Nat
    BY DefinitionsAssumption
  <2>2. stacks \in [Slots -> Stack]
    BY StackFacts DEF Init
  <2> QED BY <1>1, <2>1, <2>2 DEF Init, Typed
<1>3. LocksHeld
  <2>1. Nobody \notin Workers
    BY CallsAssumption
  <2> QED BY <1>1, <2>1 DEF Init, LocksHeld
<1>4. Cardinality(Busy) <= pool
  <2>1. pool \in Nat
    BY <1>2, CallsAssumption DEF Typed
  <2> QED BY <1>1, <2>1, FS_EmptySet
<1>5. WornIsStored /\ StacksFit /\ WornFits /\ NeverConflicts
  BY DEF Init, WornIsStored, StacksFit, WornFits, NeverConflicts
<1> QED BY <1>1, <1>2, <1>3, <1>4, <1>5 DEF IInv

LEMMA Stutter == IInv /\ UNCHANGED vars => IInv'
<1> SUFFICES ASSUME IInv, UNCHANGED vars PROVE IInv'
  OBVIOUS
<1>1. UNCHANGED <<pool, tx, locks, rows, conflicted>>
  BY DEF vars
<1>2. Typed'
  BY <1>1 DEF IInv, Typed, Busy, rows
<1>3. \A v \in Busy : Spared(v)
  BY <1>1, RowsSpare DEF locks
<1> QED BY <1>1, <1>2, <1>3, RowsStay, NoneActs

LEMMA Inductive == IInv /\ [Next]_vars => IInv'
<1> SUFFICES ASSUME IInv, Next PROVE IInv'
  BY Stutter
<1>0. pool' = pool
  BY DEF Next
<1>1. ASSUME NEW w \in Workers, NEW request \in Requests[pool], Begin(w, request) PROVE IInv'
  BY <1>0, <1>1, BeginStep
<1>2. ASSUME NEW w \in Workers, Advance(w) PROVE IInv'
  <2>1. CASE LockInventory(w)
    BY <1>0, <2>1, LockStep
  <2>2. CASE FindStack(w)
    BY <1>0, <2>2, FindStep
  <2>3. CASE IncreaseStack(w)
    BY <1>0, <2>3, IncreaseStep
  <2>4. CASE InsertStack(w)
    BY <1>0, <2>4, InsertStep
  <2>5. CASE MoveGold(w)
    BY <1>0, <2>5, PayStep
  <2>6. CASE ReadSold(w)
    BY <1>0, <2>6, ReadSoldStep
  <2>7. CASE RemoveSold(w)
    BY <1>0, <2>7, RemoveSoldStep
  <2>8. CASE ReadQuest(w)
    BY <1>0, <2>8, ReadQuestStep
  <2>9. CASE ClaimQuest(w)
    BY <1>0, <2>9, ClaimStep
  <2>10. CASE LookAt(w)
    BY <1>0, <2>10, LookStep
  <2>11. CASE ConsumeItem(w)
    BY <1>0, <2>11, ConsumeStep
  <2>12. CASE Equip(w)
    BY <1>0, <2>12, EquipStep
  <2>13. CASE Commit(w)
    BY <1>0, <2>13, CommitStep
  <2> QED BY <1>2, <2>1, <2>2, <2>3, <2>4, <2>5, <2>6, <2>7, <2>8, <2>9, <2>10,
             <2>11, <2>12, <2>13 DEF Advance
<1>3. ASSUME NEW w \in Workers, Retry(w) PROVE IInv'
  BY <1>0, <1>3, RetryStep
<1>4. ASSUME NEW w \in Workers, Rollback(w) PROVE IInv'
  BY <1>0, <1>4, GivesUp DEF Rollback, Refuse
<1>5. CASE AcceptQuest
  BY <1>0, <1>5, AcceptStep
<1>6. ASSUME NEW e \in EquipmentSlots, Unequip(e) PROVE IInv'
  BY <1>0, <1>6, UnequipStep
<1> QED BY <1>1, <1>2, <1>3, <1>4, <1>5, <1>6 DEF Next

(* LocksHeld, and what it lets every transaction rely on, hold in every    *)
(* state, whatever the calls and however many connections there are.       *)
THEOREM Invariant == Spec => []IInv
BY Start, Inductive, PTL DEF Spec

(* Rows, locks and transactions always hold values of their kind; gold is  *)
(* never negative (the CHECK on character_progress.gold).                  *)
THEOREM TypeCorrect == Spec => []TypeOK
<1>1. ASSUME IInv PROVE TypeOK
  <2>1. {inventoryLock, progressLock} \subseteq Workers \cup {Nobody}
    BY <1>1 DEF IInv, LocksHeld
  <2>2. stackLock \in [Slots -> Workers \cup {Nobody}]
    BY <1>1 DEF IInv, LocksHeld
  <2>3. ASSUME NEW w \in Busy
        PROVE  /\ tx[w].request \in Requests[pool]
               /\ DOMAIN tx[w].drafts \subseteq Slots
               /\ tx[w].attempt \in 1 .. Attempts
    <3>1. tx[w] \in Transaction /\ tx[w].request \in Requests[pool]
      BY <1>1, Before
    <3> QED BY <3>1, SomeStacksFacts DEF Transaction
  <2> QED BY <1>1, <2>1, <2>2, <2>3 DEF IInv, Typed, TypeOK
<1> QED BY <1>1, Invariant, PTL

(* No stack ever outgrows its item's limit (addItems).                     *)
THEOREM StacksAlwaysFit == Spec => []StacksFit
<1>1. IInv => StacksFit
  BY DEF IInv
<1> QED BY <1>1, Invariant, PTL

(* The row locks of an economic transaction are enough: requireOneRow      *)
(* never finds that the state has changed, even beside ConsumeItem.        *)
THEOREM TransactionsNeverConflict == Spec => []NeverConflicts
<1>1. IInv => NeverConflicts
  BY DEF IInv
<1> QED BY <1>1, Invariant, PTL

(* With one connection, as for SQLite, what is worn fits where it is worn. *)
THEOREM WornAlwaysFits == Spec => []WornFits
<1>1. IInv => WornFits
  BY DEF IInv
<1> QED BY <1>1, Invariant, PTL

(* A committed sale takes nothing off the character: Equip waits for the   *)
(* stack that SellItem found not to be worn.                               *)
THEOREM SalesNeverUndress == Spec => SalesLeaveEquipment
<1>1. ASSUME IInv, NEW w \in Workers, Commit(w), tx[w].request.kind = "Sell"
      PROVE  worn' = worn
  <2> DEFINE s == tx[w].request.slot
             shelf == [q \in Slots |-> Visible(w, q)]
  <2>1. w \in Busy /\ tx[w].step = "commit" /\ worn' = StillWorn(shelf)
    BY <1>1 DEF Commit, At
  <2>2. Removed(w)
    BY <1>1, <2>1, Before, StageOf
  <2>3. ~Worn(s) /\ DOMAIN tx[w].drafts = {s}
    BY <2>2 DEF Removed, Keeps
  <2>4. worn \in [EquipmentSlots -> Slots \cup {0}]
    BY <1>1 DEF IInv, Typed
  <2>5. ASSUME NEW e \in EquipmentSlots, worn[e] \in Slots PROVE shelf[worn[e]] # NoStack
    <3>1. worn[e] # s
      BY <2>3 DEF Worn
    <3>2. shelf[worn[e]] = stacks[worn[e]]
      BY <2>3, <2>5, <3>1 DEF Visible
    <3>3. worn[e] # 0
      BY <2>5 DEF Slots
    <3> QED BY <1>1, <3>2, <3>3 DEF IInv, WornIsStored
  <2> HIDE DEF shelf
  <2>6. StillWorn(shelf) = [e \in EquipmentSlots |-> worn[e]]
    BY <2>5 DEF StillWorn
  <2> QED BY <2>1, <2>4, <2>6
<1>2. IInv /\ [Next]_vars => [\A w \in Workers : Commit(w) /\ tx[w].request.kind = "Sell" => worn' = worn]_vars
  BY <1>1
<1> QED BY <1>2, Invariant, PTL DEF Spec, SalesLeaveEquipment


-----------------------------------------------------------------------------
(* What is owned, and what was reported of it. *)

Count(shelf, i) ==
  [s \in Slots |-> IF shelf[s].item = i THEN shelf[s].quantity ELSE 0]

Of(shelf, i) == SumFunctionOnSet(Count(shelf, i), Slots)

(* The inventory as a transaction sees it that found shelf.                *)
SeenBy(t, shelf) ==
  [s \in Slots |-> IF s \in DOMAIN t.drafts THEN t.drafts[s] ELSE shelf[s]]

Fills(t) ==
  /\ t # Idle
  /\ t.request.kind \in {"AddItems", "Buy"}
  /\ t.step \in {"find", "increase", "insert", "commit"}

(* What addItems has drafted is what it no longer has to add.              *)
ShowsGains(t, shelf) ==
  LET item == t.request.item
  IN  Of(SeenBy(t, shelf), item) + t.left = Of(shelf, item) + t.request.quantity

GainsShown == \A w \in Workers : Fills(tx[w]) => ShowsGains(tx[w], stacks)

(* ConsumeItem has the database for itself, as with SQLite, or is not      *)
(* called: beside another consumption its results may not be true.         *)
ConsumesSerially == pool = 1 \/ \A r \in Requests[pool] : r.kind # "Consume"

Booked ==
  /\ receipt \in [Items -> Int] /\ purse \in Int
  /\ ResultsAreTrue
  /\ GainsShown

BInv == ConsumesSerially => Booked


LEMMA CountType ==
  ASSUME NEW shelf \in [Slots -> Stack], NEW i
  PROVE  \A s \in Slots : Count(shelf, i)[s] \in Nat
BY StackFacts DEF Count

LEMMA OfType ==
  ASSUME NEW shelf \in [Slots -> Stack], NEW i
  PROVE  /\ Of(shelf, i) \in Nat
         /\ \A s \in Slots : shelf[s].item = i => shelf[s].quantity <= Of(shelf, i)
<1> DEFINE f == Count(shelf, i)
<1>1. \A s \in Slots : f[s] \in Nat
  BY CountType
<1>2. IsFiniteSet(Slots)
  BY SlotsAreFinite
<1>3. \A s \in Slots : shelf[s].item = i => f[s] = shelf[s].quantity
  BY DEF Count
<1> HIDE DEF f
<1>4. /\ SumFunctionOnSet(f, Slots) \in Nat
      /\ \A s \in Slots : f[s] <= SumFunctionOnSet(f, Slots)
  BY <1>1, <1>2, SumOfNaturals
<1>5. Of(shelf, i) = SumFunctionOnSet(f, Slots)
  BY DEF Of, f
<1> QED BY <1>3, <1>4, <1>5

(* The total of an item, stack by stack.                                   *)
LEMMA QuantityIsOf ==
  ASSUME NEW shelf \in [Slots -> Stack], NEW i
  PROVE  Quantity(shelf, {s \in Slots : shelf[s].item = i}) = Of(shelf, i)
<1> DEFINE R == {s \in Slots : shelf[s].item = i}
           f == Count(shelf, i)
           g == [s \in R |-> shelf[s].quantity]
<1>1. \A s \in Slots : f[s] \in Int
  BY CountType
<1>2. (\A s \in R : f[s] = g[s]) /\ (\A s \in Slots \ R : f[s] = 0)
  BY DEF Count
<1>3. IsFiniteSet(Slots) /\ R \in SUBSET Slots
  BY SlotsAreFinite
<1>4. Quantity(shelf, R) = SumFunctionOnSet(g, R) /\ Of(shelf, i) = SumFunctionOnSet(f, Slots)
  BY DEF Quantity, Of
<1> HIDE DEF R, f, g
<1>5. SumFunctionOnSet(f, Slots) = SumFunctionOnSet(g, R)
  BY <1>1, <1>2, <1>3, SumOfPart
<1> QED BY <1>4, <1>5 DEF R

LEMMA TotalIsOf ==
  ASSUME Typed, NEW i
  PROVE  Total(i) = Of(stacks, i)
BY QuantityIsOf DEF Typed, Total

(* Stacks that differ where the item is not.                               *)
LEMMA OtherItems ==
  ASSUME NEW shelf \in [Slots -> Stack], NEW other \in [Slots -> Stack], NEW i,
         \A s \in Slots : \/ other[s] = shelf[s]
                          \/ shelf[s].item # i /\ other[s].item # i
  PROVE  Of(other, i) = Of(shelf, i)
<1> DEFINE f == Count(shelf, i)
           g == Count(other, i)
<1>1. \A s \in Slots : g[s] = f[s]
  BY DEF Count
<1>2. IsFiniteSet(Slots)
  BY SlotsAreFinite
<1> HIDE DEF f, g
<1>3. SumFunctionOnSet(g, Slots) = SumFunctionOnSet(f, Slots)
  BY <1>1, <1>2, SumSame
<1> QED BY <1>3 DEF Of, f, g

LEMMA OneStack ==
  ASSUME NEW shelf \in [Slots -> Stack], NEW other \in [Slots -> Stack], NEW i,
         NEW s \in Slots, \A r \in Slots \ {s} : other[r] = shelf[r]
  PROVE  Of(other, i) + Count(shelf, i)[s] = Of(shelf, i) + Count(other, i)[s]
<1> DEFINE f == Count(shelf, i)
           g == Count(other, i)
<1>1. \A r \in Slots : f[r] \in Int /\ g[r] \in Int
  BY CountType
<1>2. \A r \in Slots \ {s} : f[r] = g[r]
  BY DEF Count
<1>3. IsFiniteSet(Slots)
  BY SlotsAreFinite
<1> HIDE DEF f, g
<1>4. SumFunctionOnSet(g, Slots) = SumFunctionOnSet(f, Slots) - f[s] + g[s]
  BY <1>1, <1>2, <1>3, SumChanges
<1>5. SumFunctionOnSet(f, Slots) \in Int
  BY <1>1, <1>3, SumType
<1>6. SumFunctionOnSet(g, Slots) + f[s] = SumFunctionOnSet(f, Slots) + g[s]
  BY <1>1, <1>4, <1>5
<1> QED BY <1>6 DEF Of, f, g


(* Nothing drafted, and everything left to add.                            *)
LEMMA NothingYet ==
  ASSUME NEW t, NEW shelf \in [Slots -> Stack], DOMAIN t.drafts = {},
         t.left = t.request.quantity
  PROVE  ShowsGains(t, shelf)
<1>1. SeenBy(t, shelf) = shelf
  BY DEF SeenBy
<1> QED BY <1>1 DEF ShowsGains

(* A stack of s grows, or is put in.                                       *)
LEMMA OneMore ==
  ASSUME NEW t, NEW u, NEW shelf \in [Slots -> Stack], ShowsGains(t, shelf),
         SeenBy(t, shelf) \in [Slots -> Stack], SeenBy(u, shelf) \in [Slots -> Stack],
         u.request = t.request, t.request.quantity \in Nat, t.left \in Nat,
         NEW s \in Slots, NEW added \in Nat,
         \A r \in Slots \ {s} : SeenBy(u, shelf)[r] = SeenBy(t, shelf)[r],
         Count(SeenBy(u, shelf), t.request.item)[s] =
           Count(SeenBy(t, shelf), t.request.item)[s] + added,
         u.left = t.left - added
  PROVE  ShowsGains(u, shelf)
<1> DEFINE item == t.request.item
           before == SeenBy(t, shelf)
           after == SeenBy(u, shelf)
           was == Count(before, item)[s]
           is == Count(after, item)[s]
<1>1. was \in Nat /\ is \in Nat /\ is = was + added
  BY CountType
<1>2. Of(after, item) + was = Of(before, item) + is
  <2> HIDE DEF before, after
  <2> QED BY OneStack DEF before, after
<1>3. Of(after, item) \in Nat /\ Of(before, item) \in Nat /\ Of(shelf, item) \in Nat
  BY OfType
<1>4. Of(before, item) + t.left = Of(shelf, item) + t.request.quantity
  BY DEF ShowsGains
<1> HIDE DEF was, is, before, after
<1>5. Of(after, item) + (t.left - added) = Of(shelf, item) + t.request.quantity
  BY <1>1, <1>2, <1>3, <1>4
<1> QED BY <1>5 DEF ShowsGains, after

LEMMA FillingFacts ==
  ASSUME IInv, NEW w \in Workers, Fills(tx[w])
  PROVE  /\ w \in Busy /\ Adding(w) /\ Holder(w)
         /\ SeenBy(tx[w], stacks) = [s \in Slots |-> Visible(w, s)]
         /\ SeenBy(tx[w], stacks) \in [Slots -> Stack]
<1>1. w \in Busy
  BY DEF Fills, Busy
<1>2. Adding(w)
  BY <1>1, Before, StageOf DEF Fills
<1>3. SeenBy(tx[w], stacks) = [s \in Slots |-> Visible(w, s)]
  BY DEF SeenBy, Visible
<1>4. \A s \in Slots : Visible(w, s) \in Stack
  BY <1>1, VisibleType DEF IInv
<1> QED BY <1>1, <1>2, <1>3, <1>4, AddingFacts

(* A transaction goes on or ends, and the stacks stay.                     *)
LEMMA ShownStill ==
  ASSUME GainsShown, IInv, stacks' = stacks, NEW w \in Workers, NEW t,
         tx' = [tx EXCEPT ![w] = t],
         Fills(t) => ShowsGains(t, stacks)
  PROVE  GainsShown'
<1>1. tx'[w] = t /\ \A v \in Workers \ {w} : tx'[v] = tx[v]
  BY DEF IInv, Typed
<1> QED BY <1>1 DEF GainsShown

LEMMA ShownByOthers ==
  ASSUME GainsShown, stacks' = stacks, tx' = tx
  PROVE  GainsShown'
BY DEF GainsShown

LEMMA LockShows ==
  ASSUME IInv, GainsShown, NEW w \in Workers, LockInventory(w)
  PROVE  GainsShown'
<1> DEFINE t == [tx[w] EXCEPT !.step = AfterLock(tx[w].request.kind)]
<1>1. w \in Busy /\ tx[w].step = "lock" /\ tx' = [tx EXCEPT ![w] = t] /\ stacks' = stacks
  BY DEF LockInventory, At, Proceed, rows
<1>2. Untouched(w) /\ tx[w] \in Transaction
  BY <1>1, Before, StageOf DEF Beginning
<1>3. DOMAIN t.drafts = {} /\ t.left = t.request.quantity
  BY <1>2 DEF Untouched, Transaction
<1> HIDE DEF t
<1>4. ShowsGains(t, stacks)
  BY <1>3, NothingYet DEF IInv, Typed
<1> QED BY <1>1, <1>4, ShownStill

LEMMA PayShows ==
  ASSUME IInv, GainsShown, NEW w \in Workers, MoveGold(w), Affordable(tx[w].request)
  PROVE  GainsShown'
<1> DEFINE kind == tx[w].request.kind
           step == IF kind = "Buy" THEN "find" ELSE "commit"
           t == [tx[w] EXCEPT !.earned = Earns(tx[w].request), !.step = step]
<1>1. /\ w \in Busy /\ tx[w].step = "pay" /\ tx' = [tx EXCEPT ![w] = t] /\ stacks' = stacks
      /\ kind \in {"Buy", "Sell", "Complete"}
  BY DEF MoveGold, At, Proceed, rows
<1>2. tx[w] \in Transaction
  BY <1>1, Before
<1>3. t.request = tx[w].request /\ t.drafts = tx[w].drafts /\ t.left = tx[w].left
  BY <1>2 DEF Transaction
<1>4. Fills(t) => kind = "Buy"
  BY <1>1, <1>3 DEF Fills
<1>5. kind = "Buy" => Untouched(w)
  BY <1>1, Before, StageOf DEF Paying
<1>6. kind = "Buy" => DOMAIN t.drafts = {} /\ t.left = t.request.quantity
  BY <1>3, <1>5 DEF Untouched
<1> HIDE DEF t
<1>7. Fills(t) => ShowsGains(t, stacks)
  BY <1>4, <1>6, NothingYet DEF IInv, Typed
<1> QED BY <1>1, <1>7, ShownStill

LEMMA FindShows ==
  ASSUME IInv, GainsShown, NEW w \in Workers, FindStack(w)
  PROVE  GainsShown'
<1>1. PICK t : /\ tx' = [tx EXCEPT ![w] = t] /\ stacks' = stacks
               /\ t.request = tx[w].request /\ t.drafts = tx[w].drafts /\ t.left = tx[w].left
  <2>1. w \in Busy /\ tx[w] \in Transaction
    BY Before DEF FindStack, At
  <2> QED BY <2>1 DEF FindStack, Proceed, rows, Transaction
<1>2. Fills(tx[w])
  BY DEF FindStack, At, Fills, Busy
<1>3. ShowsGains(tx[w], stacks)
  BY <1>2 DEF GainsShown
<1>4. ShowsGains(t, stacks)
  BY <1>1, <1>3 DEF ShowsGains, SeenBy
<1> QED BY <1>1, <1>4, ShownStill


LEMMA AddsShow ==
  ASSUME IInv, GainsShown, NEW w \in Workers, Fills(tx[w]), tx[w].step # "commit",
         NEW s \in Slots, NEW q \in Nat, q < MaxStack[tx[w].request.item],
         Count(SeenBy(tx[w], stacks), tx[w].request.item)[s] = q,
         NEW added, added = Lesser(tx[w].left, Room(tx[w].request.item, q)),
         Proceed(w, Added(w, s, q, added))
  PROVE  GainsShown'
<1> DEFINE item == tx[w].request.item
           u == Added(w, s, q, added)
           stack == Holding(item, q + added)
           before == SeenBy(tx[w], stacks)
           after == SeenBy(u, stacks)
<1>1. /\ w \in Busy /\ Adding(w) /\ before \in [Slots -> Stack]
      /\ tx[w] \in Transaction /\ item \in Items
      /\ tx[w].request.quantity \in Nat /\ tx[w].left \in Nat
  <2>1. w \in Busy /\ Adding(w) /\ before \in [Slots -> Stack]
    BY FillingFacts
  <2>2. tx[w].left \in Nat
    BY <2>1, AddingFacts
  <2> QED BY <2>1, <2>2, Before
<1>2. added \in Nat /\ added > 0 /\ q + added \in Nat
  <2>1. tx[w].left > 0
    BY <1>1 DEF Adding
  <2>2. added \in Nat /\ added > 0
    BY <1>1, <2>1, AddedAmount
  <2> QED BY <2>2
<1>3. stack \in Stack /\ stack.item = item /\ stack.quantity = q + added
  BY <1>1, <1>2, HoldingFacts
<1>4. /\ u.request = tx[w].request /\ u.left = tx[w].left - added
      /\ u.drafts = Drafted(w, s, stack)
  BY <1>1 DEF Added, Transaction
<1> HIDE DEF u, stack
<1>5. after = [before EXCEPT ![s] = stack]
  <2>1. after = [r \in Slots |-> IF r = s THEN stack ELSE before[r]]
    BY <1>4 DEF SeenBy, Drafted
  <2> HIDE DEF after
  <2> QED BY <1>1, <2>1
<1> HIDE DEF before, after
<1>6. /\ after \in [Slots -> Stack] /\ \A r \in Slots \ {s} : after[r] = before[r]
      /\ after[s] = stack
  BY <1>1, <1>3, <1>5
<1>7. Count(after, item)[s] = Count(before, item)[s] + added
  BY <1>3, <1>6 DEF Count, before
<1>8. ShowsGains(tx[w], stacks)
  BY DEF GainsShown
<1>9. stacks \in [Slots -> Stack] /\ tx' = [tx EXCEPT ![w] = u] /\ stacks' = stacks
  BY DEF IInv, Typed, Proceed, rows, u
<1>10. ShowsGains(u, stacks)
  BY <1>1, <1>2, <1>4, <1>6, <1>7, <1>8, <1>9, OneMore DEF before, after
<1> QED BY <1>9, <1>10, ShownStill

LEMMA IncreaseShows ==
  ASSUME IInv, GainsShown, NEW w \in Workers, IncreaseStack(w)
  PROVE  GainsShown'
<1> DEFINE s == tx[w].at
           item == tx[w].request.item
           q == tx[w].seen[s].quantity
           added == Lesser(tx[w].left, Room(item, q))
<1>1. Fills(tx[w]) /\ tx[w].step = "increase"
  BY DEF IncreaseStack, At, Fills, Busy
<1>2. /\ w \in Busy /\ Adding(w)
      /\ SeenBy(tx[w], stacks) = [r \in Slots |-> Visible(w, r)]
  BY <1>1, FillingFacts
<1>3. s \in Slots
  BY <1>2, AddingFacts
<1>4. tx[w].seen[s] = Visible(w, s) /\ Visible(w, s).item = item /\ q < MaxStack[item]
  BY <1>1, <1>2 DEF Adding
<1>5. q \in Nat
  BY <1>2, <1>3, <1>4, VisibleType, StackFacts DEF IInv
<1>6. Proceed(w, Added(w, s, q, added))
  BY <1>4 DEF IncreaseStack
<1> HIDE DEF s
<1>7. Count(SeenBy(tx[w], stacks), item)[s] = q
  BY <1>2, <1>3, <1>4 DEF Count
<1> HIDE DEF q, added
<1> QED BY <1>1, <1>3, <1>4, <1>5, <1>6, <1>7, AddsShow DEF added

LEMMA InsertShows ==
  ASSUME IInv, GainsShown, NEW w \in Workers, InsertStack(w)
  PROVE  GainsShown'
<1> DEFINE s == tx[w].at
           item == tx[w].request.item
           added == Lesser(tx[w].left, Room(item, 0))
<1>1. Fills(tx[w]) /\ tx[w].step = "insert"
  BY DEF InsertStack, At, Fills, Busy
<1>2. /\ w \in Busy /\ Adding(w)
      /\ SeenBy(tx[w], stacks) = [r \in Slots |-> Visible(w, r)]
  BY <1>1, FillingFacts
<1>3. s \in Slots /\ item \in Items /\ 0 < MaxStack[item]
  BY <1>2, AddingFacts
<1>4. s \notin DOMAIN tx[w].drafts /\ stacks[s] = NoStack
  BY <1>1, <1>2 DEF Adding
<1>5. Proceed(w, Added(w, s, 0, added))
  BY <1>4 DEF InsertStack
<1> HIDE DEF s
<1>6. Visible(w, s) = NoStack
  BY <1>4 DEF Visible
<1>7. Count(SeenBy(tx[w], stacks), item)[s] = 0
  BY <1>2, <1>3, <1>6, StackFacts DEF Count
<1> HIDE DEF added
<1> QED BY <1>1, <1>3, <1>5, <1>7, AddsShow DEF added

(* Every other step of a transaction leaves it without additions.          *)
LEMMA OthersShow ==
  ASSUME IInv, GainsShown, NEW w \in Workers, stacks' = stacks,
         NEW t, tx' = [tx EXCEPT ![w] = t],
         \/ t = Idle
         \/ t.step \in {"lock", "look"}
         \/ t.request.kind \in {"Sell", "Complete", "Consume", "Equip"}
  PROVE  GainsShown'
<1>1. ~Fills(t)
  BY DEF Fills
<1> QED BY <1>1, ShownStill


-----------------------------------------------------------------------------
(* What a commit changes of what is owned. *)

(* The stacks a hand-in uses up, from the lowest slot on, make up just     *)
(* what the quest asks for.                                                *)
LEMMA HandedInTotal ==
  ASSUME NEW seen \in SomeStacks, Quantity(seen, DOMAIN seen) >= Objective.quantity
  PROVE  SumFunctionOnSet([s \in DOMAIN seen |-> HandedIn(seen, s)], DOMAIN seen) = Objective.quantity
<1> DEFINE D == DOMAIN seen
           K == Objective.quantity
           f == [s \in D |-> seen[s].quantity]
           h == [s \in D |-> HandedIn(seen, s)]
           Below(n) == {r \in D : r < n}
           F(n) == SumFunctionOnSet(f, Below(n))
           H(n) == SumFunctionOnSet(h, Below(n))
           T == {n \in Nat : H(n) = Lesser(F(n), K)}
<1>0. /\ K \in Nat /\ D \subseteq Slots /\ D \subseteq Nat
      /\ \A s \in D : f[s] \in Nat /\ h[s] \in Nat
  <2>1. D \subseteq Slots /\ \A s \in D : seen[s] \in Stack
    BY SomeStacksFacts
  <2>2. \A s \in D : HandedIn(seen, s) \in Nat
    BY HandedInFacts
  <2> QED BY <2>1, <2>2, StackFacts, DefinitionsAssumption DEF Slots
<1>1. ASSUME NEW n \in Nat PROVE IsFiniteSet(Below(n)) /\ Below(n) \subseteq D
  <2>1. Below(n) \in SUBSET Slots
    BY <1>0
  <2> QED BY <2>1, SlotsAreFinite
<1>2. ASSUME NEW n \in Nat PROVE F(n) \in Nat /\ H(n) \in Nat
  <2>1. IsFiniteSet(Below(n)) /\ \A s \in Below(n) : f[s] \in Nat /\ h[s] \in Nat
    BY <1>0, <1>1
  <2> HIDE DEF f, h, Below
  <2>2. F(n) \in Nat
    BY <2>1, SumOfNaturals
  <2>3. H(n) \in Nat
    BY <2>1, SumOfNaturals
  <2> QED BY <2>2, <2>3
<1>3. ASSUME NEW s \in D PROVE h[s] = Lesser(f[s], Max({0, K - F(s)}))
  <2> DEFINE g == [r \in Below(s) |-> seen[r].quantity]
  <2>1. s \in Nat /\ IsFiniteSet(Below(s)) /\ \A r \in Below(s) : g[r] = f[r]
    BY <1>0, <1>1
  <2>2. Quantity(seen, Below(s)) = SumFunctionOnSet(g, Below(s))
    BY DEF Quantity
  <2>3. SumFunctionOnSet(g, Below(s)) = SumFunctionOnSet(f, Below(s))
    <3> HIDE DEF g, f, Below
    <3> QED BY <2>1, SumSame
  <2>4. Quantity(seen, {r \in DOMAIN seen : r < s}) = F(s)
    BY <2>2, <2>3
  <2> QED BY <2>4 DEF HandedIn
<1>4. 0 \in T
  <2>1. Below(0) = {}
    BY <1>0
  <2>2. F(0) = 0
    BY <2>1, SumEmpty
  <2>3. H(0) = 0
    BY <2>1, SumEmpty
  <2> HIDE DEF F, H
  <2> QED BY <1>0, <2>2, <2>3 DEF Lesser
<1>5. ASSUME NEW n \in T PROVE n + 1 \in T
  <2>1. CASE n \in D
    <3>0. \A r \in D : r < n + 1 <=> r < n \/ r = n
      BY <1>0, <1>5
    <3>1. Below(n + 1) = Below(n) \cup {n} /\ n \notin Below(n)
      BY <1>5, <2>1, <3>0
    <3>2. IsFiniteSet(Below(n)) /\ \A s \in Below(n) \cup {n} : f[s] \in Int /\ h[s] \in Int
      BY <1>0, <1>1, <2>1
    <3>3. f[n] \in Nat /\ h[n] = Lesser(f[n], Max({0, K - F(n)})) /\ F(n) \in Nat /\ H(n) = Lesser(F(n), K)
      BY <1>0, <1>2, <1>3, <2>1
    <3>4. F(n + 1) = f[n] + F(n)
      <4> HIDE DEF f, Below
      <4> QED BY <3>1, <3>2, SumPutsIn
    <3>5. H(n + 1) = h[n] + H(n)
      <4> HIDE DEF h, Below
      <4> QED BY <3>1, <3>2, SumPutsIn
    <3> HIDE DEF F, H, f, h
    <3>6. K - F(n) \in Int /\ Max({0, K - F(n)}) = IF 0 >= K - F(n) THEN 0 ELSE K - F(n)
      BY <1>0, <3>3, MaxOfTwo
    <3>7. H(n + 1) = Lesser(F(n + 1), K)
      BY <1>0, <3>3, <3>4, <3>5, <3>6 DEF Lesser
    <3>8. n + 1 \in Nat
      BY <1>5
    <3> QED BY <3>7, <3>8
  <2>2. CASE n \notin D
    <3>1. \A r \in D : r < n + 1 <=> r < n
      BY <1>0, <1>5, <2>2
    <3>2. Below(n + 1) = Below(n)
      BY <3>1
    <3>3. F(n + 1) = F(n) /\ H(n + 1) = H(n)
      <4> HIDE DEF Below
      <4> QED BY <3>2
    <3> HIDE DEF F, H
    <3>4. n + 1 \in Nat /\ H(n) = Lesser(F(n), K)
      BY <1>5
    <3> QED BY <3>3, <3>4
  <2> QED BY <2>1, <2>2
<1> HIDE DEF T
<1>6. Nat \subseteq T
  BY <1>4, <1>5, Induction
<1>7. MaxSlot + 1 \in T
  BY <1>6, CallsAssumption
<1>8. Below(MaxSlot + 1) = D
  BY <1>0, CallsAssumption DEF Slots
<1>9. SumFunctionOnSet(h, D) = Lesser(SumFunctionOnSet(f, D), K)
  <2>1. H(MaxSlot + 1) = Lesser(F(MaxSlot + 1), K)
    BY <1>7 DEF T
  <2> HIDE DEF f, h, D
  <2> QED BY <1>8, <2>1
<1>10. SumFunctionOnSet(f, D) >= K /\ SumFunctionOnSet(f, D) \in Nat
  <2>1. F(MaxSlot + 1) \in Nat
    <3>1. MaxSlot + 1 \in Nat
      BY CallsAssumption
    <3> HIDE DEF F, H
    <3> QED BY <1>2, <3>1
  <2>2. SumFunctionOnSet(f, D) \in Nat
    <3> HIDE DEF f, D, Below
    <3> QED BY <1>8, <2>1
  <2> QED BY <2>2 DEF Quantity
<1> QED BY <1>0, <1>9, <1>10 DEF Lesser


Trades(before, after, r) ==
  \A i \in Items : Of(after, i) = Of(before, i) + (IF i = r.item THEN Gains(r) ELSE 0)

(* Drafts only touch the item that is traded.                              *)
LEMMA DraftsTrade ==
  ASSUME NEW t, NEW shelf \in [Slots -> Stack], SeenBy(t, shelf) \in [Slots -> Stack],
         NEW r, Gains(r) \in Int, r.item \in Items,
         \A s \in DOMAIN t.drafts :
           shelf[s].item \in {r.item, NoItem} /\ t.drafts[s].item \in {r.item, NoItem},
         Of(SeenBy(t, shelf), r.item) = Of(shelf, r.item) + Gains(r)
  PROVE  Trades(shelf, SeenBy(t, shelf), r)
<1> DEFINE after == SeenBy(t, shelf)
<1>1. ASSUME NEW i \in Items, i # r.item PROVE Of(after, i) = Of(shelf, i)
  <2>1. i # NoItem
    BY CallsAssumption
  <2>2. \A s \in Slots : \/ after[s] = shelf[s]
                         \/ shelf[s].item # i /\ after[s].item # i
    BY <1>1, <2>1 DEF SeenBy
  <2> HIDE DEF after
  <2> QED BY <2>2, OtherItems DEF after
<1>2. \A i \in Items : Of(shelf, i) \in Nat
  BY OfType
<1> HIDE DEF after
<1>3. ASSUME NEW i \in Items
      PROVE  Of(after, i) = Of(shelf, i) + (IF i = r.item THEN Gains(r) ELSE 0)
  BY <1>1, <1>2 DEF after
<1> QED BY <1>3 DEF Trades, after

(* A hand-in takes what the quest asks for.                                *)
LEMMA ClaimedTrades ==
  ASSUME IInv, NEW w \in Busy, Claimed(w)
  PROVE  /\ Of(SeenBy(tx[w], stacks), Objective.item) =
              Of(stacks, Objective.item) - Objective.quantity
         /\ Of(stacks, Objective.item) >= Objective.quantity
<1> DEFINE item == Objective.item
           seen == tx[w].seen
           after == SeenBy(tx[w], stacks)
           f == Count(stacks, item)
           g == Count(after, item)
           h == [s \in Slots |-> IF s \in Needed THEN HandedIn(seen, s) ELSE 0]
           k == [s \in Needed |-> HandedIn(seen, s)]
<1>0. /\ stacks \in [Slots -> Stack] /\ seen \in SomeStacks /\ DOMAIN tx[w].drafts \subseteq Slots
      /\ Needed \subseteq Slots /\ item \in Items /\ item # NoItem
  <2>1. tx[w] \in Transaction
    BY Before
  <2>2. seen \in SomeStacks /\ DOMAIN tx[w].drafts \subseteq Slots
    BY <2>1, SomeStacksFacts DEF Transaction
  <2> QED BY <2>2, DefinitionsAssumption, CallsAssumption DEF IInv, Typed, Needed
<1>1. /\ DOMAIN seen = Needed
      /\ \A s \in Needed : seen[s] = stacks[s] /\ stacks[s].item = item
      /\ DOMAIN tx[w].drafts = {s \in Needed : HandedIn(seen, s) > 0}
      /\ \A s \in DOMAIN tx[w].drafts :
           tx[w].drafts[s] = Holding(item, seen[s].quantity - HandedIn(seen, s))
      /\ Quantity(stacks, Needed) >= Objective.quantity
  BY DEF Claimed, HasRead, Needed
<1>2. \A s \in Needed : HandedIn(seen, s) \in Nat /\ HandedIn(seen, s) <= stacks[s].quantity
  BY <1>0, <1>1, HandedInFacts
<1>3. Quantity(stacks, Needed) = Of(stacks, item)
  BY <1>0, QuantityIsOf DEF Needed
<1>4. Quantity(seen, DOMAIN seen) >= Objective.quantity
  <2>1. [s \in Needed |-> seen[s].quantity] = [s \in Needed |-> stacks[s].quantity]
    BY <1>1
  <2> QED BY <1>1, <2>1 DEF Quantity
<1>5. SumFunctionOnSet(k, Needed) = Objective.quantity
  BY <1>0, <1>1, <1>4, HandedInTotal
<1>6. \A s \in Slots : f[s] \in Nat /\ h[s] \in Int /\ g[s] \in Int /\ f[s] = g[s] + h[s]
  <2>1. ASSUME NEW s \in Slots PROVE f[s] \in Nat /\ h[s] \in Int /\ g[s] \in Int /\ f[s] = g[s] + h[s]
    <3>1. stacks[s].quantity \in Nat
      BY <1>0, StackFacts
    <3>2. CASE s \in DOMAIN tx[w].drafts
      <4> DEFINE rest == seen[s].quantity - HandedIn(seen, s)
      <4>1. s \in Needed /\ f[s] = stacks[s].quantity /\ seen[s].quantity = stacks[s].quantity
        BY <1>1, <3>2 DEF Count
      <4>2. rest \in Nat
        BY <1>2, <3>1, <4>1
      <4>3. after[s] = Holding(item, rest)
        BY <1>1, <3>2 DEF SeenBy
      <4> HIDE DEF after
      <4>4. g[s] = rest
        BY <1>0, <4>2, <4>3, HoldingFacts DEF Count
      <4>5. h[s] = HandedIn(seen, s)
        BY <4>1
      <4> QED BY <1>2, <3>1, <4>1, <4>4, <4>5
    <3>3. CASE s \notin DOMAIN tx[w].drafts
      <4>1. after[s] = stacks[s]
        BY <3>3 DEF SeenBy
      <4>2. g[s] = f[s]
        BY <4>1 DEF Count
      <4>3. h[s] = 0
        BY <1>1, <1>2, <3>3
      <4>4. f[s] \in Nat
        BY <3>1 DEF Count
      <4> QED BY <4>2, <4>3, <4>4
    <3> QED BY <3>2, <3>3
  <2> QED BY <2>1
<1>7. /\ \A s \in Needed : h[s] = k[s]
      /\ \A s \in Slots \ Needed : h[s] = 0
  BY <1>0
<1>8. IsFiniteSet(Slots)
  BY SlotsAreFinite
<1> HIDE DEF f, g, h, k
<1>9. SumFunctionOnSet(f, Slots) = SumFunctionOnSet(g, Slots) + SumFunctionOnSet(h, Slots)
  BY <1>6, <1>8, SumPlus
<1>10. SumFunctionOnSet(h, Slots) = SumFunctionOnSet(k, Needed)
  BY <1>0, <1>6, <1>7, <1>8, SumOfPart
<1>11. SumFunctionOnSet(g, Slots) \in Int
  BY <1>6, <1>8, SumType
<1>12. Of(stacks, item) = SumFunctionOnSet(f, Slots) /\ Of(after, item) = SumFunctionOnSet(g, Slots)
  BY DEF Of, f, g
<1>13. Objective.quantity \in Nat
  BY DefinitionsAssumption
<1> HIDE DEF item, after
<1>14. Of(after, item) = Of(stacks, item) - Objective.quantity
  BY <1>5, <1>9, <1>10, <1>11, <1>12, <1>13
<1> QED BY <1>1, <1>3, <1>14 DEF item, after


(* One that sells takes one off its stack.                                 *)
LEMMA RemovedTrades ==
  ASSUME IInv, NEW w \in Busy, Removed(w)
  PROVE  /\ Of(SeenBy(tx[w], stacks), tx[w].request.item) = Of(stacks, tx[w].request.item) - 1
         /\ Of(stacks, tx[w].request.item) > 0
<1> DEFINE item == tx[w].request.item
           s == tx[w].request.slot
           after == SeenBy(tx[w], stacks)
           rest == stacks[s].quantity - 1
<1>1. /\ item \in Items /\ s \in Slots /\ stacks[s].item = item /\ stacks \in [Slots -> Stack]
      /\ DOMAIN tx[w].drafts = {s} /\ tx[w].drafts[s] = Holding(item, rest)
  <2>1. item \in Items /\ s \in Slots /\ stacks \in [Slots -> Stack]
    BY Before DEF IInv, Typed
  <2> QED BY <2>1 DEF Removed
<1>2. stacks[s].quantity \in Nat \ {0} /\ rest \in Nat
  <2>1. stacks[s] \in Stack /\ stacks[s].item # NoItem
    BY <1>1, CallsAssumption
  <2> QED BY <2>1, StackFacts
<1>3. /\ Holding(item, rest) \in Stack /\ Count(after, item)[s] = rest
      /\ Count(stacks, item)[s] = stacks[s].quantity
  <2>1. after[s] = Holding(item, rest)
    BY <1>1 DEF SeenBy
  <2> HIDE DEF after, rest
  <2> QED BY <1>1, <1>2, <2>1, HoldingFacts DEF Count
<1>4. after \in [Slots -> Stack] /\ \A r \in Slots \ {s} : after[r] = stacks[r]
  BY <1>1, <1>3 DEF SeenBy
<1>5. Of(stacks, item) \in Nat /\ stacks[s].quantity <= Of(stacks, item)
  BY <1>1, OfType
<1> HIDE DEF after, s
<1>6. Of(after, item) + Count(stacks, item)[s] = Of(stacks, item) + Count(after, item)[s]
  BY <1>1, <1>4, OneStack
<1>7. Of(after, item) \in Nat
  BY <1>4, OfType
<1> HIDE DEF item
<1>8. Of(after, item) = Of(stacks, item) - 1 /\ Of(stacks, item) > 0
  BY <1>2, <1>3, <1>5, <1>6, <1>7
<1> QED BY <1>8 DEF after, item

LEMMA GainsType ==
  ASSUME NEW r \in Request, r.kind # "Equip"
  PROVE  Gains(r) \in Int
<1>1. r.quantity \in Nat /\ Objective.quantity \in Nat /\ r.kind \in Kinds
  BY DefinitionsAssumption DEF Request
<1> QED BY <1>1 DEF Gains, Kinds

(* A commit carries out just the trade it reports.                         *)
LEMMA CommitTrades ==
  ASSUME IInv, GainsShown, NEW w \in Workers, At(w, Economic, "commit")
  PROVE  LET r == tx[w].request
         IN  /\ SeenBy(tx[w], stacks) = [s \in Slots |-> Visible(w, s)]
             /\ SeenBy(tx[w], stacks) \in [Slots -> Stack]
             /\ Trades(stacks, SeenBy(tx[w], stacks), r)
             /\ Paid(w)
             /\ r.kind = "Sell" => Of(stacks, r.item) > 0
             /\ r.kind = "Complete" =>
                  /\ r.item = Objective.item /\ Of(stacks, r.item) >= Objective.quantity
                  /\ quest = "active"
             /\ tx[w].claims <=> r.kind = "Complete"
<1> DEFINE r == tx[w].request
           item == r.item
           after == SeenBy(tx[w], stacks)
<1>0. /\ w \in Busy /\ r.kind \in Economic /\ tx[w].step = "commit"
      /\ r \in Request /\ r \in Requests[pool] /\ pool \in Pools /\ item \in Items
      /\ stacks \in [Slots -> Stack] /\ InStage(w)
  BY Before DEF At, IInv, Typed
<1>1. after = [s \in Slots |-> Visible(w, s)] /\ after \in [Slots -> Stack]
  <2>1. \A s \in Slots : Visible(w, s) \in Stack
    BY <1>0, VisibleType DEF IInv
  <2> QED BY <2>1 DEF SeenBy, Visible
<1>2. Gains(r) \in Int /\ Paid(w)
  BY <1>0, GainsType, CommitFacts DEF Economic
<1>3. CASE r.kind \in {"AddItems", "Buy"}
  <2>1. Adding(w)
    BY <1>0, <1>3, StageOf
  <2>2. tx[w].left = 0 /\ tx[w].claims = FALSE
        /\ \A s \in DOMAIN tx[w].drafts :
             stacks[s].item \in {item, NoItem} /\ tx[w].drafts[s].item \in {item, NoItem}
    BY <1>0, <2>1 DEF Adding
  <2>3. ShowsGains(tx[w], stacks)
    <3>1. Fills(tx[w])
      BY <1>0, <1>3 DEF Fills, Busy
    <3> QED BY <3>1 DEF GainsShown
  <2>4. Of(after, item) \in Nat /\ r.quantity \in Nat /\ Gains(r) = r.quantity
    <3>1. r.kind = "Buy" => r.quantity = 1
      BY <1>0, RequestFacts
    <3>2. r.quantity \in Nat
      BY <1>0 DEF Request
    <3> QED BY <1>1, <1>3, <3>1, <3>2, OfType DEF Gains
  <2>5. Of(after, item) = Of(stacks, item) + Gains(r)
    BY <2>2, <2>3, <2>4 DEF ShowsGains
  <2>6. Trades(stacks, after, r)
    BY <1>0, <1>1, <1>2, <2>2, <2>5, DraftsTrade
  <2> QED BY <1>1, <1>2, <1>3, <2>2, <2>6
<1>4. CASE r.kind = "Sell"
  <2>1. Removed(w)
    BY <1>0, <1>4, StageOf
  <2>2. /\ tx[w].claims = FALSE /\ stacks[r.slot].item = item /\ DOMAIN tx[w].drafts = {r.slot}
        /\ tx[w].drafts[r.slot] = Holding(item, stacks[r.slot].quantity - 1)
    BY <2>1 DEF Removed
  <2>3. Of(after, item) = Of(stacks, item) - 1 /\ Of(stacks, item) > 0
    BY <1>0, <2>1, RemovedTrades
  <2>4. \A s \in DOMAIN tx[w].drafts :
          stacks[s].item \in {item, NoItem} /\ tx[w].drafts[s].item \in {item, NoItem}
    BY <2>2, StackFacts DEF Holding
  <2>5. Of(after, item) = Of(stacks, item) + Gains(r)
    <3>1. Gains(r) = -1 /\ Of(stacks, item) \in Nat
      BY <1>0, <1>4, OfType DEF Gains
    <3> QED BY <2>3, <3>1
  <2>6. Trades(stacks, after, r)
    BY <1>0, <1>1, <1>2, <2>4, <2>5, DraftsTrade
  <2> QED BY <1>1, <1>2, <1>4, <2>2, <2>3, <2>6
<1>5. CASE r.kind = "Complete"
  <2>1. Claimed(w)
    BY <1>0, <1>5, StageOf
  <2>2. item = Objective.item
    BY <1>0, <1>5, RequestFacts
  <2>3. /\ tx[w].claims = TRUE /\ quest = "active"
        /\ \A s \in DOMAIN tx[w].drafts :
             stacks[s].item \in {item, NoItem} /\ tx[w].drafts[s].item \in {item, NoItem}
    <3>1. /\ tx[w].claims = TRUE /\ quest = "active"
          /\ DOMAIN tx[w].drafts \subseteq Needed
          /\ \A s \in DOMAIN tx[w].drafts :
               tx[w].drafts[s] =
                 Holding(Objective.item, tx[w].seen[s].quantity - HandedIn(tx[w].seen, s))
      BY <2>1 DEF Claimed, HasRead
    <3>2. \A s \in DOMAIN tx[w].drafts : tx[w].drafts[s].item \in {item, NoItem}
      <4>1. \A q : Holding(Objective.item, q).item \in {Objective.item, NoItem}
        BY DEF Holding, NoStack
      <4> QED BY <2>2, <3>1, <4>1
    <3> QED BY <2>2, <3>1, <3>2 DEF Needed
  <2>4. /\ Of(after, item) = Of(stacks, item) - Objective.quantity
        /\ Of(stacks, item) >= Objective.quantity
    BY <1>0, <2>1, <2>2, ClaimedTrades
  <2>5. Of(after, item) = Of(stacks, item) + Gains(r)
    <3>1. Gains(r) = -Objective.quantity /\ Of(stacks, item) \in Nat /\ Objective.quantity \in Nat
      BY <1>0, <1>5, OfType, DefinitionsAssumption DEF Gains
    <3> QED BY <2>4, <3>1
  <2>6. Trades(stacks, after, r)
    BY <1>0, <1>1, <1>2, <2>3, <2>5, DraftsTrade
  <2> QED BY <1>1, <1>2, <1>5, <2>2, <2>3, <2>4, <2>6
<1> QED BY <1>0, <1>3, <1>4, <1>5 DEF Economic

(* A consumption that has the database for itself takes what it looked at. *)
LEMMA ConsumeTrades ==
  ASSUME IInv, NEW w \in Workers, ConsumeItem(w), pool = 1
  PROVE  LET r == tx[w].request
         IN  /\ r.kind = "Consume" /\ w \in Busy
             /\ stacks' \in [Slots -> Stack]
             /\ Trades(stacks, stacks', r)
             /\ Of(stacks, r.item) > 0
             /\ UNCHANGED <<gold, quest>> /\ Report(r)
             /\ tx' = [tx EXCEPT ![w] = Idle]
<1> DEFINE r == tx[w].request
           item == r.item
           s == r.slot
           stack == stacks[s]
<1>0. w \in Busy /\ r.kind = "Consume" /\ tx[w].step = "write"
  BY DEF ConsumeItem, At
<1>1. /\ tx[w].seen[s] = stack /\ stack.item = item
      /\ s \in Slots /\ stacks \in [Slots -> Stack] /\ item \in Items
  <2>1. Looked(w)
    BY <1>0, Before, StageOf
  <2> QED BY <1>0, <2>1, Before DEF Looked, IInv, Typed
<1>2. stack \in Stack /\ stack.quantity \in Nat \ {0} /\ stack # NoStack
  <2>1. stack \in Stack /\ stack.item # NoItem
    BY <1>1, CallsAssumption
  <2> QED BY <2>1, StackFacts
<1>3. /\ stacks' = [stacks EXCEPT ![s] = ConsumedStack(stack, stack)]
      /\ UNCHANGED <<gold, quest>> /\ Report(r) /\ tx' = [tx EXCEPT ![w] = Idle]
  BY <1>1, <1>2 DEF ConsumeItem
<1> DEFINE rest == ConsumedStack(stack, stack)
<1>4. /\ rest \in Stack
      /\ (IF rest.item = item THEN rest.quantity ELSE 0) = stack.quantity - 1
      /\ rest.item \in {item, NoItem}
  <2>1. stack.quantity - 1 \in Nat
    BY <1>2
  <2>2. CASE stack.quantity > 1
    <3>1. rest = Holding(item, stack.quantity - 1)
      BY <1>1, <1>2, <2>2 DEF ConsumedStack
    <3> QED BY <1>1, <2>1, <2>2, <3>1, HoldingFacts
  <2>3. CASE stack.quantity = 1
    <3>1. rest = NoStack
      BY <1>2, <2>3 DEF ConsumedStack
    <3> QED BY <1>1, <2>3, <3>1, StackFacts, CallsAssumption
  <2> QED BY <1>2, <2>2, <2>3
<1> HIDE DEF rest
<1>5. stacks' \in [Slots -> Stack] /\ stacks'[s] = rest /\ \A q \in Slots \ {s} : stacks'[q] = stacks[q]
  BY <1>1, <1>3, <1>4 DEF rest
<1>6. Count(stacks, item)[s] = stack.quantity /\ Count(stacks', item)[s] = stack.quantity - 1
  BY <1>1, <1>4, <1>5 DEF Count
<1>7. /\ Of(stacks', item) + Count(stacks, item)[s] = Of(stacks, item) + Count(stacks', item)[s]
      /\ Of(stacks, item) \in Nat /\ Of(stacks', item) \in Nat /\ stack.quantity <= Of(stacks, item)
  <2>1. Of(stacks', item) + Count(stacks, item)[s] = Of(stacks, item) + Count(stacks', item)[s]
    BY <1>1, <1>5, OneStack
  <2>2. Of(stacks, item) \in Nat /\ stack.quantity <= Of(stacks, item)
    BY <1>1, OfType
  <2>3. Of(stacks', item) \in Nat
    BY <1>5, OfType
  <2> QED BY <2>1, <2>2, <2>3
<1>8. Of(stacks', item) = Of(stacks, item) - 1 /\ Of(stacks, item) > 0
  BY <1>2, <1>6, <1>7
<1>9. \A i \in Items : i # item => Of(stacks', i) = Of(stacks, i)
  <2>1. ASSUME NEW i \in Items, i # item PROVE Of(stacks', i) = Of(stacks, i)
    <3>1. \A q \in Slots : \/ stacks'[q] = stacks[q]
                           \/ stacks[q].item # i /\ stacks'[q].item # i
      BY <1>1, <1>4, <1>5, <2>1, CallsAssumption
    <3> QED BY <1>1, <1>5, <3>1, OtherItems
  <2> QED BY <2>1
<1>10. Gains(r) = -1 /\ \A i \in Items : Of(stacks, i) \in Nat
  BY <1>0, <1>1, OfType DEF Gains
<1>11. Trades(stacks, stacks', r)
  BY <1>7, <1>8, <1>9, <1>10 DEF Trades
<1> QED BY <1>0, <1>3, <1>5, <1>8, <1>11


-----------------------------------------------------------------------------
(* Steps that store nothing, and those that trade. *)

Quiet == UNCHANGED <<stacks, gold, quest, books>>

(* Transactions that go on without additions, or end with nothing stored.  *)
LEMMA GivesUpShows ==
  ASSUME IInv, GainsShown, NEW w \in Workers, GiveUp(w)
  PROVE  Quiet /\ GainsShown'
<1>1. tx' = [tx EXCEPT ![w] = Idle] /\ Quiet
  BY DEF GiveUp, rows, Quiet
<1>2. stacks' = stacks
  BY <1>1 DEF Quiet
<1> QED BY <1>1, <1>2, OthersShow

LEMMA OpensShow ==
  ASSUME IInv, GainsShown, NEW w \in Workers, NEW request, NEW attempt,
         tx' = [tx EXCEPT ![w] = Opened(request, attempt)], stacks' = stacks
  PROVE  GainsShown'
<1>1. Opened(request, attempt).step \in {"lock", "look"}
  BY DEF Opened, FirstStep
<1> QED BY <1>1, OthersShow

LEMMA RestShows ==
  ASSUME IInv, GainsShown, NEW w \in Workers,
         ReadSold(w) \/ RemoveSold(w) \/ ReadQuest(w) \/ ClaimQuest(w) \/ LookAt(w) \/ Equip(w)
  PROVE  Quiet /\ GainsShown'
<1> DEFINE kind == tx[w].request.kind
<1>1. w \in Busy /\ kind \in {"Sell", "Complete", "Consume", "Equip"}
  BY DEF ReadSold, RemoveSold, ReadQuest, ClaimQuest, LookAt, Equip, At
<1>2. tx[w] \in Transaction
  BY <1>1, Before
<1>3. ASSUME NEW t, Proceed(w, t), t.request = tx[w].request PROVE Quiet /\ GainsShown'
  <2>1. tx' = [tx EXCEPT ![w] = t] /\ Quiet /\ stacks' = stacks
    BY <1>3 DEF Proceed, rows, Quiet
  <2>2. t.request.kind \in {"Sell", "Complete", "Consume", "Equip"}
    BY <1>1, <1>3
  <2> QED BY <2>1, <2>2, OthersShow
<1>4. GiveUp(w) => Quiet /\ GainsShown'
  BY GivesUpShows
<1>5. \A s, d, f : /\ [tx[w] EXCEPT !.step = s, !.seen = f].request = tx[w].request
                   /\ [tx[w] EXCEPT !.step = s, !.drafts = d].request = tx[w].request
                   /\ [tx[w] EXCEPT !.step = s, !.claims = TRUE, !.drafts = d].request = tx[w].request
  BY <1>2 DEF Transaction
<1>6. CASE ReadSold(w)
  BY <1>3, <1>4, <1>5, <1>6 DEF ReadSold, Refuse
<1>7. CASE RemoveSold(w)
  BY <1>3, <1>4, <1>5, <1>7 DEF RemoveSold, Conflict
<1>8. CASE ReadQuest(w)
  BY <1>3, <1>4, <1>5, <1>8 DEF ReadQuest, Refuse
<1>9. CASE ClaimQuest(w)
  BY <1>3, <1>4, <1>5, <1>9 DEF ClaimQuest, Refuse, Conflict
<1>10. CASE LookAt(w)
  BY <1>3, <1>4, <1>5, <1>10 DEF LookAt, Refuse
<1>11. CASE Equip(w)
  <2>1. CASE Refuse(w)
    BY <1>4, <2>1 DEF Refuse
  <2>2. CASE tx' = [tx EXCEPT ![w] = Idle] /\ UNCHANGED <<stacks, gold, quest, books>>
    <3>1. Quiet /\ stacks' = stacks
      BY <2>2 DEF Quiet
    <3> QED BY <2>2, <3>1, OthersShow
  <2> QED BY <1>11, <2>1, <2>2 DEF Equip
<1> QED BY <1>6, <1>7, <1>8, <1>9, <1>10, <1>11

(* What a step does to what is stored and reported.                        *)
LEMMA Happens ==
  ASSUME IInv, GainsShown, ConsumesSerially, Next
  PROVE  \/ Quiet /\ GainsShown'
         \/ AcceptQuest
         \/ \E w \in Workers : Commit(w)
         \/ pool = 1 /\ \E w \in Workers : ConsumeItem(w)
<1>1. ASSUME NEW w \in Workers, NEW request, Begin(w, request) PROVE Quiet /\ GainsShown'
  <2>1. tx' = [tx EXCEPT ![w] = Opened(request, 1)] /\ Quiet /\ stacks' = stacks
    BY <1>1 DEF Begin, rows, Quiet
  <2> QED BY <2>1, OpensShow
<1>2. ASSUME NEW w \in Workers, Retry(w) PROVE Quiet /\ GainsShown'
  <2>1. /\ tx' = [tx EXCEPT ![w] = Opened(tx[w].request, tx[w].attempt + 1)]
        /\ Quiet /\ stacks' = stacks
    BY <1>2 DEF Retry, Replay, rows, Quiet
  <2> QED BY <2>1, OpensShow
<1>3. ASSUME NEW w \in Workers, Rollback(w) PROVE Quiet /\ GainsShown'
  BY <1>3, GivesUpShows DEF Rollback, Refuse
<1>4. ASSUME NEW e \in EquipmentSlots, Unequip(e) PROVE Quiet /\ GainsShown'
  <2>1. Quiet /\ stacks' = stacks /\ tx' = tx
    BY <1>4 DEF Unequip, Quiet
  <2> QED BY <2>1, ShownByOthers
<1>5. ASSUME NEW w \in Workers, ConsumeItem(w) PROVE pool = 1
  <2>1. w \in Busy /\ tx[w].request.kind = "Consume"
    BY <1>5 DEF ConsumeItem, At
  <2> QED BY <2>1, Before DEF ConsumesSerially
<1>6. ASSUME NEW w \in Workers, LockInventory(w) PROVE Quiet /\ GainsShown'
  BY <1>6, LockShows DEF LockInventory, Proceed, rows, Quiet
<1>7. ASSUME NEW w \in Workers, FindStack(w) PROVE Quiet /\ GainsShown'
  <2>1. Quiet
    BY <1>7 DEF FindStack, Proceed, rows, Quiet
  <2> QED BY <1>7, <2>1, FindShows
<1>8. ASSUME NEW w \in Workers, IncreaseStack(w) PROVE Quiet /\ GainsShown'
  <2>1. Quiet
    BY <1>8 DEF IncreaseStack, Proceed, Conflict, GiveUp, rows, Quiet
  <2> QED BY <1>8, <2>1, IncreaseShows
<1>9. ASSUME NEW w \in Workers, InsertStack(w) PROVE Quiet /\ GainsShown'
  <2>1. Quiet
    BY <1>9 DEF InsertStack, Proceed, Conflict, GiveUp, rows, Quiet
  <2> QED BY <1>9, <2>1, InsertShows
<1>10. ASSUME NEW w \in Workers, MoveGold(w) PROVE Quiet /\ GainsShown'
  <2>1. CASE Affordable(tx[w].request)
    <3>1. Quiet
      BY <1>10, <2>1 DEF MoveGold, Proceed, rows, Quiet
    <3> QED BY <1>10, <2>1, <3>1, PayShows
  <2>2. CASE ~Affordable(tx[w].request)
    BY <1>10, <2>2, GivesUpShows DEF MoveGold, Refuse
  <2> QED BY <2>1, <2>2
<1>11. ASSUME NEW w \in Workers, Advance(w)
       PROVE  \/ Quiet /\ GainsShown'
              \/ Commit(w)
              \/ pool = 1 /\ ConsumeItem(w)
  BY <1>5, <1>6, <1>7, <1>8, <1>9, <1>10, <1>11, RestShows DEF Advance
<1> QED BY <1>1, <1>2, <1>3, <1>4, <1>11 DEF Next


-----------------------------------------------------------------------------
(* What is stored is what was reported. *)

(* A trade that is reported as it was carried out.                         *)
LEMMA Reported ==
  ASSUME IInv, IInv', Booked, NEW r \in Request, r.kind # "Equip",
         Trades(stacks, stacks', r), gold' = gold + Earns(r), Report(r)
  PROVE  receipt' \in [Items -> Int] /\ purse' \in Int /\ ResultsAreTrue'
<1>1. /\ receipt \in [Items -> Int] /\ purse \in Int
      /\ gold = purse /\ \A i \in Items : Total(i) = receipt[i]
  BY DEF Booked, ResultsAreTrue
<1>2. Gains(r) \in Int /\ Earns(r) \in Int /\ r.item \in Items
  BY GainsType, EarnsType DEF Request
<1>3. /\ receipt' = [receipt EXCEPT ![r.item] = @ + Gains(r)]
      /\ purse' = purse + Earns(r)
  BY DEF Report
<1>4. ASSUME NEW i \in Items PROVE Total(i)' = receipt'[i]
  <2>1. Total(i) = Of(stacks, i)
    BY TotalIsOf DEF IInv
  <2>2. Total(i)' = Of(stacks', i)
    <3>1. stacks' \in [Slots -> Stack]
      BY DEF IInv, Typed
    <3>2. Total(i)' = Quantity(stacks', {s \in Slots : stacks'[s].item = i})
      BY DEF Total, Quantity
    <3> QED BY <3>1, <3>2, QuantityIsOf
  <2>3. Of(stacks', i) = Of(stacks, i) + (IF i = r.item THEN Gains(r) ELSE 0)
    BY DEF Trades
  <2>4. receipt'[i] = receipt[i] + (IF i = r.item THEN Gains(r) ELSE 0)
    BY <1>1, <1>2, <1>3
  <2> QED BY <1>1, <2>1, <2>2, <2>3, <2>4
<1>5. receipt' \in [Items -> Int] /\ purse' \in Int
  BY <1>1, <1>2, <1>3
<1> QED BY <1>1, <1>3, <1>4, <1>5 DEF ResultsAreTrue

(* Nobody adds beside a commit, or beside a consumption that is alone.     *)
LEMMA NobodyAdds ==
  ASSUME IInv, NEW w \in Workers, tx' = [tx EXCEPT ![w] = Idle],
         Holder(w) \/ Busy = {w}
  PROVE  GainsShown'
<1>1. tx'[w] = Idle /\ \A v \in Workers \ {w} : tx'[v] = tx[v]
  BY DEF IInv, Typed
<1>2. ~Fills(tx'[w])
  BY <1>1 DEF Fills
<1>3. ASSUME NEW v \in Workers \ {w}, Fills(tx[v]) PROVE FALSE
  <2>1. v \in Busy /\ Holder(v)
    BY <1>3, FillingFacts
  <2> QED BY <2>1, OneHolder DEF IInv
<1> QED BY <1>1, <1>2, <1>3 DEF GainsShown

LEMMA CommitIs ==
  ASSUME IInv, GainsShown, NEW w \in Workers, Commit(w)
  PROVE  LET r == tx[w].request
         IN  /\ w \in Busy /\ r \in Request /\ r.item \in Items /\ r.kind \in Economic
             /\ Trades(stacks, stacks', r) /\ gold' = gold + Earns(r) /\ Report(r)
             /\ gold + Earns(r) >= 0
             /\ r.kind = "Sell" => Of(stacks, r.item) > 0
             /\ r.kind = "Complete" =>
                  /\ r.item = Objective.item /\ Of(stacks, r.item) >= Objective.quantity
                  /\ quest = "active" /\ quest' = "completed"
             /\ r.kind # "Complete" => quest' = quest
             /\ tx' = [tx EXCEPT ![w] = Idle] /\ Holder(w)
<1> DEFINE r == tx[w].request
<1>1. /\ At(w, Economic, "commit")
      /\ stacks' = [s \in Slots |-> Visible(w, s)]
      /\ gold' = gold + tx[w].earned /\ Report(r) /\ tx' = [tx EXCEPT ![w] = Idle]
      /\ quest' = IF tx[w].claims THEN "completed" ELSE quest
  BY DEF Commit
<1>2. w \in Busy /\ r.kind \in Economic /\ r \in Request /\ r.item \in Items
  BY <1>1, Before DEF At
<1>3. /\ stacks' = SeenBy(tx[w], stacks)
      /\ Trades(stacks, SeenBy(tx[w], stacks), r)
      /\ Paid(w)
      /\ r.kind = "Sell" => Of(stacks, r.item) > 0
      /\ r.kind = "Complete" =>
           /\ r.item = Objective.item /\ Of(stacks, r.item) >= Objective.quantity
           /\ quest = "active"
      /\ tx[w].claims <=> r.kind = "Complete"
  BY <1>1, CommitTrades
<1>4. gold' = gold + Earns(r) /\ gold + Earns(r) >= 0
  BY <1>1, <1>3 DEF Paid
<1>5. Holder(w)
  BY <1>1, <1>2, CommitFacts DEF At
<1>6. Trades(stacks, stacks', r)
  BY <1>3
<1>7. /\ r.kind = "Complete" => quest' = "completed"
      /\ r.kind # "Complete" => quest' = quest
  BY <1>1, <1>3
<1> QED BY <1>1, <1>2, <1>3, <1>4, <1>5, <1>6, <1>7

LEMMA BookedStep ==
  ASSUME IInv, IInv', Booked, ConsumesSerially, Next
  PROVE  Booked'
<1>0. GainsShown /\ receipt \in [Items -> Int] /\ purse \in Int
  BY DEF Booked
<1>1. CASE UNCHANGED <<stacks, gold, books>> /\ GainsShown'
  <2>1. ResultsAreTrue'
    BY <1>1 DEF Booked, ResultsAreTrue, Total, Quantity, books
  <2> QED BY <1>0, <1>1, <2>1 DEF Booked, books
<1>2. ASSUME AcceptQuest PROVE Booked'
  <2>1. UNCHANGED <<stacks, gold, books>> /\ tx' = tx /\ stacks' = stacks
    BY <1>2 DEF AcceptQuest
  <2>2. GainsShown'
    BY <1>0, <2>1, ShownByOthers
  <2> QED BY <1>1, <2>1, <2>2
<1>3. ASSUME NEW w \in Workers, Commit(w) PROVE Booked'
  <2>1. /\ tx[w].request \in Request /\ tx[w].request.kind \in Economic
        /\ Trades(stacks, stacks', tx[w].request)
        /\ gold' = gold + Earns(tx[w].request) /\ Report(tx[w].request)
        /\ tx' = [tx EXCEPT ![w] = Idle] /\ Holder(w)
    BY <1>0, <1>3, CommitIs
  <2>2. tx[w].request.kind # "Equip"
    BY <2>1 DEF Economic
  <2>3. receipt' \in [Items -> Int] /\ purse' \in Int /\ ResultsAreTrue'
    BY <2>1, <2>2, Reported
  <2>4. GainsShown'
    BY <2>1, NobodyAdds
  <2> QED BY <2>3, <2>4 DEF Booked
<1>4. ASSUME pool = 1, NEW w \in Workers, ConsumeItem(w) PROVE Booked'
  <2> DEFINE r == tx[w].request
  <2>1. /\ r.kind = "Consume" /\ w \in Busy /\ Trades(stacks, stacks', r)
        /\ gold' = gold /\ Report(r) /\ tx' = [tx EXCEPT ![w] = Idle]
    BY <1>4, ConsumeTrades
  <2>2. r \in Request /\ Busy = {w}
    BY <1>4, <2>1, Before, Alone
  <2>3. gold' = gold + Earns(r)
    <3>1. Earns(r) = 0 /\ gold \in Nat
      BY <2>1 DEF Earns, IInv, Typed
    <3> QED BY <2>1, <3>1
  <2>4. receipt' \in [Items -> Int] /\ purse' \in Int /\ ResultsAreTrue'
    BY <2>1, <2>2, <2>3, Reported
  <2>5. GainsShown'
    BY <2>1, <2>2, NobodyAdds
  <2> QED BY <2>4, <2>5 DEF Booked
<1>5. Quiet => UNCHANGED <<stacks, gold, books>>
  BY DEF Quiet
<1> QED BY <1>0, <1>1, <1>2, <1>3, <1>4, <1>5, Happens

LEMMA NothingOwned == Init => \A i \in Items : Total(i) = 0
<1> SUFFICES ASSUME Init, NEW i \in Items PROVE Total(i) = 0
  OBVIOUS
<1> DEFINE f == Count(stacks, i)
<1>1. Typed
  BY Start DEF IInv
<1>2. IsFiniteSet(Slots) /\ \A s \in Slots : f[s] = 0
  BY SlotsAreFinite, StackFacts DEF Init, Count
<1> HIDE DEF f
<1>3. SumFunctionOnSet(f, Slots) = 0
  BY <1>2, SumOfNothing
<1> QED BY <1>1, <1>3, TotalIsOf DEF Of, f

LEMMA StartBooked == Init => BInv
<1> SUFFICES ASSUME Init PROVE Booked
  BY DEF BInv
<1>1. GainsShown
  BY DEF Init, GainsShown, Fills
<1>2. receipt \in [Items -> Int] /\ purse \in Int /\ gold = purse
  BY DefinitionsAssumption DEF Init
<1>3. \A i \in Items : receipt[i] = 0
  BY DEF Init
<1> QED BY <1>1, <1>2, <1>3, NothingOwned DEF Booked, ResultsAreTrue

LEMMA StaysBooked == IInv /\ IInv' /\ BInv /\ [Next]_vars => BInv'
<1> SUFFICES ASSUME IInv, IInv', BInv, [Next]_vars, ConsumesSerially'
             PROVE  Booked'
  BY DEF BInv
<1>1. CASE Next
  <2>1. pool' = pool
    BY <1>1 DEF Next
  <2>2. ConsumesSerially
    BY <2>1 DEF ConsumesSerially
  <2> QED BY <1>1, <2>2, BookedStep DEF BInv
<1>2. CASE UNCHANGED vars
  <2>1. UNCHANGED <<pool, stacks, gold, books, tx>>
    BY <1>2 DEF vars, rows
  <2>2. Booked
    BY <2>1 DEF BInv, ConsumesSerially
  <2>3. ResultsAreTrue'
    BY <2>1, <2>2 DEF Booked, ResultsAreTrue, Total, Quantity, books
  <2>4. GainsShown'
    BY <2>1, <2>2 DEF Booked, GainsShown
  <2> QED BY <2>1, <2>2, <2>3, <2>4 DEF Booked, books
<1> QED BY <1>1, <1>2

LEMMA AlwaysBooked == Spec => []BInv
BY StartBooked, StaysBooked, Invariant, PTL DEF Spec

(* What is stored is what the callers were told, for every mix of calls    *)
(* that overlap, fail half-way or are replayed, as long as consumptions    *)
(* have the database for themselves.                                       *)
THEOREM ResultsAlwaysTrue == Spec => [](ConsumesSerially => ResultsAreTrue)
<1>1. BInv => (ConsumesSerially => ResultsAreTrue)
  BY DEF BInv, Booked
<1> QED BY <1>1, AlwaysBooked, PTL


-----------------------------------------------------------------------------
(* Every step is a trade of the Ledger, or changes nothing of it. *)

LEMMA OwnedIs ==
  ASSUME IInv, IInv'
  PROVE  /\ [i \in Items |-> Total(i)] = [i \in Items |-> Of(stacks, i)]
         /\ [i \in Items |-> Total(i)]' = [i \in Items |-> Of(stacks', i)]
         /\ \A i \in Items : Of(stacks, i) \in Nat /\ Of(stacks', i) \in Nat
<1>1. stacks \in [Slots -> Stack] /\ stacks' \in [Slots -> Stack]
  BY DEF IInv, Typed
<1>2. \A i : Total(i) = Of(stacks, i)
  BY TotalIsOf DEF IInv
<1>3. \A i : Quantity(stacks', {s \in Slots : stacks'[s].item = i}) = Of(stacks', i)
  BY <1>1, QuantityIsOf
<1>4. \A i : Total(i)' = Of(stacks', i)
  BY <1>3 DEF Total, Quantity
<1>5. \A i \in Items : Of(stacks, i) \in Nat /\ Of(stacks', i) \in Nat
  BY <1>1, OfType
<1> QED BY <1>2, <1>4, <1>5

(* A trade of r, as the Ledger has it.                                     *)
LEMMA OwnedChanges ==
  ASSUME IInv, IInv', NEW r \in Request, r.kind # "Equip", Trades(stacks, stacks', r)
  PROVE  LET owned == [i \in Items |-> Of(stacks, i)]
             after == [i \in Items |-> Of(stacks', i)]
         IN  /\ r.item \in Items
             /\ after = [owned EXCEPT ![r.item] = @ + Gains(r)]
             /\ after[r.item] = owned[r.item] + Gains(r)
             /\ owned[r.item] = Of(stacks, r.item) /\ owned[r.item] \in Nat
<1> DEFINE owned == [i \in Items |-> Of(stacks, i)]
           after == [i \in Items |-> Of(stacks', i)]
<1>1. r.item \in Items /\ Gains(r) \in Int /\ \A i \in Items : Of(stacks, i) \in Nat
  BY OwnedIs, GainsType DEF Request
<1>2. \A i \in Items : after[i] = IF i = r.item THEN owned[i] + Gains(r) ELSE owned[i]
  BY <1>1 DEF Trades
<1>3. after = [owned EXCEPT ![r.item] = @ + Gains(r)]
  BY <1>1, <1>2
<1> QED BY <1>1, <1>2, <1>3

LEMMA CommitIsATrade ==
  ASSUME IInv, IInv', GainsShown, NEW w \in Workers, Commit(w)
  PROVE  Accounts!Next
<1> DEFINE r == tx[w].request
           item == r.item
           owned == [i \in Items |-> Of(stacks, i)]
           after == [i \in Items |-> Of(stacks', i)]
<1>1. /\ r \in Request /\ item \in Items /\ r.kind \in Economic
      /\ Trades(stacks, stacks', r) /\ gold' = gold + Earns(r) /\ gold + Earns(r) >= 0
      /\ r.kind = "Sell" => Of(stacks, item) > 0
      /\ r.kind = "Complete" =>
           /\ item = Objective.item /\ Of(stacks, item) >= Objective.quantity
           /\ quest = "active" /\ quest' = "completed"
      /\ r.kind # "Complete" => quest' = quest
  BY CommitIs
<1>2. /\ [i \in Items |-> Total(i)] = owned
      /\ [i \in Items |-> Total(i)]' = after
  BY OwnedIs
<1>3. /\ after = [owned EXCEPT ![item] = @ + Gains(r)]
      /\ after[item] = owned[item] + Gains(r)
      /\ owned[item] = Of(stacks, item) /\ owned[item] \in Nat
  <2>1. r.kind # "Equip"
    BY <1>1 DEF Economic
  <2> QED BY <1>1, <2>1, OwnedChanges
<1>4. gold \in Nat /\ r.quantity \in Nat \ {0}
  BY <1>1 DEF IInv, Typed, Request
<1> HIDE DEF owned, after
<1>5. CASE r.kind = "AddItems"
  <2>1. gold' = gold
    BY <1>1, <1>4, <1>5 DEF Earns
  <2>2. after[item] > owned[item]
    BY <1>3, <1>4, <1>5 DEF Gains
  <2>3. after = [owned EXCEPT ![item] = after[item]]
    BY <1>3
  <2>4. Accounts!Gain(item)
    BY <1>1, <1>2, <1>5, <2>1, <2>2, <2>3 DEF Accounts!Gain
  <2> QED BY <1>1, <2>4 DEF Accounts!Next
<1>6. CASE r.kind = "Buy"
  <2>1. BuyPrice[item] \in Nat /\ Earns(r) = -BuyPrice[item] /\ Gains(r) = 1
    BY <1>1, <1>6, DefinitionsAssumption DEF Earns, Gains
  <2>2. gold >= BuyPrice[item] /\ gold' = gold - BuyPrice[item]
    BY <1>1, <1>4, <2>1
  <2>3. Accounts!Buy(item)
    BY <1>1, <1>2, <1>3, <1>6, <2>1, <2>2 DEF Accounts!Buy
  <2> QED BY <1>1, <2>3 DEF Accounts!Next
<1>7. CASE r.kind = "Sell"
  <2>1. Earns(r) = SellPrice[item] /\ Gains(r) = -1
    BY <1>7 DEF Earns, Gains
  <2>2. after = [owned EXCEPT ![item] = @ - 1] /\ owned[item] > 0
    BY <1>1, <1>3, <1>7, <2>1
  <2>3. gold' = gold + SellPrice[item]
    BY <1>1, <2>1
  <2>4. Accounts!Sell(item)
    BY <1>1, <1>2, <1>7, <2>2, <2>3 DEF Accounts!Sell
  <2> QED BY <1>1, <2>4 DEF Accounts!Next
<1>8. CASE r.kind = "Complete"
  <2>1. Earns(r) = Reward /\ Gains(r) = -Objective.quantity /\ Objective.quantity \in Nat
    BY <1>8, DefinitionsAssumption DEF Earns, Gains
  <2>2. after = [owned EXCEPT ![item] = @ - Objective.quantity] /\ owned[item] >= Objective.quantity
    BY <1>1, <1>3, <1>8, <2>1
  <2>3. gold' = gold + Reward
    BY <1>1, <2>1
  <2>4. Accounts!Complete
    BY <1>1, <1>2, <1>8, <2>2, <2>3 DEF Accounts!Complete
  <2> QED BY <2>4 DEF Accounts!Next
<1> QED BY <1>1, <1>5, <1>6, <1>7, <1>8 DEF Economic

LEMMA ConsumptionIsATrade ==
  ASSUME IInv, IInv', pool = 1, NEW w \in Workers, ConsumeItem(w)
  PROVE  Accounts!Next
<1> DEFINE r == tx[w].request
           item == r.item
           owned == [i \in Items |-> Of(stacks, i)]
           after == [i \in Items |-> Of(stacks', i)]
<1>1. /\ r.kind = "Consume" /\ w \in Busy /\ Trades(stacks, stacks', r)
      /\ Of(stacks, item) > 0 /\ gold' = gold /\ quest' = quest
  BY ConsumeTrades
<1>2. /\ [i \in Items |-> Total(i)] = owned
      /\ [i \in Items |-> Total(i)]' = after
  BY OwnedIs
<1>3. r \in Request /\ item \in Items
  BY <1>1, Before
<1>4. /\ after = [owned EXCEPT ![item] = @ + Gains(r)]
      /\ owned[item] = Of(stacks, item) /\ owned[item] \in Nat
  BY <1>1, <1>3, OwnedChanges
<1> HIDE DEF owned, after
<1>5. Gains(r) = -1
  BY <1>1 DEF Gains
<1>6. after = [owned EXCEPT ![item] = @ - 1] /\ owned[item] > 0
  BY <1>1, <1>3, <1>4, <1>5
<1>7. Accounts!Use(item)
  BY <1>1, <1>2, <1>6 DEF Accounts!Use
<1> QED BY <1>3, <1>7 DEF Accounts!Next

(* The transactions of the repositories, statement by statement and        *)
(* beside each other, implement whole trades one at a time.                *)
THEOREM TradesAreWhole == Spec /\ ConsumesSerially => ImplementsLedger
<1> DEFINE owned == [i \in Items |-> Total(i)]
<1>1. Init => Accounts!Init
  <2> SUFFICES ASSUME Init PROVE Accounts!Init
    OBVIOUS
  <2>1. gold \in Nat /\ quest = "none"
    BY DefinitionsAssumption DEF Init
  <2>2. \A i \in Items : Total(i) = 0
    BY NothingOwned
  <2>3. owned = [i \in Items |-> 0]
    BY <2>2
  <2> QED BY <2>1, <2>3 DEF Accounts!Init
<1>2. IInv /\ IInv' /\ BInv /\ ConsumesSerially /\ [Next]_vars => [Accounts!Next]_<<owned, gold, quest>>
  <2> SUFFICES ASSUME IInv, IInv', BInv, ConsumesSerially, [Next]_vars
               PROVE  [Accounts!Next]_<<owned, gold, quest>>
    OBVIOUS
  <2>1. CASE UNCHANGED <<stacks, gold, quest>>
    BY <2>1 DEF Total, Quantity
  <2>2. CASE AcceptQuest
    <3>1. quest = "none" /\ quest' = "active" /\ gold' = gold /\ stacks' = stacks
      BY <2>2 DEF AcceptQuest
    <3>2. owned' = owned
      BY <3>1 DEF Total, Quantity
    <3>3. Accounts!Accept
      BY <3>1, <3>2 DEF Accounts!Accept
    <3> QED BY <3>3 DEF Accounts!Next
  <2>3. GainsShown
    BY DEF BInv, Booked
  <2>4. ASSUME NEW w \in Workers, Commit(w) PROVE Accounts!Next
    BY <2>3, <2>4, CommitIsATrade
  <2>5. ASSUME pool = 1, NEW w \in Workers, ConsumeItem(w) PROVE Accounts!Next
    BY <2>5, ConsumptionIsATrade
  <2>6. UNCHANGED vars \/ Quiet => UNCHANGED <<stacks, gold, quest>>
    BY DEF vars, rows, Quiet
  <2>7. CASE Next
    BY <2>1, <2>2, <2>3, <2>4, <2>5, <2>6, <2>7, Happens
  <2> QED BY <2>1, <2>6, <2>7
<1>3. ConsumesSerially /\ [Next]_vars => ConsumesSerially'
  BY DEF Next, ConsumesSerially, vars
<1> QED BY <1>1, <1>2, <1>3, AlwaysBooked, Invariant, PTL DEF Spec, ImplementsLedger, Accounts!Spec

=============================================================================
