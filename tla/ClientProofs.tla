---------------------------- MODULE ClientProofs ----------------------------
(***************************************************************************)
(* The goods of a character, for any sessions, items, slots and keys.      *)
(*                                                                         *)
(* The invariant is seven groups of facts, each kept by every step given   *)
(* the first: what a command is made of at each of its calls (Typed),      *)
(* which sessions can have commands or the world's ear (Placed), which     *)
(* command a flag stands for (Flagged), what a transaction that is not     *)
(* committed may rely on (Locked), where the equipment the world counts is *)
(* known (Geared), where the newest inventory is on its way (Caught), and  *)
(* the sum of the goods.                                                   *)
(***************************************************************************)
EXTENDS Client, Sums

(* What a command may be at, and what it then knows.                       *)
Route(t) ==
  \/ /\ t.kind = "pickup" /\ t.step \in {"ask", "found", "call", "restore", "answered"}
     /\ t.step \in {"found", "call", "restore"} => t.item \in Items
  \/ /\ t.kind = "consume" /\ t.step \in {"call", "write", "apply", "refund", "answered"}
     /\ t.item \in Consumables /\ t.slot \in Slots
     /\ t.step \in {"apply", "refund"} => t.bag \in Bag
  \/ /\ t.kind = "equip" /\ t.step \in {"call", "write", "tell", "answered"}
     /\ t.item \in Wearables /\ t.slot \in Slots
     /\ t.step = "tell" => t.bag \in Bag
  \/ /\ t.kind = "unequip" /\ t.step \in {"call", "reread", "reading", "tell", "answered"}
     /\ t.step \in {"reading", "tell"} => t.bag \in Bag
  \/ /\ t.kind = "buy" /\ t.step \in {"call", "answered"} /\ t.item \in Items
  \/ /\ t.kind = "sell" /\ t.step \in {"call", "answered"}
     /\ t.item \in Items /\ t.slot \in Slots
  \/ /\ t.kind \in QuestKinds /\ t.step \in {"call", "answered"} /\ t.item = Objective
  \/ /\ t.kind = "reload" /\ t.step \in {"call", "reading", "answered"}
     /\ t.step = "reading" => t.bag \in Bag

(* What it may have written and not committed.                             *)
Drafted(t) ==
  Open(t) =>
    /\ t.draft.bag \in Bag
    /\ \/ /\ t.kind \in {"pickup", "buy", "complete"} /\ t.step = "call"
          /\ t.draft.slot \in Slots
       \/ t.kind = "sell" /\ t.step = "call" /\ t.draft.slot = t.slot
       \/ t.kind = "consume" /\ t.step = "write" /\ t.draft.slot \in {0, t.slot}
       \/ t.kind = "consume" /\ t.step = "refund" /\ t.draft.slot \in Slots
       \/ t.kind = "equip" /\ t.step = "write" /\ t.draft.slot = t.slot

Commands == {t \in Task : Route(t) /\ Drafted(t)} \cup {NoTask}

TypedWorld ==
  /\ scene \in Scenes
  /\ owner \in Sessions \cup {NoSession}
  /\ gear \in Wearables \cup {NoItem}
  /\ ground \in [Items -> Nat]
  /\ bag \in Bag
  /\ quest \in Progress
  /\ gift \in {"none", "found", "stored"}
  /\ {presses, gifts} \subseteq Nat
  /\ due \in [Items -> Int]
  /\ {author, told} \subseteq Sessions \cup {NoSession}
  /\ unaware \subseteq Sessions

TypedSessions ==
  /\ phase \in [Sessions -> Phases]
  /\ held \in [Sessions -> Bag]
  /\ progress \in [Sessions -> Progress]
  /\ newest \in [Sessions -> Nat]
  /\ events \in [Sessions -> 0 .. EventLimit]
  /\ {pickupInFlight, menuInFlight, questInFlight} \subseteq [Sessions -> BOOLEAN]

TypedScreens ==
  /\ mode \in [Sessions -> Modes]
  /\ seen \in [Sessions -> Npcs \cup {NoNpc}]
  /\ shop \in [Sessions -> ShopState]
  /\ dialogue \in [Sessions -> Dialogue \cup {NoDialogue}]

TypedTasks == tasks \in [Sessions -> [Ids -> Commands]]

Typed == TypedWorld /\ TypedSessions /\ TypedScreens /\ TypedTasks

(* Only who plays or has played has commands, and the world's or the        *)
(* database's ear; a program that panicked may never leave.                 *)
Early == {"new", "reading", "loading", "joining"}

Placed ==
  \A s \in Sessions : phase[s] \in Early =>
    /\ s \notin {owner, author, told}
    /\ \A id \in Ids : tasks[s][id] = NoTask

(* A session has one inventory command at a time, even when it is leaving.  *)
OneMenuTask ==
  \A s \in Sessions : \A id, other \in Ids :
    tasks[s][id].kind \in MenuKinds /\ tasks[s][other].kind \in MenuKinds => id = other

(* Before it plays a session has pressed nothing; and a dialogue is open    *)
(* only while no quest command runs.                                        *)
Fresh ==
  \A s \in Sessions :
    /\ phase[s] \in Early =>
         /\ ~pickupInFlight[s] /\ ~menuInFlight[s] /\ ~questInFlight[s]
         /\ mode[s] = "game" /\ shop[s] = ShopClosed /\ dialogue[s] = NoDialogue
    /\ mode[s] = "dialogue" => ~questInFlight[s]

Flagged == FlagsMeanWork /\ OneMenuTask /\ Fresh

(* A transaction has the row of inventories, or the stack it is about, to   *)
(* itself; so the slot it fills stays free, and the stack it takes or wears *)
(* stays there.  On one connection nothing at all happens besides it.       *)
Clash(t, u) ==
  \/ Economic(t) /\ Economic(u)
  \/ ~Adds(t) /\ ~Adds(u) /\ t.draft.slot = u.draft.slot /\ t.draft.slot # 0

Sound(b, t) ==
  /\ t.draft.bag.edition <= b.edition + 1
  /\ Adds(t) => b.stacks[t.draft.slot] = NoItem
  /\ t.kind \in {"sell", "complete"} => b.stacks[t.draft.slot] = t.item
  /\ t.kind = "sell" => b.worn # t.draft.slot
  /\ t.kind = "equip" =>
       /\ b.stacks[t.slot] # NoItem
       /\ t.draft.bag.stacks[t.slot] = b.stacks[t.slot] /\ t.draft.bag.worn = t.slot

Busy(t) == Open(t) \/ t.step = "write"
Alone(b, t) ==
  /\ Open(t) => t.draft.bag.edition = b.edition + 1
  /\ t.kind = "consume" /\ t.step = "write" =>
       /\ b.stacks[t.slot] = t.item
       /\ Open(t) => t.draft.slot = t.slot

Locked ==
  \A r \in Sessions, j \in Ids :
    /\ Open(tasks[r][j]) => Sound(bag, tasks[r][j])
    /\ Serial /\ Busy(tasks[r][j]) => Alone(bag, tasks[r][j])
    /\ \A s \in Sessions, id \in Ids : <<r, j>> # <<s, id>> =>
         /\ Open(tasks[r][j]) /\ Open(tasks[s][id]) => ~Clash(tasks[r][j], tasks[s][id])
         /\ Serial => ~(Busy(tasks[r][j]) /\ Busy(tasks[s][id]))

(* Nothing is not worn; and a session nobody has surprised knows what is    *)
(* worn, when it has taken it off, when it is about to tell the world and   *)
(* when it is about to join.                                                *)
TakesOff(t) == t.kind = "unequip" /\ t.step \in {"reread", "reading"}
Knows(s) ==
  /\ \A id \in Ids :
       /\ TakesOff(tasks[s][id]) => bag.worn = 0
       /\ tasks[s][id].step = "tell" =>
            EquipmentStats(tasks[s][id].bag) = EquipmentStats(bag)
  /\ phase[s] \in {"loading", "joining"} => EquipmentStats(held[s]) = EquipmentStats(bag)

Geared ==
  /\ bag.worn # 0 => bag.stacks[bag.worn] # NoItem
  /\ \A s \in Sessions \ unaware : Knows(s)
  /\ GearAgrees

(* The newest inventory is before the session, or the command that made it  *)
(* brings it or has yet to read it back; or the reload that was started by  *)
(* the event that told of it.                                               *)
Brings(t) ==
  /\ t.step \in {"answered", "tell", "apply", "refund", "reading"}
  /\ t.bag.edition = bag.edition
Returns(t) == t.kind # "reload" /\ (Brings(t) \/ t.step = "reread")
Reloads(t) == t.kind = "reload" /\ (Brings(t) \/ t.step = "call")

Older ==
  \A s \in Sessions :
    /\ newest[s] <= bag.edition
    /\ \A id \in Ids : tasks[s][id] # NoTask => tasks[s][id].bag.edition <= bag.edition

AuthorCaught ==
  \A s \in Sessions : Playing(s) /\ s = author =>
    newest[s] = bag.edition \/ \E id \in Ids : Returns(tasks[s][id])

ToldCaught ==
  \A s \in Sessions : Playing(s) /\ s = told =>
    newest[s] = bag.edition \/ events[s] > 0 \/ \E id \in Ids : Reloads(tasks[s][id])

Caught == Older /\ AuthorCaught /\ ToldCaught

CInv ==
  /\ Typed
  /\ Placed
  /\ Flagged
  /\ Locked
  /\ Geared
  /\ Caught
  /\ GoodsAddUp
-----------------------------------------------------------------------------
(* Bags and lists. *)

LEMMA Bounds ==
  /\ MaxSlot \in Nat /\ MaxTasks \in Nat /\ EventLimit \in Nat /\ IsFiniteSet(Sessions)
BY BoundsAssumption

LEMMA SlotsFinite == IsFiniteSet(Slots) /\ IsFiniteSet(Ids)
BY Bounds, FS_Interval DEF Slots, Ids

LEMMA NextSlotFree ==
  ASSUME NEW b \in Bag, HasRoom(b)
  PROVE  NextSlot(b) \in Slots /\ b.stacks[NextSlot(b)] = NoItem
<1> DEFINE T == Used(b) \cup {0}
<1>1. T \subseteq 0 .. MaxSlot /\ T # {}
  BY Bounds DEF Used, Slots
<1> HIDE DEF T
<1>2. Max(T) \in T /\ \A k \in T : k <= Max(T)
  BY <1>1, Bounds, MaxIs
<1>3. Max(T) \in Nat /\ NextSlot(b) = Max(T) + 1
  BY <1>1, <1>2, Bounds DEF NextSlot, T
<1>4. NextSlot(b) \notin T
  BY <1>2, <1>3
<1>5. NextSlot(b) \in Slots
  BY DEF HasRoom
<1> QED BY <1>4, <1>5 DEF T, Used

LEMMA WithStackIs ==
  ASSUME NEW b \in Bag, NEW i \in Slots, NEW item \in Items \cup {NoItem}
  PROVE  WithStack(b, i, item) \in Bag
BY DEF Bag, WithStack

LEMMA WearingIs ==
  ASSUME NEW b \in Bag, NEW i \in Slots \cup {0}
  PROVE  Wearing(b, i) \in Bag
BY DEF Bag, Wearing

LEMMA StatsAre ==
  ASSUME NEW b \in Bag
  PROVE  EquipmentStats(b) \in Wearables \cup {NoItem}
BY DEF EquipmentStats

LEMMA BagNotNone == NoBag \notin Bag
BY DEF NoBag, Bag

LEMMA WithoutIs ==
  ASSUME NEW b \in Bag, NEW i \in Slots \cup {0}
  PROVE  Without(b, i) \in Bag
BY DEF Bag, Without

LEMMA NoDraftIs == NoDraft \in Draft
BY DEF NoDraft, Draft

(* How many of an item an inventory holds after one slot has changed.       *)
One(p) == IF p THEN 1 ELSE 0

LEMMA HoldingChanges ==
  ASSUME NEW b \in Bag, NEW i \in Slots, NEW new \in Items \cup {NoItem}, NEW item \in Items
  PROVE  /\ Cardinality(Holding(b, item)) \in Nat
         /\ Cardinality(Holding(WithStack(b, i, new), item))
              = Cardinality(Holding(b, item)) - One(b.stacks[i] = item) + One(new = item)
<1> DEFINE before == Holding(b, item)
           after == Holding(WithStack(b, i, new), item)
           rest == before \ {i}
<1>1. /\ before \subseteq Slots /\ after \subseteq Slots /\ rest \subseteq Slots
  BY DEF Holding
<1>2. /\ IsFiniteSet(before) /\ IsFiniteSet(rest)
      /\ Cardinality(before) \in Nat /\ Cardinality(rest) \in Nat
  BY <1>1, SlotsFinite, FS_Subset, FS_CardinalityType
<1>3. Cardinality(rest) = Cardinality(before) - One(b.stacks[i] = item)
  <2>1. i \in before <=> b.stacks[i] = item
    BY DEF Holding
  <2>2. CASE i \in before
    <3>1. Cardinality(before \ {i}) = Cardinality(before) - 1
      BY <1>2, <2>2, FS_RemoveElement
    <3> QED BY <2>1, <2>2, <3>1 DEF One
  <2>3. CASE i \notin before
    <3>1. rest = before
      BY <2>3
    <3> HIDE DEF before, rest
    <3> QED BY <1>2, <2>1, <2>3, <3>1 DEF One
  <2> QED BY <2>2, <2>3
<1>4. Cardinality(after) = Cardinality(rest) + One(new = item)
  <2>1. \A j \in Slots : WithStack(b, i, new).stacks[j] = IF j = i THEN new ELSE b.stacks[j]
    BY DEF WithStack, Bag
  <2>2. CASE new = item
    <3>1. after = rest \cup {i}
      BY <2>1, <2>2 DEF Holding
    <3>2. Cardinality(rest \cup {i}) = Cardinality(rest) + 1
      BY <1>2, FS_AddElement
    <3> QED BY <2>2, <3>1, <3>2 DEF One
  <2>3. CASE new # item
    <3>1. after = rest
      BY <2>1, <2>3 DEF Holding
    <3> HIDE DEF after, rest
    <3> QED BY <1>2, <2>3, <3>1 DEF One
  <2> QED BY <2>2, <2>3
<1> HIDE DEF before, after, rest
<1>5. One(b.stacks[i] = item) \in Nat /\ One(new = item) \in Nat
  BY DEF One
<1>6. Cardinality(after) = Cardinality(before) - One(b.stacks[i] = item) + One(new = item)
  BY <1>2, <1>3, <1>4, <1>5
<1> QED BY <1>2, <1>6 DEF before, after

LEMMA HeldIs ==
  ASSUME NEW b \in Bag, NEW item
  PROVE  Cardinality(Holding(b, item)) \in Nat
<1>1. Holding(b, item) \subseteq Slots
  BY DEF Holding
<1> QED BY <1>1, SlotsFinite, FS_Subset, FS_CardinalityType

LEMMA HoldingLess ==
  ASSUME NEW b \in Bag, NEW i \in Slots \cup {0}, NEW item \in Items
  PROVE  /\ Cardinality(Holding(b, item)) \in Nat
         /\ Cardinality(Holding(Without(b, i), item))
              = Cardinality(Holding(b, item)) - One(i \in Slots /\ b.stacks[i] = item)
<1>1. CASE i \in Slots
  <2>1. /\ Cardinality(Holding(b, item)) \in Nat
        /\ Cardinality(Holding(WithStack(b, i, NoItem), item))
             = Cardinality(Holding(b, item)) - One(b.stacks[i] = item) + One(NoItem = item)
    BY <1>1, HoldingChanges
  <2>2. Holding(WithStack(b, i, NoItem), item) = Holding(Without(b, i), item)
    BY <1>1 DEF Holding, WithStack, Without, Bag
  <2>3. One(NoItem = item) = 0
    BY ItemsAssumption DEF One
  <2>4. One(b.stacks[i] = item) = One(i \in Slots /\ b.stacks[i] = item)
    BY <1>1 DEF One
  <2>5. One(b.stacks[i] = item) \in Nat
    BY DEF One
  <2> QED BY <2>1, <2>2, <2>3, <2>4, <2>5
<1>2. CASE i \notin Slots
  <2>1. Holding(Without(b, i), item) = Holding(b, item)
    BY <1>2 DEF Holding, Without
  <2>2. One(i \in Slots /\ b.stacks[i] = item) = 0
    BY <1>2 DEF One
  <2> QED BY <2>1, <2>2, HeldIs
<1> QED BY <1>1, <1>2

-----------------------------------------------------------------------------
(* What a step does to the commands. *)

(* Place id of session s now holds t, and no other place has changed.       *)
Sets(s, id, t) ==
  \A r \in Sessions, j \in Ids :
    tasks'[r][j] = IF r = s /\ j = id THEN t ELSE tasks[r][j]

Ends(s) ==
  \A r \in Sessions, j \in Ids :
    tasks'[r][j] = IF r = s /\ IsMessage(tasks[r][j]) THEN NoTask ELSE tasks[r][j]

LEMMA NoTaskIs ==
  /\ NoTask \in Commands /\ NoTask.kind = "none" /\ NoTask.step = "none" /\ NoTask.draft = NoDraft
BY DEF Commands, NoTask

LEMMA CommandsAre == Commands' = Commands
BY DEF Commands, Task, Route, Drafted, Open, Draft, NoDraft, Bag

(* A command whose transaction is over, or has not begun.                   *)
LEMMA PlainTyped ==
  ASSUME NEW t \in Task, Route(t), t.draft = NoDraft
  PROVE  t \in Commands
BY DEF Commands, Drafted, Open

LEMMA AtStepIs ==
  ASSUME NEW u \in Task, NEW step \in Steps
  PROVE  /\ AtStep(u, step) \in Task
         /\ AtStep(u, step).kind = u.kind /\ AtStep(u, step).step = step
         /\ AtStep(u, step).item = u.item /\ AtStep(u, step).slot = u.slot
         /\ AtStep(u, step).bag = u.bag /\ AtStep(u, step).quest = u.quest
         /\ AtStep(u, step).draft = NoDraft
BY NoDraftIs DEF AtStep, Task

LEMMA TasksDiffer ==
  ASSUME NEW t \in Task
  PROVE  t # NoTask /\ t.kind # "none"
BY DEF Task, NoTask, Kinds, MenuKinds, TradeKinds, QuestKinds

LEMMA BecomeSets ==
  ASSUME TypedTasks, NEW s \in Sessions, NEW id \in Ids, NEW t \in Commands,
         Become(s, id, t)
  PROVE  TypedTasks' /\ Sets(s, id, t)
<1>1. tasks' = [tasks EXCEPT ![s] = [tasks[s] EXCEPT ![id] = t]]
  BY DEF Become, TypedTasks
<1>2. Commands' = Commands
  BY CommandsAre
<1>3. [tasks[s] EXCEPT ![id] = t] \in [Ids -> Commands]
  BY DEF TypedTasks
<1>4. tasks' \in [Sessions -> [Ids -> Commands]]
  BY <1>1, <1>3 DEF TypedTasks
<1>5. \A r \in Sessions, j \in Ids :
        tasks'[r][j] = IF r = s /\ j = id THEN t ELSE tasks[r][j]
  BY <1>1 DEF TypedTasks
<1> QED BY <1>2, <1>4, <1>5 DEF TypedTasks, Sets

LEMMA StartSets ==
  ASSUME TypedTasks, NEW s \in Sessions, NEW t \in Commands, Start(s, t)
  PROVE  TypedTasks' /\ \E id \in Ids : tasks[s][id] = NoTask /\ Sets(s, id, t)
<1> DEFINE id == Min(FreeIds(s))
<1>1. FreeIds(s) \subseteq Nat /\ FreeIds(s) # {}
  BY Bounds DEF FreeIds, Ids, Start
<1>2. id \in FreeIds(s)
  BY <1>1, MinIs
<1>3. id \in Ids /\ tasks[s][id] = NoTask
  BY <1>2 DEF FreeIds
<1>4. Become(s, id, t)
  BY DEF Start, Become
<1> HIDE DEF id
<1> QED BY <1>3, <1>4, BecomeSets

LEMMA EndSets ==
  ASSUME TypedTasks, NEW s \in Sessions, End(s)
  PROVE  TypedTasks' /\ Ends(s)
<1> DEFINE row == [id \in Ids |-> IF IsMessage(tasks[s][id]) THEN NoTask ELSE tasks[s][id]]
<1>1. tasks' = [tasks EXCEPT ![s] = row]
  BY DEF End
<1>2. row \in [Ids -> Commands]
  BY NoTaskIs DEF TypedTasks
<1>3. Commands' = Commands
  BY CommandsAre
<1>4. \A j \in Ids : row[j] = IF IsMessage(tasks[s][j]) THEN NoTask ELSE tasks[s][j]
  OBVIOUS
<1> HIDE DEF row
<1>5. tasks' \in [Sessions -> [Ids -> Commands]]
  BY <1>1, <1>2 DEF TypedTasks
<1>6. Ends(s)
  BY <1>1, <1>4 DEF TypedTasks, Ends
<1> QED BY <1>3, <1>5, <1>6 DEF TypedTasks

(* What is in hand, of any commands.                                        *)
HandsOf(all, item) == {h \in Sessions \X Ids : Carries(all[h[1]][h[2]], item)}

LEMMA HandsFinite ==
  ASSUME NEW all, NEW item
  PROVE  IsFiniteSet(HandsOf(all, item)) /\ Cardinality(HandsOf(all, item)) \in Nat
<1>1. IsFiniteSet(Sessions \X Ids)
  BY Bounds, SlotsFinite, FS_Product
<1>2. HandsOf(all, item) \subseteq Sessions \X Ids
  BY DEF HandsOf
<1> QED BY <1>1, <1>2, FS_Subset, FS_CardinalityType

Differ(all, some, s, id, t) ==
  \A r \in Sessions, j \in Ids : some[r][j] = IF r = s /\ j = id THEN t ELSE all[r][j]

LEMMA HandsChange ==
  ASSUME NEW all, NEW some, NEW s \in Sessions, NEW id \in Ids, NEW t, NEW item,
         Differ(all, some, s, id, t)
  PROVE  Cardinality(HandsOf(some, item))
           = Cardinality(HandsOf(all, item)) - One(Carries(all[s][id], item)) + One(Carries(t, item))
<1> DEFINE before == HandsOf(all, item)
           after == HandsOf(some, item)
           rest == before \ {<<s, id>>}
<1>1. /\ IsFiniteSet(before) /\ Cardinality(before) \in Nat
  BY HandsFinite
<1>2. IsFiniteSet(rest) /\ Cardinality(rest) \in Nat
  BY <1>1, FS_Subset, FS_CardinalityType
<1>3. Cardinality(rest) = Cardinality(before) - One(Carries(all[s][id], item))
  <2>1. <<s, id>> \in before <=> Carries(all[s][id], item)
    BY DEF HandsOf
  <2> HIDE DEF before
  <2>2. CASE <<s, id>> \in before
    <3>1. Cardinality(before \ {<<s, id>>}) = Cardinality(before) - 1
      BY <1>1, <2>2, FS_RemoveElement
    <3> QED BY <2>1, <2>2, <3>1 DEF One
  <2>3. CASE <<s, id>> \notin before
    <3>1. rest = before
      BY <2>3
    <3> HIDE DEF rest
    <3> QED BY <1>1, <2>1, <2>3, <3>1 DEF One
  <2> QED BY <2>2, <2>3
<1>4. Cardinality(after) = Cardinality(rest) + One(Carries(t, item))
  <2>1. \A h \in Sessions \X Ids : h # <<s, id>> => (h \in after <=> h \in before)
    BY DEF HandsOf, Differ
  <2>2. <<s, id>> \in after <=> Carries(t, item)
    BY DEF HandsOf, Differ
  <2>3. after \subseteq Sessions \X Ids /\ before \subseteq Sessions \X Ids
        /\ <<s, id>> \in Sessions \X Ids
    BY DEF HandsOf
  <2> HIDE DEF after, before
  <2>4. CASE Carries(t, item)
    <3>1. after = rest \cup {<<s, id>>}
      BY <2>1, <2>2, <2>3, <2>4
    <3>2. Cardinality(rest \cup {<<s, id>>}) = Cardinality(rest) + 1
      BY <1>2, FS_AddElement
    <3> QED BY <2>4, <3>1, <3>2 DEF One
  <2>5. CASE ~Carries(t, item)
    <3>1. after = rest
      BY <2>1, <2>2, <2>3, <2>5
    <3> HIDE DEF rest
    <3> QED BY <1>2, <2>5, <3>1 DEF One
  <2> QED BY <2>4, <2>5
<1> HIDE DEF before, after, rest
<1>5. One(Carries(all[s][id], item)) \in Nat /\ One(Carries(t, item)) \in Nat
  BY DEF One
<1>6. Cardinality(after) = Cardinality(before) - One(Carries(all[s][id], item)) + One(Carries(t, item))
  BY <1>1, <1>2, <1>3, <1>4, <1>5
<1> QED BY <1>6 DEF before, after

(* The program's end drops the messages of what was found.                  *)
LEMMA HandsAtEnd ==
  ASSUME TypedTasks, NEW s \in Sessions, End(s), NEW item
  PROVE  /\ Cardinality(FoundIn(s, item)) \in Nat
         /\ Cardinality(HandsOf(tasks', item))
              = Cardinality(HandsOf(tasks, item)) - Cardinality(FoundIn(s, item))
<1> DEFINE lost == {s} \X FoundIn(s, item)
           before == HandsOf(tasks, item)
           after == HandsOf(tasks', item)
<1>1. Ends(s)
  BY EndSets
<1>2. IsFiniteSet(FoundIn(s, item)) /\ IsFiniteSet({s})
  <2>1. FoundIn(s, item) \subseteq Ids
    BY DEF FoundIn
  <2> QED BY <2>1, SlotsFinite, FS_Subset, FS_Singleton
<1>3. IsFiniteSet(lost) /\ Cardinality(lost) = Cardinality({s}) * Cardinality(FoundIn(s, item))
  BY <1>2, FS_Product
<1>4. Cardinality({s}) = 1 /\ Cardinality(FoundIn(s, item)) \in Nat
  BY <1>2, FS_Singleton, FS_CardinalityType
<1>11. Cardinality(lost) = Cardinality(FoundIn(s, item))
  <2>1. \A m \in Nat : 1 * m = m
    OBVIOUS
  <2> HIDE DEF lost
  <2> QED BY <1>3, <1>4, <2>1
<1>5. lost \subseteq before
  BY DEF HandsOf, FoundIn, At, Carries, NoTask
<1>6. after = before \ lost
  <2>1. ASSUME NEW r \in Sessions, NEW j \in Ids
        PROVE  <<r, j>> \in after <=> <<r, j>> \in before /\ <<r, j>> \notin lost
    <3>1. CASE r = s /\ IsMessage(tasks[r][j])
      <4>1. tasks'[r][j] = NoTask
        BY <1>1, <3>1 DEF Ends
      <4>2. <<r, j>> \notin after
        BY <4>1 DEF HandsOf, Carries
      <4>3. <<r, j>> \in before => j \in FoundIn(s, item)
        BY <3>1 DEF HandsOf, Carries, FoundIn, At, IsMessage, Messages
      <4> QED BY <3>1, <4>2, <4>3
    <3>2. CASE ~(r = s /\ IsMessage(tasks[r][j]))
      <4>1. tasks'[r][j] = tasks[r][j]
        BY <1>1, <3>2 DEF Ends
      <4>2. <<r, j>> \in after <=> <<r, j>> \in before
        BY <4>1 DEF HandsOf
      <4>3. <<r, j>> \notin lost
        BY <3>2 DEF FoundIn, At, IsMessage, Messages
      <4> QED BY <4>2, <4>3
    <3> QED BY <3>1, <3>2
  <2>2. after \subseteq Sessions \X Ids /\ before \subseteq Sessions \X Ids
    BY DEF HandsOf
  <2> HIDE DEF after, before, lost
  <2>3. \A h \in Sessions \X Ids : h \in after <=> h \in before /\ h \notin lost
    BY <2>1
  <2> QED BY <2>2, <2>3
<1>7. IsFiniteSet(before) /\ Cardinality(before) \in Nat
  BY HandsFinite
<1>8. Cardinality(before \ lost) = Cardinality(before) - Cardinality(before \cap lost)
  <2> HIDE DEF before, lost
  <2> QED BY <1>7, FS_Difference
<1>9. before \cap lost = lost
  BY <1>5
<1> HIDE DEF before, after, lost
<1>10. Cardinality(after) = Cardinality(before) - Cardinality(FoundIn(s, item))
  BY <1>6, <1>8, <1>9, <1>11
<1> QED BY <1>4, <1>10 DEF before, after

-----------------------------------------------------------------------------
(* Commands keep to their routes and variables to their kinds. *)

LEMMA KeepSessions ==
  ASSUME TypedSessions, UNCHANGED <<phase, flagVars, readVars, events>>
  PROVE  TypedSessions'
BY DEF TypedSessions, flagVars, readVars

LEMMA KeepScreens ==
  ASSUME TypedScreens, UNCHANGED screenVars
  PROVE  TypedScreens'
BY DEF TypedScreens, screenVars

LEMMA AnsweringTyped ==
  ASSUME NEW u \in Task, Route(u), NEW b \in Bag \cup {NoBag}
  PROVE  Answering(u, b) \in Commands
<1> DEFINE t == Answering(u, b)
<1>1. /\ t \in Task
      /\ t.kind = u.kind /\ t.step = "answered" /\ t.item = u.item /\ t.slot = u.slot
      /\ t.draft = NoDraft
  BY NoDraftIs DEF Answering, Task, Steps, Messages
<1> HIDE DEF t
<1>2. Route(t)
  BY <1>1 DEF Route
<1> QED BY <1>1, <1>2, PlainTyped DEF t

LEMMA SendSets ==
  ASSUME TypedTasks, NEW s \in Sessions, NEW id \in Ids, NEW t \in Commands, Send(s, id, t)
  PROVE  TypedTasks' /\ Sets(s, id, IF Playing(s) THEN t ELSE NoTask)
<1> DEFINE u == IF Playing(s) THEN t ELSE NoTask
<1>1. u \in Commands /\ Become(s, id, u)
  BY NoTaskIs DEF Send
<1> HIDE DEF u
<1>2. TypedTasks' /\ Sets(s, id, u)
  BY <1>1, BecomeSets
<1> QED BY <1>2 DEF u

LEMMA AtIs ==
  ASSUME TypedTasks, NEW s \in Sessions, NEW id \in Ids, NEW kinds \in SUBSET Kinds, NEW step,
         At(s, id, kinds, step)
  PROVE  /\ tasks[s][id] \in Task /\ Route(tasks[s][id]) /\ Drafted(tasks[s][id])
         /\ tasks[s][id].kind \in kinds /\ tasks[s][id].step = step
<1>1. tasks[s][id] \in Commands
  BY DEF TypedTasks
<1>2. "none" \notin Kinds
  BY DEF Kinds, MenuKinds, TradeKinds, QuestKinds
<1> QED BY <1>1, <1>2 DEF Commands, NoTask, At

LEMMA TaskIs ==
  ASSUME TypedTasks, NEW s \in Sessions, NEW id \in Ids, tasks[s][id].kind # "none"
  PROVE  /\ tasks[s][id] \in Task /\ Route(tasks[s][id]) /\ Drafted(tasks[s][id])
         /\ tasks[s][id] # NoTask
<1>1. tasks[s][id] \in Commands
  BY DEF TypedTasks
<1> QED BY <1>1 DEF Commands, NoTask

LEMMA KeepWorld ==
  ASSUME TypedWorld, UNCHANGED <<scene, owner, gift, presses, gifts>>,
         gear' \in Wearables \cup {NoItem}, ground' \in [Items -> Nat], bag' \in Bag,
         quest' \in Progress, due' \in [Items -> Int],
         author' \in Sessions \cup {NoSession}, told' \in Sessions \cup {NoSession},
         unaware' \subseteq Sessions
  PROVE  TypedWorld'
BY DEF TypedWorld

LEMMA AddedIs ==
  ASSUME NEW b \in Bag, HasRoom(b), NEW item \in Items
  PROVE  /\ Added(b, item) \in Bag
         /\ NextSlot(b) \in Slots /\ b.stacks[NextSlot(b)] = NoItem
<1>1. NextSlot(b) \in Slots /\ b.stacks[NextSlot(b)] = NoItem
  BY NextSlotFree
<1> QED BY <1>1, WithStackIs DEF Added

(* What a call makes of its command: one with the same kind, or nothing     *)
(* when its message has nobody to take it.                                  *)
GoesOn(s, id, t) ==
  /\ Sets(s, id, t)
  /\ t \in Commands
  /\ t.kind = tasks[s][id].kind \/ (t = NoTask /\ ~Playing(s))

Called(s, id) == TypedWorld' /\ TypedTasks' /\ \E t : GoesOn(s, id, t)

LEMMA SendGoesOn ==
  ASSUME TypedTasks, NEW s \in Sessions, NEW id \in Ids, NEW t \in Commands,
         t.kind = tasks[s][id].kind, Send(s, id, t)
  PROVE  TypedTasks' /\ GoesOn(s, id, IF Playing(s) THEN t ELSE NoTask)
<1>1. TypedTasks' /\ Sets(s, id, IF Playing(s) THEN t ELSE NoTask)
  BY SendSets
<1> QED BY <1>1, NoTaskIs DEF GoesOn

LEMMA BecomeGoesOn ==
  ASSUME TypedTasks, NEW s \in Sessions, NEW id \in Ids, NEW t \in Commands,
         t.kind = tasks[s][id].kind, Become(s, id, t)
  PROVE  TypedTasks' /\ GoesOn(s, id, t)
BY BecomeSets DEF GoesOn

LEMMA AnswerGoesOn ==
  ASSUME TypedTasks, NEW s \in Sessions, NEW id \in Ids, tasks[s][id].kind # "none",
         NEW b \in Bag \cup {NoBag}, Send(s, id, Answering(tasks[s][id], b))
  PROVE  /\ TypedTasks'
         /\ GoesOn(s, id, IF Playing(s) THEN Answering(tasks[s][id], b) ELSE NoTask)
<1>1. tasks[s][id] \in Task /\ Route(tasks[s][id])
  BY TaskIs
<1>2. Answering(tasks[s][id], b) \in Commands /\ Answering(tasks[s][id], b).kind = tasks[s][id].kind
  BY <1>1, AnsweringTyped DEF Answering, Task
<1> QED BY <1>2, SendGoesOn

LEMMA FailGoesOn ==
  ASSUME TypedTasks, NEW s \in Sessions, NEW id \in Ids, tasks[s][id].kind # "none", Fail(s, id)
  PROVE  /\ TypedTasks'
         /\ GoesOn(s, id, IF Playing(s) THEN Answering(tasks[s][id], NoBag) ELSE NoTask)
BY AnswerGoesOn DEF Fail

-----------------------------------------------------------------------------
(* A step of one command, group by group. *)

LEMMA BagsHave ==
  ASSUME TypedTasks, NEW s \in Sessions, NEW id \in Ids, tasks[s][id] # NoTask
  PROVE  tasks[s][id].bag.edition \in Int
<1>1. tasks[s][id] \in Task
  BY DEF TypedTasks, Commands
<1>2. tasks[s][id].bag \in Bag \cup {NoBag}
  BY <1>1 DEF Task
<1> QED BY <1>2 DEF Bag, NoBag

(* The command brings what it did, or will read it back.                    *)
LEMMA CaughtByAuthor ==
  ASSUME Typed, Caught, NEW s \in Sessions, NEW id \in Ids, NEW t, Sets(s, id, t),
         UNCHANGED <<newest, events, phase>>,
         bag'.edition = bag.edition + 1, author' \in {s, NoSession}, told' = NoSession,
         t # NoTask => t.bag.edition \in Int /\ t.bag.edition <= bag'.edition,
         Playing(s) /\ author' = s => Returns(t)'
  PROVE  Caught'
<1>1. bag.edition \in Nat /\ newest \in [Sessions -> Nat]
  BY DEF Typed, TypedWorld, TypedSessions, Bag
<1>2. Older'
  <2>1. ASSUME NEW r \in Sessions PROVE newest'[r] <= bag'.edition
    BY <1>1 DEF Caught, Older
  <2>2. ASSUME NEW r \in Sessions, NEW j \in Ids, tasks'[r][j] # NoTask
        PROVE  tasks'[r][j].bag.edition <= bag'.edition
    <3>1. CASE r = s /\ j = id
      BY <2>2, <3>1 DEF Sets
    <3>2. CASE ~(r = s /\ j = id)
      <4>1. tasks'[r][j] = tasks[r][j]
        BY <3>2 DEF Sets
      <4>2. tasks[r][j].bag.edition \in Int /\ tasks[r][j].bag.edition <= bag.edition
        BY <2>2, <4>1, BagsHave DEF Caught, Older, Typed
      <4> QED BY <1>1, <4>1, <4>2
    <3> QED BY <3>1, <3>2
  <2> QED BY <2>1, <2>2 DEF Older
<1>3. AuthorCaught'
  <2>1. SUFFICES ASSUME Playing(s), author' = s
                 PROVE  \E j \in Ids : Returns(tasks[s][j])'
    BY ItemsAssumption DEF AuthorCaught, Playing
  <2>2. tasks'[s][id] = t
    BY DEF Sets
  <2> QED BY <2>1, <2>2 DEF Returns, Brings
<1>4. ToldCaught'
  BY ItemsAssumption DEF ToldCaught
<1> QED BY <1>2, <1>3, <1>4 DEF Caught

(* Nothing has changed, and what the command was to bring it still is.      *)
LEMMA CaughtAsBefore ==
  ASSUME Typed, Caught, NEW s \in Sessions, NEW id \in Ids, NEW t, Sets(s, id, t),
         UNCHANGED <<newest, events, phase, bag>>,
         author' \in {author, NoSession}, told' \in {told, NoSession},
         t # NoTask => t.bag.edition <= bag.edition,
         Playing(s) /\ author' = s /\ Returns(tasks[s][id]) => Returns(t),
         Playing(s) /\ told' = s /\ Reloads(tasks[s][id]) => Reloads(t)
  PROVE  Caught'
<1>1. \A r \in Sessions, j \in Ids : ~(r = s /\ j = id) => tasks'[r][j] = tasks[r][j]
  BY DEF Sets
<1>2. tasks'[s][id] = t
  BY DEF Sets
<1>3. Older'
  BY <1>1, <1>2 DEF Caught, Older
<1>4. AuthorCaught'
  <2>1. SUFFICES ASSUME NEW r \in Sessions, Playing(r), r = author',
                        newest[r] # bag.edition
                 PROVE  \E j \in Ids : Returns(tasks[r][j])'
    BY DEF AuthorCaught, Playing
  <2>2. r = author
    BY <2>1, ItemsAssumption
  <2>3. PICK j \in Ids : Returns(tasks[r][j])
    BY <2>1, <2>2 DEF Caught, AuthorCaught
  <2>4. CASE r = s /\ j = id
    BY <1>2, <2>1, <2>3, <2>4 DEF Returns, Brings
  <2>5. CASE ~(r = s /\ j = id)
    BY <1>1, <2>3, <2>5 DEF Returns, Brings
  <2> QED BY <2>4, <2>5
<1>5. ToldCaught'
  <2>1. SUFFICES ASSUME NEW r \in Sessions, Playing(r), r = told',
                        newest[r] # bag.edition, ~(events[r] > 0)
                 PROVE  \E j \in Ids : Reloads(tasks[r][j])'
    BY DEF ToldCaught, Playing
  <2>2. r = told
    BY <2>1, ItemsAssumption
  <2>3. PICK j \in Ids : Reloads(tasks[r][j])
    BY <2>1, <2>2 DEF Caught, ToldCaught
  <2>4. CASE r = s /\ j = id
    BY <1>2, <2>1, <2>3, <2>4 DEF Reloads, Brings
  <2>5. CASE ~(r = s /\ j = id)
    BY <1>1, <2>3, <2>5 DEF Reloads, Brings
  <2> QED BY <2>4, <2>5
<1> QED BY <1>3, <1>4, <1>5 DEF Caught

(* The goods still add up.                                                  *)
LEMMA GoodsMove ==
  ASSUME Typed, GoodsAddUp, NEW s \in Sessions, NEW id \in Ids, NEW t, Sets(s, id, t),
         bag' \in Bag, ground' \in [Items -> Nat], due' \in [Items -> Int],
         \A i \in Items :
           due'[i] - due[i] = (ground'[i] - ground[i])
             + (Cardinality(Holding(bag', i)) - Cardinality(Holding(bag, i)))
             + (One(Carries(t, i)) - One(Carries(tasks[s][id], i)))
  PROVE  GoodsAddUp'
<1>1. SUFFICES ASSUME NEW i \in Items
               PROVE  due'[i] = ground'[i] + Cardinality(Holding(bag', i))
                                + Cardinality(HandsOf(tasks', i))
  BY DEF GoodsAddUp, InHand, HandsOf
<1>2. due[i] = ground[i] + Cardinality(Holding(bag, i)) + Cardinality(HandsOf(tasks, i))
  BY DEF GoodsAddUp, InHand, HandsOf
<1>3. Cardinality(HandsOf(tasks', i))
        = Cardinality(HandsOf(tasks, i)) - One(Carries(tasks[s][id], i)) + One(Carries(t, i))
  <2>1. Differ(tasks, tasks', s, id, t)
    BY DEF Sets, Differ
  <2> QED BY <2>1, HandsChange
<1>4. Cardinality(HandsOf(tasks, i)) \in Nat
  BY HandsFinite
<1>5. Cardinality(Holding(bag, i)) \in Nat /\ Cardinality(Holding(bag', i)) \in Nat
  <2>1. ASSUME NEW b \in Bag PROVE Cardinality(Holding(b, i)) \in Nat
    <3>1. Holding(b, i) \subseteq Slots
      BY DEF Holding
    <3> QED BY <3>1, SlotsFinite, FS_Subset, FS_CardinalityType
  <2> QED BY <2>1 DEF Typed, TypedWorld
<1>6. One(Carries(tasks[s][id], i)) \in Nat /\ One(Carries(t, i)) \in Nat
  BY DEF One
<1>7. due[i] \in Int /\ due'[i] \in Int /\ ground[i] \in Int /\ ground'[i] \in Int
  BY DEF Typed, TypedWorld
<1>8. due'[i] - due[i] = (ground'[i] - ground[i])
             + (Cardinality(Holding(bag', i)) - Cardinality(Holding(bag, i)))
             + (One(Carries(t, i)) - One(Carries(tasks[s][id], i)))
  OBVIOUS
<1> QED BY <1>2, <1>3, <1>4, <1>5, <1>6, <1>7, <1>8

(* The equipment is as it was, and the command has nothing to tell of it.   *)
(* A command about what is worn, between the change and the world.          *)
OnWay(t) == t.kind \in MenuKinds /\ t.step \in {"reread", "reading", "tell"}
Silent(t) == ~OnWay(t) /\ t.step \notin {"reread", "tell"}

LEMMA GearIs ==
  /\ GearAgrees <=>
       \A s \in Sessions : owner = s /\ s \notin unaware /\ (\A id \in Ids : ~OnWay(tasks[s][id]))
         => gear = EquipmentStats(bag)
  /\ GearAgrees' <=>
       \A s \in Sessions : owner' = s /\ s \notin unaware' /\ (\A id \in Ids : ~OnWay(tasks'[s][id]))
         => gear' = EquipmentStats(bag')
BY DEF GearAgrees, Authenticated, At, OnWay, EquipmentStats

(* Knowing what is worn survives a step that changes nothing it is about.   *)
LEMMA KnowsStill ==
  ASSUME NEW r \in Sessions, Knows(r),
         phase'[r] \in {"loading", "joining"} => phase'[r] = phase[r] /\ held'[r] = held[r],
         EquipmentStats(bag') = EquipmentStats(bag), bag.worn = 0 => bag'.worn = 0,
         \A j \in Ids : \/ tasks'[r][j] = tasks[r][j]
                        \/ tasks'[r][j].step # "tell" /\ ~TakesOff(tasks'[r][j])
  PROVE  Knows(r)'
<1>1. ASSUME NEW j \in Ids
      PROVE  /\ TakesOff(tasks'[r][j]) => bag'.worn = 0
             /\ tasks'[r][j].step = "tell" =>
                  EquipmentStats(tasks'[r][j].bag) = EquipmentStats(bag')
  BY DEF Knows
<1>2. phase'[r] \in {"loading", "joining"} => EquipmentStats(held'[r]) = EquipmentStats(bag')
  BY DEF Knows
<1> QED BY <1>1, <1>2 DEF Knows, TakesOff, EquipmentStats

LEMMA SilentTakesNothingOff ==
  ASSUME NEW t, Silent(t)
  PROVE  t.step # "tell" /\ ~TakesOff(t) /\ ~OnWay(t)
BY DEF Silent, OnWay, TakesOff, MenuKinds

LEMMA GearedAsBefore ==
  ASSUME Geared, NEW s \in Sessions, NEW id \in Ids, NEW t, Sets(s, id, t),
         UNCHANGED <<owner, gear, held, phase>>,
         Silent(tasks[s][id]), Silent(t),
         bag'.worn # 0 => bag'.stacks[bag'.worn] # NoItem,
         \/ Sessions \subseteq unaware'
         \/ /\ unaware \subseteq unaware'
            /\ EquipmentStats(bag') = EquipmentStats(bag) /\ (bag.worn = 0 => bag'.worn = 0)
  PROVE  Geared'
<1>1. \A r \in Sessions, j \in Ids : ~(r = s /\ j = id) => tasks'[r][j] = tasks[r][j]
  BY DEF Sets
<1>2. tasks'[s][id] = t
  BY DEF Sets
<1>3. t.step # "tell" /\ ~TakesOff(t) /\ ~OnWay(t) /\ ~OnWay(tasks[s][id])
  BY SilentTakesNothingOff
<1>4. CASE Sessions \subseteq unaware'
  BY <1>4, GearIs DEF Geared
<1>5. CASE /\ unaware \subseteq unaware'
           /\ EquipmentStats(bag') = EquipmentStats(bag) /\ (bag.worn = 0 => bag'.worn = 0)
  <2>1. ASSUME NEW r \in Sessions \ unaware' PROVE Knows(r)'
    <3>1. r \in Sessions /\ Knows(r)
      BY <1>5 DEF Geared
    <3>2. \A j \in Ids : \/ tasks'[r][j] = tasks[r][j]
                         \/ tasks'[r][j].step # "tell" /\ ~TakesOff(tasks'[r][j])
      BY <1>1, <1>2, <1>3
    <3> QED BY <1>5, <3>1, <3>2, KnowsStill
  <2>2. GearAgrees'
    <3>1. SUFFICES ASSUME NEW r \in Sessions, owner' = r, r \notin unaware',
                          \A j \in Ids : ~OnWay(tasks'[r][j])
                   PROVE  gear' = EquipmentStats(bag')
      BY GearIs
    <3>2. \A j \in Ids : ~OnWay(tasks[r][j])
      BY <1>1, <1>3, <3>1
    <3>3. gear = EquipmentStats(bag)
      BY <1>5, <3>1, <3>2, GearIs DEF Geared
    <3> QED BY <1>5, <3>3
  <2> QED BY <2>1, <2>2 DEF Geared
<1> QED BY <1>4, <1>5

(* A change of a slot that is not worn.                                     *)
LEMMA StatsAsBefore ==
  ASSUME NEW b \in Bag, NEW c \in Bag, c.worn = b.worn,
         b.worn # 0 => c.stacks[b.worn] = b.stacks[b.worn]
  PROVE  EquipmentStats(c) = EquipmentStats(b)
BY DEF EquipmentStats

-----------------------------------------------------------------------------
(* The steps of commands come in three kinds: they commit a transaction,    *)
(* they leave the inventory alone, or they are about what is worn.          *)

Kept(s, id) == Called(s, id) /\ Geared' /\ Caught' /\ GoodsAddUp'

Settle(s, id, x, t) == One(Carries(t, x)) - One(Carries(tasks[s][id], x))

(* What a transaction commits, which only the rows it locked decide.        *)
LEMMA EditionIs ==
  ASSUME NEW b \in Bag, NEW i \in Slots \cup {0}, NEW item
  PROVE  /\ b.edition \in Nat
         /\ WithStack(b, i, item).edition = b.edition + 1
         /\ Without(b, i).edition = b.edition + 1
         /\ Wearing(b, i).edition = b.edition + 1
BY DEF Bag, WithStack, Without, Wearing

LEMMA CommitIs ==
  ASSUME CInv, NEW s \in Sessions, NEW id \in Ids, Commit(s, id)
  PROVE  /\ tasks[s][id] \in Task /\ Route(tasks[s][id]) /\ Drafted(tasks[s][id])
         /\ Open(tasks[s][id]) /\ Sound(bag, tasks[s][id]) /\ Silent(tasks[s][id])
         /\ tasks[s][id].draft.bag \in Bag /\ tasks[s][id].draft.slot \in Slots \cup {0}
         /\ bag' = Written(tasks[s][id]) /\ bag' \in Bag
         /\ bag.edition \in Nat /\ bag'.edition = bag.edition + 1
         /\ tasks[s][id].draft.bag.edition \in Nat
         /\ tasks[s][id].draft.bag.edition <= bag'.edition
         /\ author' \in {s, NoSession} /\ told' = NoSession
         /\ author' = s => tasks[s][id].draft.bag.edition = bag'.edition
<1> DEFINE u == tasks[s][id]
<1>1. TypedTasks /\ TypedWorld /\ bag \in Bag
  BY DEF CInv, Typed, TypedWorld
<1>2. Open(u) /\ bag' = Written(u) /\ author' = Author(s, u) /\ told' = NoSession
  BY DEF Commit, Change
<1>3. u # NoTask
  BY <1>2, NoTaskIs DEF Open
<1>4. u \in Task /\ Route(u) /\ Drafted(u)
  BY <1>1, <1>3 DEF TypedTasks, Commands
<1>5. Sound(bag, u) /\ (Serial => Alone(bag, u))
  BY <1>2 DEF CInv, Locked, Busy
<1>6. u.draft.bag \in Bag /\ u.draft.slot \in Slots \cup {0} /\ u.step \in {"call", "write", "refund"}
  <2>1. u.draft \in Draft
    BY <1>4 DEF Task
  <2> QED BY <1>2, <1>4, <2>1 DEF Drafted, Draft
<1>7. u.draft.bag.edition \in Nat
  BY <1>6, EditionIs
<1>8. bag' \in Bag /\ bag.edition \in Nat /\ bag'.edition = bag.edition + 1
  <2>1. CASE Adds(u)
    <3>1. u.draft.slot \in Slots /\ u.item \in Items
      BY <1>2, <1>4, <2>1, ItemsAssumption DEF Adds, Drafted, Route, QuestKinds
    <3>2. u.kind # "equip"
      BY <1>4, <2>1 DEF Adds, Route
    <3>3. bag' = WithStack(bag, u.draft.slot, u.item)
      BY <1>2, <2>1, <3>2 DEF Written
    <3> QED BY <1>1, <1>6, <3>1, <3>3, WithStackIs, EditionIs
  <2>2. CASE ~Adds(u) /\ u.kind = "equip"
    <3>1. bag' = Wearing(bag, u.draft.slot)
      BY <1>2, <2>2 DEF Written
    <3> QED BY <1>1, <1>6, <3>1, WearingIs, EditionIs
  <2>3. CASE ~Adds(u) /\ u.kind # "equip"
    <3>1. bag' = Without(bag, u.draft.slot)
      BY <1>2, <2>3 DEF Written
    <3> QED BY <1>1, <1>6, <3>1, WithoutIs, EditionIs
  <2> QED BY <2>1, <2>2, <2>3
<1>9. u.draft.bag.edition <= bag'.edition
  BY <1>5, <1>8 DEF Sound
<1>10. author' \in {s, NoSession} /\ (author' = s => u.draft.bag.edition = bag'.edition)
  BY <1>2, <1>5, <1>8, ItemsAssumption DEF Author, Alone
<1>11. Silent(u)
  BY <1>6 DEF Silent, OnWay
<1> QED BY <1>2, <1>4, <1>5, <1>6, <1>7, <1>8, <1>9, <1>10, <1>11

(* Whoever was surprised, nothing is not worn, and to the others the change *)
(* is none of what they wear.                                               *)
LEMMA CommitWears ==
  ASSUME CInv, NEW s \in Sessions, NEW id \in Ids, Commit(s, id)
  PROVE  /\ bag'.worn # 0 => bag'.stacks[bag'.worn] # NoItem
         /\ ~Rewears(tasks[s][id]) =>
              EquipmentStats(bag') = EquipmentStats(bag) /\ (bag.worn = 0 => bag'.worn = 0)
<1> DEFINE u == tasks[s][id]
           i == u.draft.slot
<1>1. /\ u \in Task /\ Route(u) /\ Drafted(u) /\ Open(u) /\ Sound(bag, u) /\ i \in Slots \cup {0}
      /\ bag' = Written(u) /\ bag' \in Bag
  BY CommitIs
<1>2. bag \in Bag /\ 0 \notin Slots /\ (bag.worn # 0 => bag.stacks[bag.worn] # NoItem)
  BY Bounds DEF CInv, Typed, TypedWorld, Geared, Slots
<1>3. bag.worn \in Slots \cup {0}
  BY <1>2 DEF Bag
<1>4. CASE Adds(u)
  <2>1. i \in Slots /\ u.item \in Items /\ bag.stacks[i] = NoItem
    BY <1>1, <1>4, ItemsAssumption DEF Adds, Drafted, Route, QuestKinds, Sound
  <2>2. bag' = WithStack(bag, i, u.item)
    <3>1. u.kind # "equip"
      BY <1>1, <1>4 DEF Adds, Route
    <3> QED BY <1>1, <1>4, <3>1 DEF Written
  <2>3. bag'.worn = bag.worn /\ (bag.worn # 0 => bag'.stacks[bag.worn] = bag.stacks[bag.worn])
    BY <1>2, <1>3, <2>1, <2>2 DEF WithStack, Bag
  <2> QED BY <1>1, <1>2, <2>3, StatsAsBefore
<1>5. CASE ~Adds(u) /\ u.kind = "equip"
  <2>1. bag' = Wearing(bag, i) /\ i = u.slot /\ Rewears(u) /\ bag.stacks[i] # NoItem
    BY <1>1, <1>5 DEF Written, Drafted, Rewears, Sound
  <2> QED BY <2>1 DEF Wearing
<1>6. CASE ~Adds(u) /\ u.kind # "equip"
  <2>1. bag' = Without(bag, i)
    BY <1>1, <1>6 DEF Written
  <2>2. CASE bag.worn = i
    <3>1. bag'.worn = 0
      BY <2>1, <2>2 DEF Without
    <3>2. ~Rewears(u) => i = 0
      BY <1>6, <2>2 DEF Rewears
    <3>3. ~Rewears(u) => bag.worn = 0 /\ bag'.worn = bag.worn
      BY <2>2, <3>1, <3>2
    <3> QED BY <1>1, <1>2, <3>1, <3>3, StatsAsBefore
  <2>3. CASE bag.worn # i
    <3>1. bag'.worn = bag.worn /\ (bag.worn # 0 => bag'.stacks[bag.worn] = bag.stacks[bag.worn])
      BY <1>3, <2>1, <2>3 DEF Without
    <3> QED BY <1>1, <1>2, <3>1, StatsAsBefore
  <2> QED BY <2>2, <2>3
<1> QED BY <1>4, <1>5, <1>6

(* A change of one stack.                                                   *)
LEMMA CommitKeeps ==
  ASSUME CInv, NEW s \in Sessions, NEW id \in Ids, NEW t,
         Commit(s, id), tasks[s][id].kind # "equip", unaware' = Surprised(tasks[s][id]),
         TypedTasks', GoesOn(s, id, t),
         quest' \in Progress, due' \in [Items -> Int],
         \/ t.step \in {"answered", "apply"} /\ t.bag = tasks[s][id].draft.bag
         \/ t = NoTask /\ ~Playing(s),
         \A x \in Items : due'[x] - due[x] =
           (Cardinality(Holding(bag', x)) - Cardinality(Holding(bag, x))) + Settle(s, id, x, t)
  PROVE  Kept(s, id)
<1> DEFINE u == tasks[s][id]
<1>1. Typed /\ TypedWorld /\ Geared /\ Caught /\ GoodsAddUp /\ Sets(s, id, t)
  BY DEF CInv, Typed, GoesOn
<1>2. /\ u \in Task /\ Route(u) /\ Drafted(u) /\ Open(u) /\ Silent(u) /\ u.draft.bag \in Bag
      /\ bag' \in Bag /\ bag.edition \in Nat /\ bag'.edition = bag.edition + 1
      /\ u.draft.bag.edition \in Nat /\ u.draft.bag.edition <= bag'.edition
      /\ author' \in {s, NoSession} /\ told' = NoSession
      /\ author' = s => u.draft.bag.edition = bag'.edition
  BY CommitIs
<1>3. UNCHANGED <<scene, owner, gear, ground, gift, phase, held, newest, events, presses, gifts>>
  BY DEF Commit, Untouched, worldVars, readVars
<1>4. unaware' \in {Sessions, unaware}
  BY DEF Surprised
<1>5. TypedWorld'
  <2>1. gear' \in Wearables \cup {NoItem} /\ ground' \in [Items -> Nat] /\ unaware' \subseteq Sessions
    BY <1>1, <1>3, <1>4 DEF TypedWorld
  <2>2. author' \in Sessions \cup {NoSession} /\ told' \in Sessions \cup {NoSession}
    BY <1>2
  <2> QED BY <1>1, <1>2, <1>3, <2>1, <2>2, KeepWorld
<1>6. t.kind = u.kind \/ t = NoTask
  BY DEF GoesOn
<1>7. Geared'
  <2>1. Silent(t)
    BY NoTaskIs DEF Silent, OnWay
  <2>2. \/ Sessions \subseteq unaware'
        \/ /\ unaware \subseteq unaware'
           /\ EquipmentStats(bag') = EquipmentStats(bag) /\ (bag.worn = 0 => bag'.worn = 0)
    BY CommitWears DEF Surprised
  <2>3. bag'.worn # 0 => bag'.stacks[bag'.worn] # NoItem
    BY CommitWears
  <2> QED BY <1>1, <1>2, <1>3, <2>1, <2>2, <2>3, GearedAsBefore
<1>8. Caught'
  <2>1. t # NoTask => t.bag.edition \in Int /\ t.bag.edition <= bag'.edition
    BY <1>2
  <2>2. u.kind # "reload"
    BY <1>2 DEF Drafted
  <2>3. ASSUME Playing(s), author' = s
        PROVE  Returns(t)'
    <3>1. t.step \in {"answered", "apply"} /\ t.bag = u.draft.bag /\ t.kind = u.kind
      BY <1>6, <2>3, NoTaskIs
    <3>2. t.bag.edition = bag'.edition
      BY <1>2, <2>3, <3>1
    <3> QED BY <2>2, <3>1, <3>2 DEF Returns, Brings
  <2> QED BY <1>1, <1>2, <1>3, <2>1, <2>3, CaughtByAuthor
<1>9. GoodsAddUp'
  <2>1. ASSUME NEW x \in Items
        PROVE  due'[x] - due[x] = (ground'[x] - ground[x])
                 + (Cardinality(Holding(bag', x)) - Cardinality(Holding(bag, x)))
                 + (One(Carries(t, x)) - One(Carries(tasks[s][id], x)))
    <3>1. Cardinality(Holding(bag, x)) \in Nat /\ Cardinality(Holding(bag', x)) \in Nat
      BY <1>1, <1>2, HeldIs DEF TypedWorld
    <3>2. ground'[x] - ground[x] = 0
      BY <1>1, <1>3 DEF TypedWorld
    <3>3. One(Carries(t, x)) \in Nat /\ One(Carries(tasks[s][id], x)) \in Nat
      BY DEF One
    <3>4. due'[x] - due[x] =
            (Cardinality(Holding(bag', x)) - Cardinality(Holding(bag, x)))
              + (One(Carries(t, x)) - One(Carries(tasks[s][id], x)))
      BY DEF Settle
    <3> QED BY <3>1, <3>2, <3>3, <3>4
  <2>2. ground' \in [Items -> Nat]
    BY <1>1, <1>3 DEF TypedWorld
  <2> QED BY <1>1, <1>2, <2>1, <2>2, GoodsMove
<1> QED BY <1>5, <1>7, <1>8, <1>9 DEF Kept, Called

LEMMA NoChangeKeeps ==
  ASSUME CInv, NEW s \in Sessions, NEW id \in Ids, NEW t,
         Untouched, UNCHANGED <<bag, owner, gear, gift, unaware>>,
         TypedTasks', GoesOn(s, id, t),
         author' \in {author, NoSession}, told' \in {told, NoSession},
         quest' \in Progress, due' \in [Items -> Int], ground' \in [Items -> Nat],
         Silent(tasks[s][id]), Silent(t),
         t # NoTask => t.bag.edition <= bag.edition,
         Playing(s) /\ author' = s /\ Returns(tasks[s][id]) => Returns(t),
         Playing(s) /\ told' = s /\ Reloads(tasks[s][id]) => Reloads(t),
         \A x \in Items : due'[x] - due[x] = ground'[x] - ground[x] + Settle(s, id, x, t)
  PROVE  Kept(s, id)
<1>1. Typed /\ TypedWorld /\ Geared /\ Caught /\ GoodsAddUp /\ Sets(s, id, t)
  BY DEF CInv, Typed, GoesOn
<1>2. bag \in Bag /\ bag' \in Bag /\ bag' = bag
  BY <1>1 DEF TypedWorld
<1>3. UNCHANGED <<scene, owner, gear, gift, unaware, phase, held, newest, events,
                  presses, gifts>>
  BY DEF Untouched, readVars
<1>4. TypedWorld'
  <2>1. gear' \in Wearables \cup {NoItem} /\ unaware' \subseteq Sessions
    BY <1>1, <1>3 DEF TypedWorld
  <2>2. author' \in Sessions \cup {NoSession} /\ told' \in Sessions \cup {NoSession}
    BY <1>1 DEF TypedWorld
  <2> QED BY <1>1, <1>2, <1>3, <2>1, <2>2, KeepWorld
<1>5. Geared'
  <2>1. bag'.worn # 0 => bag'.stacks[bag'.worn] # NoItem
    BY <1>1, <1>2 DEF Geared
  <2> QED BY <1>1, <1>2, <1>3, <2>1, GearedAsBefore
<1>6. Caught'
  BY <1>1, <1>2, <1>3, CaughtAsBefore
<1>7. GoodsAddUp'
  <2>1. ASSUME NEW x \in Items
        PROVE  due'[x] - due[x] = (ground'[x] - ground[x])
                 + (Cardinality(Holding(bag', x)) - Cardinality(Holding(bag, x)))
                 + (One(Carries(t, x)) - One(Carries(tasks[s][id], x)))
    <3>1. Cardinality(Holding(bag, x)) \in Nat /\ Holding(bag', x) = Holding(bag, x)
      BY <1>2, HeldIs
    <3>2. One(Carries(t, x)) \in Nat /\ One(Carries(tasks[s][id], x)) \in Nat
      BY DEF One
    <3>3. ground'[x] \in Nat /\ ground[x] \in Nat
      BY <1>1 DEF TypedWorld
    <3>4. due'[x] - due[x] = ground'[x] - ground[x]
                               + (One(Carries(t, x)) - One(Carries(tasks[s][id], x)))
      BY DEF Settle
    <3> QED BY <3>1, <3>2, <3>3, <3>4
  <2> QED BY <1>1, <1>2, <2>1, GoodsMove
<1> QED BY <1>4, <1>5, <1>6, <1>7 DEF Kept, Called

(* Only the command itself moves.                                           *)
LEMMA OnlyTaskKeeps ==
  ASSUME CInv, NEW s \in Sessions, NEW id \in Ids, NEW t,
         Untouched, UNCHANGED <<worldVars, storeVars, historyVars>>,
         TypedTasks', GoesOn(s, id, t),
         Silent(tasks[s][id]), Silent(t),
         t # NoTask => t.bag.edition <= bag.edition,
         Playing(s) /\ Returns(tasks[s][id]) => Returns(t),
         Playing(s) /\ Reloads(tasks[s][id]) => Reloads(t),
         \A x \in Items : Carries(t, x) <=> Carries(tasks[s][id], x)
  PROVE  Kept(s, id)
<1>1. TypedWorld
  BY DEF CInv, Typed
<1>2. /\ quest' \in Progress /\ due' \in [Items -> Int] /\ ground' \in [Items -> Nat]
      /\ UNCHANGED <<bag, owner, gear, gift, unaware, author, told>>
  BY <1>1 DEF worldVars, storeVars, historyVars, TypedWorld
<1>3. \A x \in Items : due'[x] - due[x] = ground'[x] - ground[x] + Settle(s, id, x, t)
  <2>1. \A x \in Items : due'[x] - due[x] = 0 /\ ground'[x] - ground[x] = 0
    BY <1>1 DEF TypedWorld, worldVars, historyVars
  <2>2. \A x \in Items : Settle(s, id, x, t) = 0
    BY DEF Settle, One
  <2> QED BY <2>1, <2>2
<1> QED BY <1>2, <1>3, NoChangeKeeps

(* A call that fails, and has nothing in hand to give back.                 *)
LEMMA FailureKeeps ==
  ASSUME CInv, NEW s \in Sessions, NEW id \in Ids,
         tasks[s][id].kind \notin {"none", "reload"}, tasks[s][id].step \in {"ask", "call", "write"},
         tasks[s][id].kind = "pickup" => tasks[s][id].step = "ask",
         Fail(s, id), Untouched, UNCHANGED <<worldVars, storeVars, historyVars>>
  PROVE  Kept(s, id)
<1> DEFINE u == tasks[s][id]
           t == IF Playing(s) THEN Answering(u, NoBag) ELSE NoTask
<1>1. TypedTasks /\ TypedWorld
  BY DEF CInv, Typed
<1>2. u \in Task
  BY <1>1, TaskIs
<1>3. TypedTasks' /\ GoesOn(s, id, t)
  BY <1>1, FailGoesOn
<1>4. t = NoTask \/ (t.bag = NoBag /\ t.step = "answered")
  <2>1. /\ Answering(u, NoBag).bag = NoBag
        /\ Answering(u, NoBag).step = "answered"
    BY <1>2 DEF Answering, Task
  <2> QED BY <2>1
<1> HIDE DEF t
<1>5. \A x \in Items : ~Carries(t, x) /\ ~Carries(u, x)
  BY <1>2, <1>4 DEF Carries
<1>6. t # NoTask => t.bag.edition <= bag.edition
  BY <1>1, <1>4 DEF TypedWorld, Bag, NoBag
<1>7. ~Returns(u) /\ ~Reloads(u) /\ Silent(u) /\ Silent(t)
  BY <1>4, NoTaskIs DEF Returns, Reloads, Brings, Silent, OnWay
<1> QED BY <1>3, <1>5, <1>6, <1>7, OnlyTaskKeeps

LEMMA AnsweringIs ==
  ASSUME NEW u \in Task, NEW b \in Bag \cup {NoBag}
  PROVE  /\ Answering(u, b) # NoTask
         /\ Answering(u, b).kind = u.kind
         /\ Answering(u, b).step = "answered"
         /\ Answering(u, b).bag = b
BY DEF Answering, Task, NoTask, Kinds, MenuKinds, TradeKinds, QuestKinds

LEMMA OweIs ==
  ASSUME TypedWorld, NEW item \in Items, NEW n \in Int, Owe(item, n)
  PROVE  /\ due' \in [Items -> Int]
         /\ \A x \in Items : due'[x] - due[x] = IF x = item THEN n ELSE 0
<1>1. due' = [due EXCEPT ![item] = due[item] + n] /\ due \in [Items -> Int]
  BY DEF TypedWorld, Owe
<1>2. \A x \in Items : due'[x] = IF x = item THEN due[item] + n ELSE due[x]
  BY <1>1
<1>3. \A x \in Items : due[x] \in Int
  BY <1>1
<1>4. ASSUME NEW x \in Items PROVE due'[x] - due[x] = IF x = item THEN n ELSE 0
  <2>1. CASE x = item
    <3>1. due'[x] = due[x] + n /\ due[x] \in Int
      BY <1>2, <1>3, <2>1
    <3> QED BY <2>1, <3>1
  <2>2. CASE x # item
    <3>1. due'[x] = due[x] /\ due[x] \in Int
      BY <1>2, <1>3, <2>2
    <3> QED BY <2>2, <3>1
  <2> QED BY <2>1, <2>2
<1> QED BY <1>1, <1>4

LEMMA NothingOwed ==
  ASSUME TypedWorld, UNCHANGED due
  PROVE  due' \in [Items -> Int] /\ \A x \in Items : due'[x] - due[x] = 0
BY DEF TypedWorld

LEMMA SameGround ==
  ASSUME TypedWorld, UNCHANGED ground
  PROVE  ground' \in [Items -> Nat] /\ \A x \in Items : ground'[x] - ground[x] = 0
BY DEF TypedWorld

(* What a command has under its hand.                                       *)
LEMMA AskPickupKeeps ==
  ASSUME CInv, NEW s \in Sessions, NEW id \in Ids, AskPickup(s, id)
  PROVE  Kept(s, id)
<1> DEFINE u == tasks[s][id]
<1>1. TypedTasks /\ TypedWorld /\ {"pickup"} \in SUBSET Kinds
  BY DEF CInv, Typed, Kinds
<1>2. At(s, id, {"pickup"}, "ask") /\ Untouched
  BY DEF AskPickup
<1>3. u \in Task /\ u.kind = "pickup" /\ u.step = "ask"
  BY <1>1, <1>2, TaskIs DEF At
<1>4. UNCHANGED <<owner, gear, bag, quest, gift, author, told, unaware>>
  BY DEF AskPickup, storeVars
<1>5. CASE Fail(s, id) /\ UNCHANGED <<ground, due>>
  <2>1. UNCHANGED <<worldVars, storeVars, historyVars>>
    BY <1>4, <1>5 DEF worldVars, storeVars, historyVars
  <2> QED BY <1>2, <1>3, <1>5, <2>1, FailureKeeps
<1>6. ASSUME NEW item \in Items, ground[item] > 0,
             ground' = [ground EXCEPT ![item] = @ - 1],
             Send(s, id, [AtStep(u, "found") EXCEPT !.item = item]),
             IF Playing(s) THEN UNCHANGED due ELSE Owe(item, -1)
      PROVE  Kept(s, id)
  <2> DEFINE found == [AtStep(u, "found") EXCEPT !.item = item]
             t == IF Playing(s) THEN found ELSE NoTask
  <2>1. /\ found \in Task /\ found.kind = "pickup" /\ found.step = "found"
        /\ found.item = item /\ found # NoTask /\ found.bag = u.bag /\ found.draft = NoDraft
    <3>1. /\ AtStep(u, "found") \in Task /\ AtStep(u, "found").kind = u.kind
          /\ AtStep(u, "found").step = "found" /\ AtStep(u, "found").bag = u.bag
          /\ AtStep(u, "found").draft = NoDraft
      BY <1>3, AtStepIs DEF Steps, Messages
    <3>2. found \in Task
      BY <3>1 DEF Task
    <3> QED BY <1>3, <3>1, <3>2, TasksDiffer DEF Task
  <2> HIDE DEF found
  <2>2. found \in Commands
    BY <2>1, PlainTyped DEF Route
  <2>3. Send(s, id, found)
    BY <1>6 DEF found
  <2>4. TypedTasks' /\ GoesOn(s, id, t)
    BY <1>1, <1>3, <2>1, <2>2, <2>3, SendGoesOn
  <2>5. /\ ground' \in [Items -> Nat]
        /\ \A x \in Items : ground'[x] - ground[x] = IF x = item THEN -1 ELSE 0
    <3>1. \A x \in Items : ground[x] \in Nat /\ ground'[x] = IF x = item THEN ground[x] - 1 ELSE ground[x]
      BY <1>1, <1>6 DEF TypedWorld
    <3>2. ground' \in [Items -> Int]
      BY <1>1, <1>6 DEF TypedWorld
    <3>3. \A x \in Items : ground'[x] \in Nat
      BY <1>6, <3>1
    <3> QED BY <3>1, <3>2, <3>3
  <2>6. /\ due' \in [Items -> Int]
        /\ \A x \in Items : due'[x] - due[x] = IF x = item /\ ~Playing(s) THEN -1 ELSE 0
    <3>1. CASE Playing(s)
      BY <1>1, <1>6, <3>1, NothingOwed
    <3>2. CASE ~Playing(s)
      BY <1>1, <1>6, <3>2, OweIs
    <3> QED BY <3>1, <3>2
  <2>7. ASSUME NEW x \in Items
        PROVE  due'[x] - due[x] = ground'[x] - ground[x] + Settle(s, id, x, t)
    <3>1. ~Carries(u, x)
      BY <1>3 DEF Carries
    <3>2. Carries(t, x) <=> Playing(s) /\ x = item
      BY <2>1 DEF Carries
    <3>3. Settle(s, id, x, t) = IF Playing(s) /\ x = item THEN 1 ELSE 0
      BY <3>1, <3>2 DEF Settle, One
    <3> QED BY <2>5, <2>6, <3>3
  <2>8. ~Returns(u) /\ ~Reloads(u)
    BY <1>3 DEF Returns, Reloads, Brings
  <2>9. t # NoTask => t.bag.edition <= bag.edition
    <3>1. u # NoTask
      BY <1>3 DEF NoTask
    <3> QED BY <2>1, <3>1 DEF CInv, Caught, Older
  <2>10. Silent(t) /\ Silent(u)
    BY <1>3, <2>1, NoTaskIs DEF Silent, OnWay
  <2>11. quest' \in Progress /\ author' \in {author, NoSession} /\ told' \in {told, NoSession}
    BY <1>1, <1>4 DEF TypedWorld
  <2> HIDE DEF t
  <2> QED BY <1>2, <1>4, <2>4, <2>5, <2>6, <2>7, <2>8, <2>9, <2>10, <2>11, NoChangeKeeps
<1> QED BY <1>5, <1>6 DEF AskPickup

LEMMA StoreFailsKeeps ==
  ASSUME CInv, NEW s \in Sessions, NEW id \in Ids, StoreFails(s, id)
  PROVE  Kept(s, id)
<1> DEFINE u == tasks[s][id]
           t == AtStep(u, "restore")
<1>1. TypedTasks /\ {"pickup"} \in SUBSET Kinds
  BY DEF CInv, Typed, Kinds
<1>2. /\ At(s, id, {"pickup"}, "call") /\ Become(s, id, t)
      /\ Untouched /\ UNCHANGED <<worldVars, storeVars, historyVars>>
  BY DEF StoreFails
<1>3. u \in Task /\ Route(u) /\ u.kind = "pickup" /\ u.step = "call" /\ u.item \in Items
  BY <1>1, <1>2, AtIs DEF Route, QuestKinds
<1>4. /\ t \in Task /\ t.kind = u.kind /\ t.step = "restore" /\ t.item = u.item
      /\ t.bag = u.bag /\ t.draft = NoDraft /\ t # NoTask /\ u # NoTask
  BY <1>3, AtStepIs, TasksDiffer DEF Steps
<1> HIDE DEF t
<1>5. t \in Commands
  BY <1>3, <1>4, PlainTyped DEF Route
<1>6. TypedTasks' /\ GoesOn(s, id, t)
  BY <1>1, <1>2, <1>4, <1>5, BecomeGoesOn
<1>7. \A x \in Items : Carries(t, x) <=> Carries(u, x)
  BY <1>3, <1>4 DEF Carries
<1>8. ~Returns(u) /\ ~Reloads(u) /\ Silent(t) /\ Silent(u)
  BY <1>3, <1>4 DEF Returns, Reloads, Brings, Silent, OnWay
<1>9. t.bag.edition <= bag.edition
  BY <1>4 DEF CInv, Caught, Older
<1> QED BY <1>2, <1>6, <1>7, <1>8, <1>9, OnlyTaskKeeps

LEMMA RestorePickupKeeps ==
  ASSUME CInv, NEW s \in Sessions, NEW id \in Ids, RestorePickup(s, id)
  PROVE  Kept(s, id)
<1> DEFINE u == tasks[s][id]
           t == IF Playing(s) THEN Answering(u, NoBag) ELSE NoTask
<1>1. TypedTasks /\ TypedWorld /\ {"pickup"} \in SUBSET Kinds
  BY DEF CInv, Typed, Kinds
<1>2. At(s, id, {"pickup"}, "restore") /\ Untouched /\ Fail(s, id)
  BY DEF RestorePickup
<1>3. u \in Task /\ u.kind = "pickup" /\ u.step = "restore" /\ u.item \in Items
  BY <1>1, <1>2, TaskIs DEF At, Route, QuestKinds
<1>4. UNCHANGED <<owner, gear, bag, quest, gift, author, told, unaware>>
  BY DEF RestorePickup, storeVars
<1>5. TypedTasks' /\ GoesOn(s, id, t)
  BY <1>1, <1>2, <1>3, FailGoesOn
<1>6. t = NoTask \/ (t.step = "answered" /\ t.bag = NoBag)
  BY <1>3, AnsweringIs
<1> HIDE DEF t
<1>7. /\ due' \in [Items -> Int]
      /\ \A x \in Items : due'[x] - due[x] = IF x = u.item /\ ~Authenticated(s) THEN -1 ELSE 0
  <2>1. CASE Authenticated(s)
    <3>1. UNCHANGED due
      BY <2>1 DEF RestorePickup
    <3> QED BY <1>1, <2>1, <3>1, NothingOwed
  <2>2. CASE ~Authenticated(s)
    <3>1. Owe(u.item, -1)
      BY <2>2 DEF RestorePickup
    <3> QED BY <1>1, <1>3, <2>2, <3>1, OweIs
  <2> QED BY <2>1, <2>2
<1>8. /\ ground' \in [Items -> Nat]
      /\ \A x \in Items : ground'[x] - ground[x] = IF x = u.item /\ Authenticated(s) THEN 1 ELSE 0
  <2>1. CASE Authenticated(s)
    <3>1. ground' = [ground EXCEPT ![u.item] = ground[u.item] + 1] /\ ground \in [Items -> Nat]
      BY <1>1, <2>1 DEF RestorePickup, MayRestore, TypedWorld
    <3> QED BY <1>3, <2>1, <3>1
  <2>2. CASE ~Authenticated(s)
    <3>1. UNCHANGED ground
      BY <2>2 DEF RestorePickup, MayRestore
    <3> QED BY <1>1, <2>2, <3>1, SameGround
  <2> QED BY <2>1, <2>2
<1>9. ASSUME NEW x \in Items
      PROVE  due'[x] - due[x] = ground'[x] - ground[x] + Settle(s, id, x, t)
  <2>1. ~Carries(t, x) /\ (Carries(u, x) <=> x = u.item)
    BY <1>3, <1>6 DEF Carries, NoTask
  <2>2. Settle(s, id, x, t) = IF x = u.item THEN -1 ELSE 0
    BY <2>1 DEF Settle, One
  <2> QED BY <1>7, <1>8, <2>2
<1>10. ~Returns(u) /\ ~Reloads(u) /\ Silent(u) /\ Silent(t)
  BY <1>3, <1>6, NoTaskIs DEF Returns, Reloads, Brings, Silent, OnWay
<1>11. t # NoTask => t.bag.edition <= bag.edition
  BY <1>1, <1>6 DEF TypedWorld, Bag, NoBag
<1>12. quest' \in Progress /\ author' \in {author, NoSession} /\ told' \in {told, NoSession}
  BY <1>1, <1>4 DEF TypedWorld
<1> QED BY <1>2, <1>4, <1>5, <1>7, <1>8, <1>9, <1>10, <1>11, <1>12, NoChangeKeeps

LEMMA UseConsumableKeeps ==
  ASSUME CInv, NEW s \in Sessions, NEW id \in Ids, UseConsumable(s, id)
  PROVE  Kept(s, id)
<1> DEFINE u == tasks[s][id]
<1>1. TypedTasks /\ TypedWorld /\ {"consume"} \in SUBSET Kinds
  BY DEF CInv, Typed, Kinds, MenuKinds
<1>2. At(s, id, {"consume"}, "apply") /\ Untouched /\ UNCHANGED <<worldVars, storeVars, author, told, unaware>>
  BY DEF UseConsumable
<1>3. /\ u \in Task /\ u.kind = "consume" /\ u.step = "apply" /\ u.item \in Items
      /\ u.item \in Consumables /\ u.slot \in Slots /\ u.bag \in Bag
  BY <1>1, <1>2, TaskIs, ItemsAssumption DEF At, Route, QuestKinds
<1>4. UNCHANGED <<owner, gear, ground, bag, quest, gift, author, told, unaware>>
  BY <1>2 DEF worldVars, storeVars
<1>5. quest' \in Progress /\ author' \in {author, NoSession} /\ told' \in {told, NoSession}
  BY <1>1, <1>4 DEF TypedWorld
<1>6. ground' \in [Items -> Nat] /\ \A x \in Items : ground'[x] - ground[x] = 0
  BY <1>1, <1>4, SameGround
<1>7. u # NoTask /\ u.bag.edition <= bag.edition
  BY <1>3 DEF NoTask, CInv, Caught, Older
<1>8. \A x \in Items : Carries(u, x) <=> x = u.item
  BY <1>3, <1>7 DEF Carries
<1>9. CASE Send(s, id, Answering(u, u.bag)) /\ Owe(u.item, -1)
  <2> DEFINE t == IF Playing(s) THEN Answering(u, u.bag) ELSE NoTask
  <2>1. u.bag \in Bag \cup {NoBag}
    BY <1>3
  <2>2. TypedTasks' /\ GoesOn(s, id, t)
    BY <1>1, <1>3, <1>9, <2>1, AnswerGoesOn
  <2>3. \/ t = NoTask /\ ~Playing(s)
        \/ t.step = "answered" /\ t.bag = u.bag /\ t.kind = u.kind
    BY <1>3, AnsweringIs
  <2> HIDE DEF t
  <2>4. due' \in [Items -> Int] /\ \A x \in Items : due'[x] - due[x] = IF x = u.item THEN -1 ELSE 0
    BY <1>1, <1>3, <1>9, OweIs
  <2>5. ASSUME NEW x \in Items
        PROVE  due'[x] - due[x] = ground'[x] - ground[x] + Settle(s, id, x, t)
    <3>1. ~Carries(t, x)
      BY <2>3 DEF Carries
    <3>2. Settle(s, id, x, t) = IF x = u.item THEN -1 ELSE 0
      BY <1>8, <3>1 DEF Settle, One
    <3> QED BY <1>6, <2>4, <3>2
  <2>6. /\ Playing(s) /\ Returns(u) => Returns(t)
        /\ ~Reloads(u) /\ Silent(u) /\ Silent(t)
    BY <1>3, <2>3, NoTaskIs DEF Returns, Reloads, Brings, Silent, OnWay
  <2>7. t # NoTask => t.bag.edition <= bag.edition
    BY <1>7, <2>3
  <2> QED BY <1>2, <1>4, <1>5, <1>6, <2>2, <2>4, <2>5, <2>6, <2>7, NoChangeKeeps
<1>10. CASE Become(s, id, AtStep(u, "refund")) /\ UNCHANGED due
  <2> DEFINE t == AtStep(u, "refund")
  <2>1. /\ t \in Task /\ t.kind = u.kind /\ t.step = "refund" /\ t.item = u.item /\ t.slot = u.slot
        /\ t.bag = u.bag /\ t # NoTask /\ t.draft = NoDraft
    BY <1>3, AtStepIs, TasksDiffer DEF Steps
  <2>2. Become(s, id, t)
    BY <1>10
  <2> HIDE DEF t
  <2>3. t \in Commands
    BY <1>3, <2>1, PlainTyped DEF Route
  <2>4. TypedTasks' /\ GoesOn(s, id, t)
    BY <1>1, <2>1, <2>2, <2>3, BecomeGoesOn
  <2>5. due' \in [Items -> Int] /\ \A x \in Items : due'[x] - due[x] = 0
    BY <1>1, <1>10, NothingOwed
  <2>6. ASSUME NEW x \in Items
        PROVE  due'[x] - due[x] = ground'[x] - ground[x] + Settle(s, id, x, t)
    <3>1. Carries(t, x) <=> Carries(u, x)
      BY <1>3, <1>7, <2>1 DEF Carries
    <3>2. Settle(s, id, x, t) = 0
      BY <3>1 DEF Settle, One
    <3> QED BY <1>6, <2>5, <3>2
  <2>7. /\ Returns(u) => Returns(t)
        /\ ~Reloads(u) /\ Silent(u) /\ Silent(t)
        /\ t.bag.edition <= bag.edition
    BY <1>3, <1>7, <2>1 DEF Returns, Reloads, Brings, Silent, OnWay
  <2> QED BY <1>2, <1>4, <1>5, <1>6, <2>4, <2>5, <2>6, <2>7, NoChangeKeeps
<1> QED BY <1>9, <1>10 DEF UseConsumable

LEMMA RefundFailsKeeps ==
  ASSUME CInv, NEW s \in Sessions, NEW id \in Ids, RefundFails(s, id)
  PROVE  Kept(s, id)
<1> DEFINE u == tasks[s][id]
           t == IF Playing(s) THEN Answering(u, u.bag) ELSE NoTask
<1>1. TypedTasks /\ TypedWorld /\ {"consume"} \in SUBSET Kinds
  BY DEF CInv, Typed, Kinds, MenuKinds
<1>2. /\ At(s, id, {"consume"}, "refund") /\ Untouched
      /\ UNCHANGED <<worldVars, storeVars, author, told, unaware>>
      /\ Send(s, id, Answering(u, u.bag)) /\ Owe(u.item, -1)
  BY DEF RefundFails, Unreturned
<1>3. /\ u \in Task /\ u.kind = "consume" /\ u.step = "refund" /\ u.item \in Items /\ u.bag \in Bag
      /\ u # NoTask
  <2>1. u \in Task /\ Route(u) /\ u.kind = "consume" /\ u.step = "refund"
    BY <1>1, <1>2, AtIs
  <2> QED BY <2>1, ItemsAssumption, TasksDiffer DEF Route, QuestKinds
<1>4. TypedTasks' /\ GoesOn(s, id, t)
  BY <1>1, <1>2, <1>3, AnswerGoesOn
<1>5. \/ t = NoTask /\ ~Playing(s)
      \/ t.step = "answered" /\ t.bag = u.bag /\ t.kind = u.kind
  BY <1>3, AnsweringIs
<1> HIDE DEF t
<1>6. due' \in [Items -> Int] /\ \A x \in Items : due'[x] - due[x] = IF x = u.item THEN -1 ELSE 0
  BY <1>1, <1>2, <1>3, OweIs
<1>7. ground' \in [Items -> Nat] /\ \A x \in Items : ground'[x] - ground[x] = 0
  BY <1>1, <1>2, SameGround DEF worldVars
<1>8. ASSUME NEW x \in Items
      PROVE  due'[x] - due[x] = ground'[x] - ground[x] + Settle(s, id, x, t)
  <2>1. ~Carries(t, x) /\ (Carries(u, x) <=> x = u.item)
    BY <1>3, <1>5 DEF Carries
  <2>2. Settle(s, id, x, t) = IF x = u.item THEN -1 ELSE 0
    BY <2>1 DEF Settle, One
  <2> QED BY <1>6, <1>7, <2>2
<1>9. /\ Playing(s) /\ Returns(u) => Returns(t)
      /\ ~Reloads(u) /\ Silent(u) /\ Silent(t)
  BY <1>3, <1>5, NoTaskIs DEF Returns, Reloads, Brings, Silent, OnWay
<1>10. t # NoTask => t.bag.edition <= bag.edition
  BY <1>3, <1>5 DEF CInv, Caught, Older
<1>11. quest' \in Progress /\ UNCHANGED <<bag, owner, gear, gift, unaware, author, told>>
  BY <1>1, <1>2 DEF worldVars, storeVars, TypedWorld
<1> QED BY <1>2, <1>4, <1>6, <1>7, <1>8, <1>9, <1>10, <1>11, NoChangeKeeps

(* A transaction writes what it has not committed: u is the command, i the *)
(* slot, and b the inventory it reads back.                                 *)
WritesAt(u, i) ==
  \/ u.kind \in {"pickup", "buy", "complete"} /\ u.step = "call" /\ i \in Slots
  \/ u.kind = "sell" /\ u.step = "call" /\ i = u.slot
  \/ u.kind = "consume" /\ u.step = "write" /\ i \in {0, u.slot}
  \/ u.kind = "consume" /\ u.step = "refund" /\ i \in Slots
  \/ u.kind = "equip" /\ u.step = "write" /\ i = u.slot

Fits(u, i, b) ==
  /\ b.edition = bag.edition + 1
  /\ Adds(u) => bag.stacks[i] = NoItem
  /\ u.kind \in {"sell", "complete"} => bag.stacks[i] = u.item
  /\ u.kind = "sell" => bag.worn # i
  /\ u.kind = "equip" => bag.stacks[i] # NoItem /\ b.stacks = bag.stacks /\ b.worn = i
  /\ u.kind = "consume" /\ u.step = "write" =>
       i = IF bag.stacks[u.slot] = NoItem THEN 0 ELSE u.slot

Writing(s, id, i) ==
  /\ WritesAt(tasks[s][id], i)
  /\ \E b \in Bag : Write(s, id, i, b) /\ Fits(tasks[s][id], i, b)
  /\ Untouched
  /\ UNCHANGED <<worldVars, storeVars, historyVars>>

Writers(s, id) ==
  \/ StorePickup(s, id) \/ ConsumeItem(s, id) \/ Equip(s, id) \/ Refund(s, id)
  \/ BuyItem(s, id) \/ SellItem(s, id) \/ Complete(s, id)

LEMMA WritersAre ==
  ASSUME CInv, NEW s \in Sessions, NEW id \in Ids, Writers(s, id)
  PROVE  \E i \in Slots \cup {0} : Writing(s, id, i)
<1> DEFINE u == tasks[s][id]
<1>1. TypedTasks /\ TypedWorld /\ bag \in Bag
  BY DEF CInv, Typed, TypedWorld
<1>2. CASE StorePickup(s, id) \/ Refund(s, id) \/ BuyItem(s, id)
  <2> DEFINE i == NextSlot(bag)
             b == Added(bag, u.item)
  <2>1. /\ HasRoom(bag) /\ Write(s, id, i, b)
        /\ Untouched /\ UNCHANGED <<worldVars, storeVars, historyVars>>
        /\ \/ u.kind \in {"pickup", "buy"} /\ u.step = "call"
           \/ u.kind = "consume" /\ u.step = "refund"
    BY <1>2 DEF StorePickup, Refund, BuyItem, At
  <2>2. u \in Task /\ Route(u)
    BY <1>1, <2>1, TaskIs
  <2>3. u.item \in Items
    BY <2>1, <2>2, ItemsAssumption DEF Route, QuestKinds
  <2>4. b \in Bag /\ i \in Slots /\ bag.stacks[i] = NoItem
    BY <1>1, <2>1, <2>3, AddedIs, NextSlotFree
  <2>5. b.edition = bag.edition + 1
    BY DEF Added, WithStack
  <2> HIDE DEF i, b
  <2>6. WritesAt(u, i) /\ Fits(u, i, b)
    BY <2>1, <2>4, <2>5 DEF WritesAt, Fits
  <2> QED BY <2>1, <2>4, <2>6 DEF Writing
<1>3. CASE ConsumeItem(s, id)
  <2> DEFINE i == IF bag.stacks[u.slot] = NoItem THEN 0 ELSE u.slot
             b == Without(bag, i)
  <2>1. /\ Write(s, id, i, b) /\ u.kind = "consume" /\ u.step = "write"
        /\ Untouched /\ UNCHANGED <<worldVars, storeVars, historyVars>>
    BY <1>3 DEF ConsumeItem, At
  <2>2. u.slot \in Slots
    BY <1>1, <2>1, TaskIs DEF Route, QuestKinds
  <2>3. i \in Slots \cup {0}
    BY <2>2
  <2>4. b \in Bag
    BY <1>1, <2>3, WithoutIs
  <2>5. b.edition = bag.edition + 1
    BY DEF Without
  <2> HIDE DEF b
  <2>6. WritesAt(u, i) /\ Fits(u, i, b)
    BY <2>1, <2>5 DEF WritesAt, Fits, Adds
  <2> QED BY <2>1, <2>3, <2>4, <2>6 DEF Writing
<1>4. CASE Equip(s, id)
  <2> DEFINE b == Wearing(bag, u.slot)
  <2>1. /\ Write(s, id, u.slot, b) /\ u.kind = "equip" /\ u.step = "write"
        /\ bag.stacks[u.slot] # NoItem
        /\ Untouched /\ UNCHANGED <<worldVars, storeVars, historyVars>>
    BY <1>4 DEF Equip, At
  <2>2. u.slot \in Slots
    BY <1>1, <2>1, TaskIs DEF Route, QuestKinds
  <2>3. b \in Bag
    BY <1>1, <2>2, WearingIs
  <2>4. b.edition = bag.edition + 1 /\ b.stacks = bag.stacks /\ b.worn = u.slot
    BY DEF Wearing
  <2> HIDE DEF b
  <2>5. WritesAt(u, u.slot) /\ Fits(u, u.slot, b)
    BY <2>1, <2>4 DEF WritesAt, Fits, Adds
  <2> QED BY <2>1, <2>2, <2>3, <2>5 DEF Writing
<1>5. CASE SellItem(s, id)
  <2> DEFINE b == Without(bag, u.slot)
  <2>1. /\ Write(s, id, u.slot, b) /\ u.kind = "sell" /\ u.step = "call"
        /\ bag.stacks[u.slot] = u.item /\ bag.worn # u.slot
        /\ Untouched /\ UNCHANGED <<worldVars, storeVars, historyVars>>
    BY <1>5 DEF SellItem, At
  <2>2. u.slot \in Slots
    BY <1>1, <2>1, TaskIs DEF Route, QuestKinds
  <2>3. b \in Bag
    BY <1>1, <2>2, WithoutIs
  <2>4. b.edition = bag.edition + 1
    BY DEF Without
  <2> HIDE DEF b
  <2>5. WritesAt(u, u.slot) /\ Fits(u, u.slot, b)
    BY <2>1, <2>4 DEF WritesAt, Fits, Adds
  <2> QED BY <2>1, <2>2, <2>3, <2>5 DEF Writing
<1>6. CASE Complete(s, id)
  <2> DEFINE H == Holding(bag, u.item)
             i == Min(H)
             b == Without(bag, i)
  <2>1. /\ H # {} /\ Write(s, id, i, b) /\ u.kind = "complete" /\ u.step = "call"
        /\ Untouched /\ UNCHANGED <<worldVars, storeVars, historyVars>>
    BY <1>6 DEF Complete, At
  <2>2. i \in H
    <3>1. H \subseteq Nat
      BY Bounds DEF Holding, Slots
    <3> QED BY <2>1, <3>1, MinIs
  <2>3. i \in Slots /\ bag.stacks[i] = u.item
    BY <2>2 DEF Holding
  <2> HIDE DEF i
  <2>4. b \in Bag
    BY <1>1, <2>3, WithoutIs
  <2>5. b.edition = bag.edition + 1
    BY DEF Without
  <2> HIDE DEF b
  <2>6. WritesAt(u, i) /\ Fits(u, i, b)
    BY <2>1, <2>3, <2>5 DEF WritesAt, Fits, Adds
  <2> QED BY <2>1, <2>3, <2>4, <2>6 DEF Writing
<1> QED BY <1>2, <1>3, <1>4, <1>5, <1>6 DEF Writers

(* Writing changes the draft of the command.                                *)
LEMMA WritingIs ==
  ASSUME TypedTasks, NEW s \in Sessions, NEW id \in Ids, NEW i \in Slots \cup {0},
         Writing(s, id, i)
  PROVE  \E b \in Bag, t \in Commands :
           /\ t \in Task /\ t.kind = tasks[s][id].kind /\ t.step = tasks[s][id].step
           /\ t.item = tasks[s][id].item /\ t.slot = tasks[s][id].slot
           /\ t.bag = tasks[s][id].bag /\ t.draft = [slot |-> i, bag |-> b]
           /\ t = [tasks[s][id] EXCEPT !.draft = [slot |-> i, bag |-> b]]
           /\ Become(s, id, t) /\ Fits(tasks[s][id], i, b) /\ Write(s, id, i, b)
           /\ tasks[s][id] # NoTask
<1> DEFINE u == tasks[s][id]
<1>1. u.kind # "none"
  BY DEF Writing, WritesAt
<1>2. u \in Task /\ Route(u) /\ Drafted(u) /\ u # NoTask
  BY <1>1, TaskIs
<1>3. PICK b \in Bag : Write(s, id, i, b) /\ Fits(u, i, b)
  BY DEF Writing
<1> DEFINE t == [u EXCEPT !.draft = [slot |-> i, bag |-> b]]
<1>4. /\ t \in Task /\ t.kind = u.kind /\ t.step = u.step /\ t.item = u.item /\ t.slot = u.slot
      /\ t.bag = u.bag /\ t.draft = [slot |-> i, bag |-> b] /\ Become(s, id, t)
      /\ t = [u EXCEPT !.draft = [slot |-> i, bag |-> b]]
  BY <1>2, <1>3 DEF Task, Draft, Write
<1> HIDE DEF t
<1>5. t \in Commands
  <2>1. Route(t)
    BY <1>2, <1>4 DEF Route
  <2>2. Drafted(t)
    BY <1>4 DEF Drafted, Writing, WritesAt
  <2> QED BY <1>4, <2>1, <2>2 DEF Commands
<1> QED BY <1>2, <1>3, <1>4, <1>5

LEMMA WritersKeep ==
  ASSUME CInv, NEW s \in Sessions, NEW id \in Ids, Writers(s, id)
  PROVE  Kept(s, id)
<1> DEFINE u == tasks[s][id]
<1>1. TypedTasks
  BY DEF CInv, Typed
<1>2. PICK i \in Slots \cup {0} : Writing(s, id, i)
  BY WritersAre
<1>3. PICK b \in Bag, t \in Commands :
        /\ t \in Task /\ t.kind = u.kind /\ t.step = u.step
        /\ t.item = u.item /\ t.slot = u.slot /\ t.bag = u.bag
        /\ Become(s, id, t) /\ u # NoTask
  BY <1>1, <1>2, WritingIs, Zenon
<1>4. TypedTasks' /\ GoesOn(s, id, t)
  BY <1>1, <1>3, BecomeGoesOn
<1>5. \A x \in Items : Carries(t, x) <=> Carries(u, x)
  BY <1>3, TasksDiffer DEF Carries
<1>6. Silent(t) /\ Silent(u) /\ (Returns(u) => Returns(t)) /\ (Reloads(u) => Reloads(t))
  <2>1. u.step \in {"call", "write", "refund"} /\ u.kind # "reload"
    BY <1>2 DEF Writing, WritesAt
  <2> QED BY <1>3, <2>1 DEF Returns, Reloads, Brings, Silent, OnWay
<1>7. t.bag.edition <= bag.edition
  BY <1>3 DEF CInv, Caught, Older
<1> QED BY <1>2, <1>4, <1>5, <1>6, <1>7, OnlyTaskKeeps DEF Writing

LEMMA AcceptKeeps ==
  ASSUME CInv, NEW s \in Sessions, NEW id \in Ids, Accept(s, id)
  PROVE  Kept(s, id)
<1> DEFINE u == tasks[s][id]
<1>1. TypedTasks /\ TypedWorld /\ {"accept"} \in SUBSET Kinds
  BY DEF CInv, Typed, Kinds, QuestKinds
<1>2. /\ At(s, id, {"accept"}, "call") /\ Untouched /\ UNCHANGED <<worldVars, bag, gift, historyVars>>
      /\ quest' = IF quest = "untracked" THEN "active" ELSE quest
      /\ Send(s, id, [AtStep(u, "answered") EXCEPT !.quest = quest'])
  BY DEF Accept
<1>3. u \in Task /\ u.kind = "accept" /\ u.step = "call" /\ u.item = Objective
  BY <1>1, <1>2, TaskIs DEF At, Route, QuestKinds
<1>4. Kept(s, id)
  <2> DEFINE answer == [AtStep(u, "answered") EXCEPT !.quest = quest']
             t == IF Playing(s) THEN answer ELSE NoTask
  <2>1. quest' \in Progress
    BY <1>1, <1>2 DEF TypedWorld, Progress
  <2>2. /\ answer \in Task /\ answer.kind = "accept" /\ answer.step = "answered"
        /\ answer.item = u.item /\ answer.bag = u.bag /\ answer.draft = NoDraft
    <3>1. /\ AtStep(u, "answered") \in Task /\ AtStep(u, "answered").kind = u.kind
          /\ AtStep(u, "answered").step = "answered" /\ AtStep(u, "answered").item = u.item
          /\ AtStep(u, "answered").bag = u.bag /\ AtStep(u, "answered").draft = NoDraft
      BY <1>3, AtStepIs DEF Steps, Messages
    <3> QED BY <1>3, <2>1, <3>1 DEF Task
  <2>3. Send(s, id, answer)
    BY <1>2
  <2> HIDE DEF answer
  <2>4. answer \in Commands
    BY <1>3, <2>2, PlainTyped DEF Route, QuestKinds
  <2>5. TypedTasks' /\ GoesOn(s, id, t)
    BY <1>1, <1>3, <2>2, <2>3, <2>4, SendGoesOn
  <2>6. t = NoTask \/ (t.kind = "accept" /\ t.step = "answered" /\ t.bag = u.bag)
    BY <2>2
  <2> HIDE DEF t
  <2>7. ASSUME NEW x \in Items
        PROVE  due'[x] - due[x] = ground'[x] - ground[x] + Settle(s, id, x, t)
    <3>1. ~Carries(t, x) /\ ~Carries(u, x)
      BY <1>3, <2>6 DEF Carries
    <3>2. Settle(s, id, x, t) = 0
      BY <3>1 DEF Settle, One
    <3>3. due'[x] - due[x] = 0 /\ ground'[x] - ground[x] = 0
      BY <1>1, <1>2 DEF TypedWorld, worldVars, historyVars
    <3> QED BY <3>2, <3>3
  <2>8. /\ ~Returns(u) /\ ~Reloads(u)
        /\ Silent(u) /\ Silent(t)
    BY <1>3, <2>6, NoTaskIs DEF Returns, Reloads, Brings, Silent, OnWay
  <2>9. t # NoTask => t.bag.edition <= bag.edition
    <3>1. u # NoTask
      BY <1>3 DEF NoTask
    <3> QED BY <2>6, <3>1 DEF CInv, Caught, Older
  <2>10. /\ UNCHANGED <<bag, owner, gear, gift, unaware, author, told>>
         /\ due' \in [Items -> Int] /\ ground' \in [Items -> Nat]
    BY <1>1, <1>2 DEF TypedWorld, worldVars, historyVars
  <2> QED BY <1>2, <2>1, <2>5, <2>7, <2>8, <2>9, <2>10, NoChangeKeeps
<1> QED BY <1>4

LEMMA CallFailsKeeps ==
  ASSUME CInv, NEW s \in Sessions, NEW id \in Ids, CallFails(s, id)
  PROVE  Kept(s, id)
<1> DEFINE u == tasks[s][id]
<1>1. /\ u.kind \notin {"pickup", "reload"} /\ u.step \in {"call", "write"} /\ Fail(s, id)
      /\ Untouched /\ UNCHANGED <<worldVars, storeVars, historyVars>>
  BY DEF CallFails
<1>2. u \in Commands
  BY DEF CInv, Typed, TypedTasks
<1>3. u.kind # "none"
  BY <1>1, <1>2, NoTaskIs, TasksDiffer DEF Commands
<1> QED BY <1>1, <1>3, FailureKeeps

LEMMA FindStackKeeps ==
  ASSUME CInv, NEW s \in Sessions, NEW id \in Ids, FindStack(s, id)
  PROVE  Kept(s, id)
<1> DEFINE u == tasks[s][id]
           t == AtStep(u, "write")
<1>1. TypedTasks
  BY DEF CInv, Typed
<1>2. /\ u.kind \in {"consume", "equip"} /\ u.step = "call" /\ Become(s, id, t)
      /\ Untouched /\ UNCHANGED <<worldVars, storeVars, historyVars>>
  BY DEF FindStack
<1>3. u \in Task /\ Route(u) /\ u # NoTask
  BY <1>1, <1>2, TaskIs
<1>4. /\ t \in Task /\ t.kind = u.kind /\ t.step = "write" /\ t.item = u.item /\ t.slot = u.slot
      /\ t.bag = u.bag /\ t.draft = NoDraft
  BY <1>3, AtStepIs DEF Steps
<1> HIDE DEF t
<1>5. t \in Commands
  BY <1>2, <1>3, <1>4, PlainTyped DEF Route, QuestKinds
<1>6. TypedTasks' /\ GoesOn(s, id, t)
  BY <1>1, <1>2, <1>4, <1>5, BecomeGoesOn
<1>7. \A x \in Items : Carries(t, x) <=> Carries(u, x)
  BY <1>2, <1>4 DEF Carries
<1>8. ~Returns(u) /\ ~Reloads(u) /\ Silent(t) /\ Silent(u)
  BY <1>2, <1>4 DEF Returns, Reloads, Brings, Silent, OnWay
<1>9. t.bag.edition <= bag.edition
  BY <1>3, <1>4 DEF CInv, Caught, Older
<1> QED BY <1>2, <1>6, <1>7, <1>8, <1>9, OnlyTaskKeeps

LEMMA StoredKeeps ==
  ASSUME CInv, NEW s \in Sessions, NEW id \in Ids, Stored(s, id)
  PROVE  Kept(s, id)
<1> DEFINE u == tasks[s][id]
           i == u.draft.slot
           t == IF Playing(s) THEN Answering(u, u.draft.bag) ELSE NoTask
<1>1. TypedTasks /\ TypedWorld /\ bag \in Bag
  BY DEF CInv, Typed, TypedWorld
<1>2. /\ Commit(s, id) /\ Adds(u) /\ Send(s, id, Answering(u, u.draft.bag))
      /\ UNCHANGED <<quest, unaware>>
      /\ u.kind = "buy" => Owe(u.item, 1)
      /\ u.kind # "buy" => UNCHANGED due
  BY DEF Stored
<1>3. /\ u \in Task /\ Route(u) /\ Drafted(u) /\ Open(u) /\ Sound(bag, u) /\ u.draft.bag \in Bag
      /\ bag' = Written(u)
  BY <1>2, CommitIs
<1>4. u.kind # "equip" /\ u.kind # "none" /\ u # NoTask
  BY <1>2, <1>3, TasksDiffer DEF Adds, Route
<1>5. i \in Slots /\ u.item \in Items /\ bag.stacks[i] = NoItem
  BY <1>2, <1>3, ItemsAssumption DEF Adds, Drafted, Route, QuestKinds, Sound
<1>6. bag' = WithStack(bag, i, u.item)
  BY <1>2, <1>3, <1>4 DEF Written
<1>7. unaware' = Surprised(u) /\ quest' \in Progress
  <2>1. ~Rewears(u)
    BY <1>2, <1>4 DEF Rewears
  <2> QED BY <1>1, <1>2, <2>1 DEF Surprised, TypedWorld
<1>8. TypedTasks' /\ GoesOn(s, id, t)
  BY <1>1, <1>2, <1>3, <1>4, AnswerGoesOn
<1>9. \/ t.step = "answered" /\ t.bag = u.draft.bag
      \/ t = NoTask /\ ~Playing(s)
  BY <1>3, AnsweringIs
<1> HIDE DEF t
<1>10. /\ due' \in [Items -> Int]
       /\ \A x \in Items : due'[x] - due[x] = IF u.kind = "buy" /\ x = u.item THEN 1 ELSE 0
  <2>1. CASE u.kind = "buy"
    BY <1>1, <1>2, <1>5, <2>1, OweIs
  <2>2. CASE u.kind # "buy"
    BY <1>1, <1>2, <2>2, NothingOwed
  <2> QED BY <2>1, <2>2
<1>11. ASSUME NEW x \in Items
       PROVE  due'[x] - due[x] =
                (Cardinality(Holding(bag', x)) - Cardinality(Holding(bag, x))) + Settle(s, id, x, t)
  <2>1. /\ Cardinality(Holding(bag, x)) \in Nat
        /\ Cardinality(Holding(bag', x))
             = Cardinality(Holding(bag, x)) - One(bag.stacks[i] = x) + One(u.item = x)
    BY <1>1, <1>5, <1>6, HoldingChanges
  <2>2. bag.stacks[i] # x /\ ~Carries(t, x)
    BY <1>5, <1>9, ItemsAssumption DEF Carries
  <2>3. Carries(u, x) <=> u.kind # "buy" /\ x = u.item
    BY <1>2, <1>3, <1>4 DEF Carries, Adds, Drafted, Route
  <2>4. Settle(s, id, x, t) = IF u.kind # "buy" /\ x = u.item THEN -1 ELSE 0
    BY <2>2, <2>3 DEF Settle, One
  <2>5. Cardinality(Holding(bag', x)) - Cardinality(Holding(bag, x)) = IF x = u.item THEN 1 ELSE 0
    BY <2>1, <2>2 DEF One
  <2> QED BY <1>10, <2>4, <2>5
<1> QED BY <1>2, <1>4, <1>7, <1>8, <1>9, <1>10, <1>11, CommitKeeps

LEMMA RemovedKeeps ==
  ASSUME CInv, NEW s \in Sessions, NEW id \in Ids, Removed(s, id)
  PROVE  Kept(s, id)
<1> DEFINE u == tasks[s][id]
           i == u.draft.slot
           answer == [Answering(u, u.draft.bag) EXCEPT !.quest =
                        IF u.kind = "complete" THEN "completed" ELSE @]
           t == IF Playing(s) THEN answer ELSE NoTask
<1>1. TypedTasks /\ TypedWorld /\ bag \in Bag
  BY DEF CInv, Typed, TypedWorld
<1>2. /\ Commit(s, id) /\ u.kind \in {"sell", "complete"} /\ Send(s, id, answer)
      /\ Owe(u.item, -1) /\ unaware' = Surprised(u)
      /\ quest' = IF u.kind = "complete" THEN "completed" ELSE quest
  BY DEF Removed
<1>3. /\ u \in Task /\ Route(u) /\ Drafted(u) /\ Open(u) /\ Sound(bag, u) /\ u.draft.bag \in Bag
      /\ i \in Slots \cup {0} /\ bag' = Written(u)
  BY <1>2, CommitIs, SMTT(30)
<1>4. u.step = "call" /\ u.item \in Items /\ i \in Slots /\ bag.stacks[i] = u.item
  BY <1>2, <1>3, ItemsAssumption DEF Drafted, Route, QuestKinds, Sound
<1>5. bag' = Without(bag, i) /\ ~Adds(u)
  BY <1>2, <1>3, <1>4 DEF Written, Adds
<1>6. quest' \in Progress
  BY <1>1, <1>2 DEF TypedWorld, Progress
<1>7. /\ answer \in Task /\ answer.kind = u.kind /\ answer.step = "answered"
      /\ answer.item = u.item /\ answer.slot = u.slot /\ answer.bag = u.draft.bag
      /\ answer.draft = NoDraft
  BY <1>3, NoDraftIs DEF Answering, Task, Steps, Messages, Progress
<1> HIDE DEF answer
<1>8. answer \in Commands
  BY <1>2, <1>3, <1>7, PlainTyped DEF Route, QuestKinds
<1>9. TypedTasks' /\ GoesOn(s, id, t)
  BY <1>1, <1>2, <1>7, <1>8, SendGoesOn
<1>10. \/ t.step = "answered" /\ t.bag = u.draft.bag
       \/ t = NoTask /\ ~Playing(s)
  BY <1>7
<1> HIDE DEF t
<1>11. due' \in [Items -> Int] /\ \A x \in Items : due'[x] - due[x] = IF x = u.item THEN -1 ELSE 0
  BY <1>1, <1>2, <1>4, OweIs
<1>12. ASSUME NEW x \in Items
       PROVE  due'[x] - due[x] =
                (Cardinality(Holding(bag', x)) - Cardinality(Holding(bag, x))) + Settle(s, id, x, t)
  <2>1. /\ Cardinality(Holding(bag, x)) \in Nat
        /\ Cardinality(Holding(bag', x)) = Cardinality(Holding(bag, x)) - One(x = u.item)
    BY <1>1, <1>3, <1>4, <1>5, HoldingLess DEF One
  <2>2. ~Carries(t, x) /\ ~Carries(u, x)
    BY <1>2, <1>10 DEF Carries
  <2>3. Settle(s, id, x, t) = 0
    BY <2>2 DEF Settle, One
  <2> QED BY <1>11, <2>1, <2>3 DEF One
<1>13. u.kind # "equip"
  BY <1>2
<1> QED BY <1>2, <1>6, <1>9, <1>10, <1>11, <1>12, <1>13, CommitKeeps

LEMMA ConsumedKeeps ==
  ASSUME CInv, NEW s \in Sessions, NEW id \in Ids, Consumed(s, id)
  PROVE  Kept(s, id)
<1> DEFINE u == tasks[s][id]
           i == u.draft.slot
           t == [AtStep(u, "apply") EXCEPT !.bag = u.draft.bag]
           Taken(x) == i \in Slots /\ bag.stacks[i] = x
<1>1. TypedTasks /\ TypedWorld /\ bag \in Bag /\ {"consume"} \in SUBSET Kinds
  BY DEF CInv, Typed, TypedWorld, Kinds, MenuKinds
<1>2. /\ Commit(s, id) /\ At(s, id, {"consume"}, "write") /\ Become(s, id, t)
      /\ unaware' = Surprised(u) /\ UNCHANGED quest
  BY DEF Consumed
<1>3. /\ u \in Task /\ Route(u) /\ Drafted(u) /\ Open(u) /\ u.draft.bag \in Bag
      /\ i \in Slots \cup {0} /\ bag' = Written(u) /\ u.kind = "consume" /\ u.step = "write"
  BY <1>1, <1>2, AtIs, CommitIs
<1>4. u.item \in Items /\ u.item \in Consumables /\ u.slot \in Slots
  BY <1>3, ItemsAssumption DEF Route, QuestKinds
<1>5. bag' = Without(bag, i)
  BY <1>3 DEF Written, Adds
<1>6. quest' \in Progress
  BY <1>1, <1>2 DEF TypedWorld
<1>7. /\ t \in Task /\ t.kind = u.kind /\ t.step = "apply" /\ t.item = u.item /\ t.slot = u.slot
      /\ t.bag = u.draft.bag /\ t.draft = NoDraft /\ t # NoTask
  <2>1. /\ AtStep(u, "apply") \in Task /\ AtStep(u, "apply").kind = u.kind
        /\ AtStep(u, "apply").step = "apply" /\ AtStep(u, "apply").item = u.item
        /\ AtStep(u, "apply").slot = u.slot /\ AtStep(u, "apply").draft = NoDraft
    BY <1>3, AtStepIs DEF Steps
  <2>2. t \in Task
    BY <1>3, <2>1 DEF Task
  <2> QED BY <2>1, <2>2, TasksDiffer DEF Task
<1> HIDE DEF t
<1>8. t \in Commands
  BY <1>3, <1>4, <1>7, PlainTyped DEF Route
<1>9. TypedTasks' /\ GoesOn(s, id, t)
  BY <1>1, <1>2, <1>7, <1>8, BecomeGoesOn
<1>10. Serial => i \in Slots /\ bag.stacks[i] = u.item
  <2>1. Serial => Alone(bag, u)
    BY <1>3 DEF CInv, Locked, Busy
  <2> QED BY <1>3, <1>4, <2>1 DEF Alone
<1>11. /\ due' \in [Items -> Int]
       /\ \A x \in Items : due'[x] - due[x] = One(x = u.item) - One(Taken(x))
  <2>1. CASE Serial
    <3>1. UNCHANGED due
      BY <2>1 DEF Consumed
    <3>2. \A x \in Items : Taken(x) <=> x = u.item
      BY <1>10, <2>1
    <3> QED BY <1>1, <3>1, <3>2, NothingOwed DEF One
  <2>2. CASE ~Serial
    <3> DEFINE deleted == {i} \cap Slots
    <3>1. due' = [x \in Items |-> due[x] + (IF x = u.item THEN 1 ELSE 0)
                                    - Cardinality({j \in deleted : bag.stacks[j] = x})]
      BY <2>2 DEF Consumed
    <3>2. ASSUME NEW x \in Items
          PROVE  Cardinality({j \in deleted : bag.stacks[j] = x}) = One(Taken(x))
      <4>1. CASE Taken(x)
        <5>1. {j \in deleted : bag.stacks[j] = x} = {i}
          BY <4>1
        <5> QED BY <4>1, <5>1, FS_Singleton DEF One
      <4>2. CASE ~Taken(x)
        <5>1. {j \in deleted : bag.stacks[j] = x} = {}
          BY <4>2
        <5> QED BY <4>2, <5>1, FS_EmptySet DEF One
      <4> QED BY <4>1, <4>2
    <3> HIDE DEF deleted
    <3>3. \A x \in Items : One(x = u.item) \in Int /\ One(Taken(x)) \in Int /\ due[x] \in Int
      BY <1>1 DEF One, TypedWorld
    <3>4. \A x \in Items : due'[x] = due[x] + One(x = u.item) - One(Taken(x))
      BY <3>1, <3>2 DEF One
    <3>5. due' \in [Items -> Int]
      BY <3>1, <3>3, <3>4
    <3> QED BY <3>3, <3>4, <3>5
  <2> QED BY <2>1, <2>2
<1>12. ASSUME NEW x \in Items
       PROVE  due'[x] - due[x] =
                (Cardinality(Holding(bag', x)) - Cardinality(Holding(bag, x))) + Settle(s, id, x, t)
  <2>1. /\ Cardinality(Holding(bag, x)) \in Nat
        /\ Cardinality(Holding(bag', x)) = Cardinality(Holding(bag, x)) - One(Taken(x))
    BY <1>1, <1>3, <1>5, HoldingLess
  <2>2. ~Carries(u, x) /\ (Carries(t, x) <=> x = u.item)
    BY <1>3, <1>7 DEF Carries
  <2>3. Settle(s, id, x, t) = One(x = u.item)
    BY <2>2 DEF Settle, One
  <2>4. One(x = u.item) \in Int /\ One(Taken(x)) \in Int
    BY DEF One
  <2> HIDE DEF Taken
  <2> QED BY <1>11, <2>1, <2>3, <2>4
<1>13. u.kind # "equip" /\ t.step \in {"answered", "apply"}
  BY <1>3, <1>7
<1> QED BY <1>2, <1>6, <1>7, <1>9, <1>11, <1>12, <1>13, CommitKeeps

-----------------------------------------------------------------------------
(* What is worn. *)

LEMMA WornGoods ==
  ASSUME CInv, NEW s \in Sessions, NEW id \in Ids, NEW t, GoesOn(s, id, t),
         UNCHANGED <<ground, due>>, bag' \in Bag, bag'.stacks = bag.stacks,
         tasks[s][id].kind \in {"equip", "unequip"}
  PROVE  GoodsAddUp'
<1>1. Typed /\ TypedWorld /\ GoodsAddUp /\ Sets(s, id, t)
  BY DEF CInv, Typed, GoesOn
<1>2. \A x : ~Carries(t, x) /\ ~Carries(tasks[s][id], x)
  BY DEF Carries, GoesOn
<1>3. ground' \in [Items -> Nat] /\ due' \in [Items -> Int]
  BY <1>1 DEF TypedWorld
<1>4. ASSUME NEW x \in Items
      PROVE  due'[x] - due[x] = (ground'[x] - ground[x])
               + (Cardinality(Holding(bag', x)) - Cardinality(Holding(bag, x)))
               + (One(Carries(t, x)) - One(Carries(tasks[s][id], x)))
  <2>1. One(Carries(t, x)) = 0 /\ One(Carries(tasks[s][id], x)) = 0
    BY <1>2 DEF One
  <2>2. due'[x] - due[x] = 0 /\ ground'[x] - ground[x] = 0
    BY <1>1 DEF TypedWorld
  <2>3. Holding(bag, x) \subseteq Slots /\ Holding(bag', x) = Holding(bag, x)
    BY DEF Holding
  <2>4. Cardinality(Holding(bag, x)) \in Nat /\ Cardinality(Holding(bag', x)) = Cardinality(Holding(bag, x))
    BY <2>3, SlotsFinite, FS_Subset, FS_CardinalityType
  <2> QED BY <2>1, <2>2, <2>4
<1> QED BY <1>1, <1>3, <1>4, GoodsMove

(* The command that wears or takes off is the session's only one of its     *)
(* kind, and only who plays or has played has commands.                     *)
LEMMA OnlyMenuTask ==
  ASSUME CInv, NEW s \in Sessions, NEW id \in Ids, tasks[s][id].kind \in {"equip", "unequip"}
  PROVE  /\ \A j \in Ids : j # id => Silent(tasks[s][j])
         /\ phase[s] \notin Early
<1>1. tasks[s][id].kind \in MenuKinds
  BY DEF MenuKinds
<1>2. ASSUME NEW j \in Ids, j # id
      PROVE  Silent(tasks[s][j])
  <2>1. tasks[s][j].kind \notin MenuKinds
    BY <1>1, <1>2 DEF CInv, Flagged, OneMenuTask
  <2>2. tasks[s][j] \in Commands
    BY DEF CInv, Typed, TypedTasks
  <2>3. CASE tasks[s][j] = NoTask
    BY <2>3, NoTaskIs DEF Silent, OnWay, MenuKinds
  <2>4. CASE tasks[s][j] # NoTask
    <3>1. Route(tasks[s][j])
      BY <2>2, <2>4 DEF Commands
    <3>2. tasks[s][j].step \notin {"reread", "tell"}
      BY <2>1, <3>1 DEF Route, MenuKinds
    <3> QED BY <2>1, <3>2 DEF Silent, OnWay
  <2> QED BY <2>3, <2>4
<1>3. tasks[s][id] # NoTask
  BY NoTaskIs
<1> QED BY <1>2, <1>3 DEF CInv, Placed

(* After a change of what is worn, everyone else is unaware of it.          *)
LEMMA WornChangeKeeps ==
  ASSUME CInv, NEW s \in Sessions, NEW id \in Ids, NEW t, NEW i \in Slots \cup {0},
         Untouched, UNCHANGED <<worldVars, quest, gift, due>>,
         TypedTasks', GoesOn(s, id, t), t # NoTask,
         bag' = Wearing(bag, i), author' \in {s, NoSession}, told' = NoSession,
         unaware' = Sessions \ {s},
         i # 0 => bag.stacks[i] # NoItem,
         tasks[s][id].kind \in {"equip", "unequip"},
         t.bag.edition \in Int, t.bag.edition <= bag'.edition,
         author' = s => t.step = "reread" \/ t.bag.edition = bag'.edition,
         \/ t.step = "tell" /\ EquipmentStats(t.bag) = EquipmentStats(bag')
         \/ t.step = "reread" /\ i = 0
  PROVE  Kept(s, id)
<1>1. Typed /\ TypedWorld /\ Caught /\ Sets(s, id, t)
  BY DEF CInv, Typed, GoesOn
<1>2. bag \in Bag /\ bag' \in Bag
  BY <1>1, WearingIs DEF TypedWorld
<1>3. UNCHANGED <<scene, owner, gear, ground, quest, gift, due, phase, held, newest, events,
                  presses, gifts>>
  BY DEF Untouched, worldVars, readVars
<1>4. TypedWorld'
  <2>1. /\ gear' \in Wearables \cup {NoItem} /\ ground' \in [Items -> Nat]
        /\ unaware' \subseteq Sessions /\ quest' \in Progress /\ due' \in [Items -> Int]
    BY <1>1, <1>3 DEF TypedWorld
  <2>2. author' \in Sessions \cup {NoSession} /\ told' \in Sessions \cup {NoSession}
    OBVIOUS
  <2> QED BY <1>1, <1>2, <1>3, <2>1, <2>2, KeepWorld
<1>5. Geared'
  <2>1. bag'.worn = i /\ bag'.stacks = bag.stacks
    BY DEF Wearing
  <2>2. \A j \in Ids : j # id => tasks'[s][j] = tasks[s][j] /\ Silent(tasks[s][j])
    BY <1>1, OnlyMenuTask DEF Sets
  <2>3. tasks'[s][id] = t /\ t.kind \in MenuKinds
    BY <1>1 DEF Sets, GoesOn, MenuKinds
  <2>4. phase'[s] \notin {"loading", "joining"}
    BY <1>3, OnlyMenuTask DEF Early
  <2>5. GearAgrees'
    <3>1. OnWay(tasks'[s][id])
      BY <2>3, SMTT(30) DEF OnWay
    <3> QED BY <3>1, GearIs
  <2>6. Knows(s)'
    <3>1. ASSUME NEW j \in Ids
          PROVE  /\ TakesOff(tasks'[s][j]) => bag'.worn = 0
                 /\ tasks'[s][j].step = "tell" =>
                      EquipmentStats(tasks'[s][j].bag) = EquipmentStats(bag')
      <4>1. CASE j = id
        BY <2>1, <2>3, <4>1 DEF TakesOff
      <4>2. CASE j # id
        <5>1. tasks'[s][j].step # "tell" /\ ~TakesOff(tasks'[s][j])
          BY <2>2, <4>2, SilentTakesNothingOff
        <5> QED BY <5>1
      <4> QED BY <4>1, <4>2
    <3> QED BY <2>4, <3>1 DEF Knows, TakesOff, EquipmentStats
  <2>7. Sessions \ unaware' = {s}
    OBVIOUS
  <2>8. bag'.worn # 0 => bag'.stacks[bag'.worn] # NoItem
    BY <2>1
  <2> QED BY <2>5, <2>6, <2>7, <2>8 DEF Geared
<1>6. Caught'
  <2>1. bag'.edition = bag.edition + 1
    BY <1>2 DEF Wearing, Bag
  <2>2. author' = s => Returns(t)'
    BY DEF Returns, Brings, GoesOn
  <2> QED BY <1>1, <1>3, <2>1, <2>2, CaughtByAuthor
<1>7. GoodsAddUp'
  <2>1. bag'.stacks = bag.stacks
    BY SMTT(30) DEF Wearing
  <2> QED BY <1>2, <1>3, <2>1, WornGoods
<1> QED BY <1>4, <1>5, <1>6, <1>7 DEF Kept, Called

LEMMA EquippedKeeps ==
  ASSUME CInv, NEW s \in Sessions, NEW id \in Ids, Equipped(s, id)
  PROVE  Kept(s, id)
<1> DEFINE u == tasks[s][id]
           t == [AtStep(u, "tell") EXCEPT !.bag = u.draft.bag]
<1>1. TypedTasks /\ TypedWorld /\ bag \in Bag
  BY DEF CInv, Typed, TypedWorld
<1>2. /\ Commit(s, id) /\ u.kind = "equip" /\ Become(s, id, t)
      /\ unaware' = Sessions \ {s} /\ UNCHANGED <<quest, due>>
      /\ Untouched /\ UNCHANGED <<worldVars, gift>>
  BY DEF Equipped, Commit
<1>3. /\ u \in Task /\ Route(u) /\ Drafted(u) /\ Open(u) /\ Sound(bag, u) /\ u.draft.bag \in Bag
      /\ u.draft.bag.edition \in Nat /\ u.draft.bag.edition <= bag'.edition
      /\ bag' = Written(u) /\ author' \in {s, NoSession} /\ told' = NoSession
      /\ author' = s => u.draft.bag.edition = bag'.edition
  BY <1>2, CommitIs
<1>4. /\ u.slot \in Slots /\ u.item \in Wearables /\ u.draft.slot = u.slot
      /\ u.step = "write" /\ ~Adds(u)
  BY <1>2, <1>3 DEF Route, Drafted, QuestKinds, Adds
<1>5. /\ bag' = Wearing(bag, u.slot) /\ bag.stacks[u.slot] # NoItem
      /\ u.draft.bag.stacks[u.slot] = bag.stacks[u.slot] /\ u.draft.bag.worn = u.slot
  BY <1>2, <1>3, <1>4 DEF Written, Sound
<1>6. EquipmentStats(u.draft.bag) = EquipmentStats(bag')
  <2>1. bag'.worn = u.slot /\ bag'.stacks = bag.stacks
    BY <1>5 DEF Wearing
  <2> QED BY <1>5, <2>1 DEF EquipmentStats
<1>7. /\ t \in Task /\ t.kind = u.kind /\ t.step = "tell" /\ t.item = u.item /\ t.slot = u.slot
      /\ t.bag = u.draft.bag /\ t.draft = NoDraft /\ t # NoTask
  <2>1. /\ AtStep(u, "tell") \in Task /\ AtStep(u, "tell").kind = u.kind
        /\ AtStep(u, "tell").step = "tell" /\ AtStep(u, "tell").item = u.item
        /\ AtStep(u, "tell").slot = u.slot /\ AtStep(u, "tell").draft = NoDraft
    BY <1>3, AtStepIs DEF Steps
  <2>2. t \in Task
    BY <1>3, <2>1 DEF Task
  <2> QED BY <2>1, <2>2, TasksDiffer DEF Task
<1> HIDE DEF t
<1>8. t \in Commands
  BY <1>2, <1>3, <1>4, <1>7, PlainTyped DEF Route
<1>9. TypedTasks' /\ GoesOn(s, id, t)
  BY <1>1, <1>2, <1>7, <1>8, BecomeGoesOn
<1>10. /\ t.bag.edition \in Int /\ t.bag.edition <= bag'.edition
       /\ author' = s => t.bag.edition = bag'.edition
  BY <1>3, <1>7
<1>11. u.slot \in Slots \cup {0} /\ u.kind \in {"equip", "unequip"}
  BY <1>2, <1>4
<1>12. t.step = "tell" /\ EquipmentStats(t.bag) = EquipmentStats(bag')
  BY <1>6, <1>7
<1> QED BY <1>2, <1>3, <1>5, <1>7, <1>9, <1>10, <1>11, <1>12, WornChangeKeeps

LEMMA UnequipKeeps ==
  ASSUME CInv, NEW s \in Sessions, NEW id \in Ids, Unequip(s, id)
  PROVE  Kept(s, id)
<1> DEFINE u == tasks[s][id]
           t == AtStep(u, "reread")
<1>1. TypedTasks /\ TypedWorld /\ bag \in Bag /\ {"unequip"} \in SUBSET Kinds
  BY DEF CInv, Typed, TypedWorld, Kinds, MenuKinds
<1>2. /\ At(s, id, {"unequip"}, "call") /\ Untouched /\ UNCHANGED <<worldVars, quest, gift, due>>
      /\ bag' = Wearing(bag, 0) /\ author' = s /\ told' = NoSession
      /\ unaware' = Sessions \ {s} /\ Become(s, id, t)
  BY DEF Unequip, Change
<1>3. u \in Task /\ Route(u) /\ u.kind = "unequip" /\ u.step = "call" /\ u # NoTask
  BY <1>1, <1>2, AtIs, TasksDiffer
<1>4. /\ t \in Task /\ t.kind = u.kind /\ t.step = "reread" /\ t.bag = u.bag
      /\ t.draft = NoDraft /\ t # NoTask
  BY <1>3, AtStepIs, TasksDiffer DEF Steps
<1> HIDE DEF t
<1>5. t \in Commands
  BY <1>3, <1>4, PlainTyped DEF Route
<1>6. TypedTasks' /\ GoesOn(s, id, t)
  BY <1>1, <1>2, <1>4, <1>5, BecomeGoesOn
<1>7. t.bag.edition \in Int /\ t.bag.edition <= bag'.edition
  <2>1. u.bag.edition \in Int /\ u.bag.edition <= bag.edition
    BY <1>1, <1>3, BagsHave DEF CInv, Caught, Older
  <2>2. bag'.edition = bag.edition + 1 /\ bag.edition \in Nat
    BY <1>1, <1>2 DEF Wearing, Bag
  <2> QED BY <1>4, <2>1, <2>2
<1>8. 0 \in Slots \cup {0} /\ u.kind \in {"equip", "unequip"}
  BY <1>3
<1> QED BY <1>2, <1>4, <1>6, <1>7, <1>8, WornChangeKeeps

(* What is worn is read back.                                               *)
LEMMA ReadingKeeps ==
  ASSUME CInv, NEW s \in Sessions, NEW id \in Ids, NEW t,
         Untouched, UNCHANGED <<worldVars, storeVars, due, told>>,
         TypedTasks', GoesOn(s, id, t),
         tasks[s][id].kind = "unequip", TakesOff(tasks[s][id]),
         author' \in {author, NoSession}, unaware' \in {unaware, unaware \cup {s}},
         s \notin unaware' =>
           /\ OnWay(t)
           /\ t.step = "tell" /\ bag.worn = 0 => EquipmentStats(t.bag) = EquipmentStats(bag),
         t # NoTask => t.bag.edition <= bag.edition,
         Playing(s) /\ author' = s /\ Returns(tasks[s][id]) => Returns(t)
  PROVE  Kept(s, id)
<1>1. /\ Typed /\ TypedTasks /\ TypedWorld /\ Geared /\ Caught /\ Sets(s, id, t) /\ bag \in Bag
  BY DEF CInv, Typed, TypedWorld, GoesOn
<1>2. UNCHANGED <<scene, owner, gear, ground, bag, quest, gift, due, told, phase, held,
                  newest, events, presses, gifts>>
  BY DEF Untouched, worldVars, storeVars, readVars
<1>3. TypedWorld'
  <2>1. /\ gear' \in Wearables \cup {NoItem} /\ ground' \in [Items -> Nat] /\ bag' \in Bag
        /\ unaware' \subseteq Sessions /\ quest' \in Progress /\ due' \in [Items -> Int]
        /\ author' \in Sessions \cup {NoSession} /\ told' \in Sessions \cup {NoSession}
    BY <1>1, <1>2 DEF TypedWorld
  <2> QED BY <1>1, <1>2, <2>1, KeepWorld
<1>4. tasks'[s][id] = t /\ \A r \in Sessions, j \in Ids : ~(r = s /\ j = id) => tasks'[r][j] = tasks[r][j]
  BY <1>1 DEF Sets
<1>5. Geared'
  <2>1. ASSUME NEW r \in Sessions \ unaware'
        PROVE  Knows(r)'
    <3>1. r \in Sessions \ unaware /\ Knows(r)
      BY <1>1 DEF Geared
    <3>2. ASSUME NEW j \in Ids
          PROVE  /\ TakesOff(tasks'[r][j]) => bag'.worn = 0
                 /\ tasks'[r][j].step = "tell" =>
                      EquipmentStats(tasks'[r][j].bag) = EquipmentStats(bag')
      <4>1. CASE r = s /\ j = id
        <5>1. bag.worn = 0
          BY <3>1, <4>1 DEF Knows
        <5> QED BY <1>2, <1>4, <4>1, <5>1
      <4>2. CASE ~(r = s /\ j = id)
        <5>1. tasks'[r][j] = tasks[r][j]
          BY <1>4, <4>2
        <5>2. /\ TakesOff(tasks[r][j]) => bag.worn = 0
              /\ tasks[r][j].step = "tell" =>
                   EquipmentStats(tasks[r][j].bag) = EquipmentStats(bag)
          BY <3>1 DEF Knows
        <5> QED BY <1>2, <5>1, <5>2
      <4> QED BY <4>1, <4>2
    <3>3. phase'[r] \in {"loading", "joining"} => EquipmentStats(held'[r]) = EquipmentStats(bag')
      BY <1>2, <3>1 DEF Knows
    <3> QED BY <3>2, <3>3 DEF Knows, TakesOff, EquipmentStats
  <2>2. GearAgrees'
    <3>1. SUFFICES ASSUME NEW r \in Sessions, owner' = r, r \notin unaware',
                          \A j \in Ids : ~OnWay(tasks'[r][j])
                   PROVE  gear' = EquipmentStats(bag')
      BY GearIs
    <3>2. r # s
      BY <1>4, <3>1
    <3>3. \A j \in Ids : ~OnWay(tasks[r][j])
      BY <1>4, <3>1, <3>2
    <3>4. gear = EquipmentStats(bag)
      BY <1>1, <1>2, <3>1, <3>3, GearIs DEF Geared
    <3> QED BY <1>2, <3>4
  <2>3. bag'.worn # 0 => bag'.stacks[bag'.worn] # NoItem
    BY <1>1, <1>2 DEF Geared
  <2> QED BY <2>1, <2>2, <2>3 DEF Geared
<1>6. Caught'
  <2>1. ~Reloads(tasks[s][id])
    BY DEF Reloads
  <2> QED BY <1>1, <1>2, <2>1, CaughtAsBefore
<1>7. GoodsAddUp'
  <2>1. bag' \in Bag /\ bag'.stacks = bag.stacks
    BY <1>1, <1>2
  <2> QED BY <1>2, <2>1, WornGoods
<1> QED BY <1>3, <1>5, <1>6, <1>7 DEF Kept, Called

LEMMA ReadStacksKeeps ==
  ASSUME CInv, NEW s \in Sessions, NEW id \in Ids, ReadStacks(s, id)
  PROVE  Kept(s, id)
<1> DEFINE u == tasks[s][id]
           t == [AtStep(u, "reading") EXCEPT !.bag = bag]
<1>1. TypedTasks /\ bag \in Bag /\ bag.edition \in Nat
  BY DEF CInv, Typed, TypedWorld, Bag
<1>2. /\ \/ u.kind = "unequip" /\ u.step = "reread"
         \/ u.kind = "reload" /\ u.step = "call"
      /\ Become(s, id, t) /\ Untouched /\ UNCHANGED <<worldVars, storeVars, historyVars>>
  BY DEF ReadStacks, At
<1>3. u \in Task /\ Route(u) /\ u # NoTask
  BY <1>1, <1>2, TaskIs
<1>4. /\ t \in Task /\ t.kind = u.kind /\ t.step = "reading" /\ t.bag = bag
      /\ t.draft = NoDraft /\ t # NoTask
  <2>1. /\ AtStep(u, "reading") \in Task /\ AtStep(u, "reading").kind = u.kind
        /\ AtStep(u, "reading").step = "reading" /\ AtStep(u, "reading").draft = NoDraft
    BY <1>3, AtStepIs DEF Steps
  <2>2. t \in Task
    BY <1>1, <2>1 DEF Task
  <2> QED BY <2>1, <2>2, TasksDiffer DEF Task
<1> HIDE DEF t
<1>5. t \in Commands
  BY <1>1, <1>2, <1>4, PlainTyped DEF Route
<1>6. TypedTasks' /\ GoesOn(s, id, t)
  BY <1>1, <1>2, <1>4, <1>5, BecomeGoesOn
<1>7. t.bag.edition <= bag.edition /\ Brings(t)
  BY <1>1, <1>4 DEF Brings
<1>8. CASE u.kind = "unequip"
  <2>1. TakesOff(u) /\ OnWay(t) /\ t.step # "tell" /\ Returns(t)
    BY <1>2, <1>4, <1>7, <1>8 DEF TakesOff, OnWay, MenuKinds, Returns
  <2>2. UNCHANGED <<worldVars, storeVars, due, told, author, unaware>>
    BY <1>2 DEF historyVars
  <2> QED BY <1>2, <1>6, <1>7, <1>8, <2>1, <2>2, ReadingKeeps
<1>9. CASE u.kind = "reload"
  <2>1. Silent(u) /\ Silent(t) /\ ~Returns(u) /\ Reloads(t)
    BY <1>2, <1>4, <1>7, <1>9 DEF Silent, OnWay, MenuKinds, Returns, Reloads
  <2>2. \A x \in Items : Carries(t, x) <=> Carries(u, x)
    BY <1>4, <1>9 DEF Carries
  <2> QED BY <1>2, <1>6, <1>7, <2>1, <2>2, OnlyTaskKeeps
<1> QED BY <1>2, <1>8, <1>9

LEMMA ReadEquipmentKeeps ==
  ASSUME CInv, NEW s \in Sessions, NEW id \in Ids, ReadEquipment(s, id)
  PROVE  Kept(s, id)
<1> DEFINE u == tasks[s][id]
           b == [u.bag EXCEPT !.worn = bag.worn]
<1>1. TypedTasks /\ bag \in Bag /\ bag.worn \in Slots \cup {0}
  BY DEF CInv, Typed, TypedWorld, Bag
<1>2. /\ u.step = "reading"
      /\ u.kind = "reload" => Send(s, id, Answering(u, b))
      /\ u.kind # "reload" => Become(s, id, [AtStep(u, "tell") EXCEPT !.bag = b])
      /\ Untouched /\ UNCHANGED <<worldVars, storeVars, historyVars>>
  BY DEF ReadEquipment
<1>3. u \in Task /\ Route(u) /\ u # NoTask
  <2>1. u \in Commands /\ u # NoTask
    BY <1>1, <1>2, NoTaskIs DEF TypedTasks
  <2> QED BY <2>1 DEF Commands
<1>4. u.kind \in {"unequip", "reload"} /\ u.bag \in Bag
  BY <1>2, <1>3 DEF Route, QuestKinds
<1>5. b \in Bag /\ b.worn = bag.worn /\ b.edition = u.bag.edition
  BY <1>1, <1>4 DEF Bag
<1>6. u.bag.edition <= bag.edition
  BY <1>3 DEF CInv, Caught, Older
<1> HIDE DEF b
<1>7. CASE u.kind = "unequip"
  <2> DEFINE t == [AtStep(u, "tell") EXCEPT !.bag = b]
  <2>1. /\ t \in Task /\ t.kind = u.kind /\ t.step = "tell" /\ t.bag = b
        /\ t.draft = NoDraft /\ t # NoTask
    <3>1. /\ AtStep(u, "tell") \in Task /\ AtStep(u, "tell").kind = u.kind
          /\ AtStep(u, "tell").step = "tell" /\ AtStep(u, "tell").draft = NoDraft
      BY <1>3, AtStepIs DEF Steps
    <3>2. t \in Task
      BY <1>5, <3>1 DEF Task
    <3> QED BY <3>1, <3>2, TasksDiffer DEF Task
  <2>2. Become(s, id, t)
    BY <1>2, <1>7
  <2> HIDE DEF t
  <2>3. t \in Commands
    BY <1>5, <1>7, <2>1, PlainTyped DEF Route
  <2>4. TypedTasks' /\ GoesOn(s, id, t)
    BY <1>1, <2>1, <2>2, <2>3, BecomeGoesOn
  <2>5. TakesOff(u) /\ OnWay(t) /\ (Returns(u) => Returns(t))
    BY <1>2, <1>5, <1>7, <2>1 DEF TakesOff, OnWay, MenuKinds, Returns, Brings
  <2>6. bag.worn = 0 => EquipmentStats(t.bag) = EquipmentStats(bag)
    BY <1>5, <2>1 DEF EquipmentStats
  <2>7. UNCHANGED <<worldVars, storeVars, due, told, author, unaware>>
    BY <1>2 DEF historyVars
  <2>8. t.bag.edition <= bag.edition
    BY <1>5, <1>6, <2>1
  <2> QED BY <1>2, <1>7, <2>4, <2>5, <2>6, <2>7, <2>8, ReadingKeeps
<1>8. CASE u.kind = "reload"
  <2> DEFINE t == IF Playing(s) THEN Answering(u, b) ELSE NoTask
  <2>1. TypedTasks' /\ GoesOn(s, id, t)
    BY <1>1, <1>2, <1>5, <1>8, AnswerGoesOn
  <2>2. \/ t = NoTask /\ ~Playing(s)
        \/ t.step = "answered" /\ t.bag = b /\ t.kind = u.kind
    BY <1>3, <1>5, AnsweringIs
  <2> HIDE DEF t
  <2>3. Silent(u) /\ Silent(t) /\ ~Returns(u)
    BY <1>2, <1>8, <2>2, NoTaskIs DEF Silent, OnWay, MenuKinds, Returns
  <2>4. Playing(s) /\ Reloads(u) => Reloads(t)
    BY <1>2, <1>5, <1>8, <2>2 DEF Reloads, Brings
  <2>5. \A x \in Items : Carries(t, x) <=> Carries(u, x)
    BY <1>8, <2>2 DEF Carries
  <2>6. t # NoTask => t.bag.edition <= bag.edition
    BY <1>5, <1>6, <2>2
  <2> QED BY <1>2, <2>1, <2>3, <2>4, <2>5, <2>6, OnlyTaskKeeps
<1> QED BY <1>4, <1>7, <1>8

LEMMA ReadFailsKeeps ==
  ASSUME CInv, NEW s \in Sessions, NEW id \in Ids, ReadFails(s, id)
  PROVE  Kept(s, id)
<1> DEFINE u == tasks[s][id]
           t == IF Playing(s) THEN Answering(u, NoBag) ELSE NoTask
<1>1. TypedTasks /\ TypedWorld /\ bag.edition \in Nat
  BY DEF CInv, Typed, TypedWorld, Bag
<1>2. /\ u.step \in {"reread", "reading"} \/ (u.kind = "reload" /\ u.step = "call")
      /\ Fail(s, id)
      /\ unaware' = IF u.kind = "unequip" THEN unaware \cup {s} ELSE unaware
      /\ author' = IF u.kind = "unequip" /\ author = s THEN NoSession ELSE author
      /\ told' = IF u.kind = "reload" /\ told = s THEN NoSession ELSE told
      /\ Untouched /\ UNCHANGED <<worldVars, storeVars, due>>
  BY DEF ReadFails, At
<1>3. u \in Task /\ Route(u) /\ u # NoTask /\ u.kind # "none"
  <2>1. u \in Commands /\ u # NoTask
    BY <1>1, <1>2, NoTaskIs DEF TypedTasks
  <2> QED BY <2>1, TasksDiffer DEF Commands
<1>4. u.kind \in {"unequip", "reload"}
  BY <1>2, <1>3 DEF Route, QuestKinds
<1>5. TypedTasks' /\ GoesOn(s, id, t)
  BY <1>1, <1>2, <1>3, FailGoesOn
<1>6. t = NoTask \/ (t.step = "answered" /\ t.bag = NoBag)
  BY <1>3, AnsweringIs
<1> HIDE DEF t
<1>7. t # NoTask => t.bag.edition <= bag.edition
  BY <1>1, <1>6 DEF NoBag
<1>8. CASE u.kind = "unequip"
  <2>1. TakesOff(u)
    BY <1>2, <1>8 DEF TakesOff
  <2>2. /\ UNCHANGED <<worldVars, storeVars, due, told>> /\ author' \in {author, NoSession}
        /\ unaware' = unaware \cup {s} /\ s \in unaware' /\ author' # s
    BY <1>2, <1>8, ItemsAssumption
  <2> QED BY <1>2, <1>5, <1>7, <1>8, <2>1, <2>2, ReadingKeeps
<1>9. CASE u.kind = "reload"
  <2>1. /\ UNCHANGED <<bag, owner, gear, gift, unaware, author>>
        /\ told' \in {told, NoSession} /\ told' # s
        /\ quest' \in Progress /\ due' \in [Items -> Int] /\ ground' \in [Items -> Nat]
    BY <1>1, <1>2, <1>9, ItemsAssumption DEF worldVars, storeVars, TypedWorld
  <2>2. Silent(u) /\ Silent(t) /\ ~Returns(u)
    BY <1>2, <1>3, <1>6, <1>9, NoTaskIs DEF Silent, OnWay, MenuKinds, Returns, Route
  <2>3. ASSUME NEW x \in Items
        PROVE  due'[x] - due[x] = ground'[x] - ground[x] + Settle(s, id, x, t)
    <3>1. ~Carries(t, x) /\ ~Carries(u, x)
      BY <1>6, <1>9 DEF Carries
    <3>2. Settle(s, id, x, t) = 0
      BY <3>1 DEF Settle, One
    <3>3. due'[x] - due[x] = 0 /\ ground'[x] - ground[x] = 0
      BY <1>1, <1>2 DEF TypedWorld, worldVars
    <3> QED BY <3>2, <3>3
  <2> QED BY <1>2, <1>5, <1>7, <2>1, <2>2, <2>3, NoChangeKeeps
<1> QED BY <1>4, <1>8, <1>9

LEMMA UpdateEquipmentKeeps ==
  ASSUME CInv, NEW s \in Sessions, NEW id \in Ids, UpdateEquipment(s, id)
  PROVE  Kept(s, id)
<1> DEFINE u == tasks[s][id]
           t == IF Playing(s) THEN Answering(u, u.bag) ELSE NoTask
<1>1. /\ Typed /\ TypedTasks /\ TypedWorld /\ Geared /\ Caught
      /\ {"equip", "unequip"} \in SUBSET Kinds /\ bag \in Bag
  BY DEF CInv, Typed, TypedWorld, Kinds, MenuKinds
<1>2. /\ At(s, id, {"equip", "unequip"}, "tell") /\ Untouched
      /\ UNCHANGED <<owner, ground, storeVars, historyVars>>
      /\ gear' = IF Authenticated(s) THEN EquipmentStats(u.bag) ELSE gear
      /\ Send(s, id, Answering(u, u.bag))
  BY DEF UpdateEquipment
<1>3. /\ u \in Task /\ u.kind \in {"equip", "unequip"} /\ u.step = "tell"
      /\ u.bag \in Bag /\ u.bag \in Bag \cup {NoBag}
  BY <1>1, <1>2, TaskIs DEF At, Route, QuestKinds
<1>4. UNCHANGED <<scene, owner, ground, bag, quest, gift, due, author, told, unaware, phase,
                  held, newest, events, presses, gifts>>
  BY <1>2 DEF Untouched, storeVars, historyVars, readVars
<1>5. TypedTasks' /\ GoesOn(s, id, t)
  BY <1>1, <1>2, <1>3, TasksDiffer, AnswerGoesOn
<1>6. \/ t = NoTask /\ ~Playing(s)
      \/ t.step = "answered" /\ t.bag = u.bag /\ t.kind = u.kind
  BY <1>3, AnsweringIs
<1> HIDE DEF t
<1>7. tasks'[s][id] = t /\ Sets(s, id, t)
      /\ \A r \in Sessions, j \in Ids : ~(r = s /\ j = id) => tasks'[r][j] = tasks[r][j]
  BY <1>5 DEF GoesOn, Sets
<1>8. TypedWorld'
  <2>1. gear' \in Wearables \cup {NoItem}
    BY <1>1, <1>2, <1>3, StatsAre DEF TypedWorld
  <2> QED BY <1>1, <1>4, <2>1 DEF TypedWorld, Bag
<1>9. Geared'
  <2>1. ASSUME NEW r \in Sessions \ unaware'
        PROVE  Knows(r)'
    <3>1. Knows(r)
      BY <1>1, <1>4 DEF Geared
    <3>2. t.step # "tell" /\ ~TakesOff(t)
      BY <1>6, NoTaskIs DEF TakesOff
    <3>3. \A j \in Ids : \/ tasks'[r][j] = tasks[r][j]
                         \/ tasks'[r][j].step # "tell" /\ ~TakesOff(tasks'[r][j])
      BY <1>7, <3>2
    <3>4. EquipmentStats(bag') = EquipmentStats(bag) /\ (bag.worn = 0 => bag'.worn = 0)
          /\ phase'[r] = phase[r] /\ held'[r] = held[r]
      BY <1>4
    <3> QED BY <3>1, <3>3, <3>4, KnowsStill
  <2>2. GearAgrees'
    <3>1. SUFFICES ASSUME NEW r \in Sessions, owner' = r, r \notin unaware',
                          \A j \in Ids : ~OnWay(tasks'[r][j])
                   PROVE  gear' = EquipmentStats(bag')
      BY GearIs
    <3>2. CASE r = s
      <4>1. gear' = EquipmentStats(u.bag)
        BY <1>2, <1>4, <3>1, <3>2 DEF Authenticated
      <4>2. EquipmentStats(u.bag) = EquipmentStats(bag)
        BY <1>1, <1>3, <1>4, <3>1, <3>2 DEF Geared, Knows
      <4> QED BY <1>4, <4>1, <4>2
    <3>3. CASE r # s
      <4>1. gear' = gear
        BY <1>2, <1>4, <3>1, <3>3 DEF Authenticated
      <4>2. \A j \in Ids : ~OnWay(tasks[r][j])
        BY <1>7, <3>1, <3>3
      <4>3. gear = EquipmentStats(bag)
        BY <1>1, <1>4, <3>1, <4>2, GearIs DEF Geared
      <4> QED BY <1>4, <4>1, <4>3
    <3> QED BY <3>2, <3>3
  <2>3. bag'.worn # 0 => bag'.stacks[bag'.worn] # NoItem
    BY <1>1, <1>4 DEF Geared
  <2> QED BY <2>1, <2>2, <2>3 DEF Geared
<1>10. Caught'
  <2>1. /\ Playing(s) /\ Returns(u) => Returns(t)
        /\ ~Reloads(u)
    BY <1>3, <1>6 DEF Returns, Reloads, Brings
  <2>2. t # NoTask => t.bag.edition <= bag.edition
    <3>1. u # NoTask
      BY <1>3 DEF NoTask
    <3> QED BY <1>1, <1>6, <3>1 DEF Caught, Older
  <2> QED BY <1>1, <1>4, <1>7, <2>1, <2>2, CaughtAsBefore
<1>11. GoodsAddUp'
  <2>1. bag' \in Bag /\ bag'.stacks = bag.stacks
    BY <1>1, <1>4
  <2> QED BY <1>3, <1>4, <1>5, <2>1, WornGoods
<1> QED BY <1>5, <1>8, <1>9, <1>10, <1>11 DEF Kept, Called

LEMMA WorkKeeps ==
  ASSUME CInv, NEW s \in Sessions, NEW id \in Ids, Work(s, id)
  PROVE  Kept(s, id) /\ Untouched
<1>1. Kept(s, id)
  BY SMTT(60), AskPickupKeeps, StoreFailsKeeps, RestorePickupKeeps, FindStackKeeps, WritersKeep,
     UseConsumableKeeps, RefundFailsKeeps, UnequipKeeps, ReadStacksKeeps, ReadEquipmentKeeps,
     ReadFailsKeeps, UpdateEquipmentKeeps, AcceptKeeps, StoredKeeps, RemovedKeeps,
     ConsumedKeeps, EquippedKeeps, CallFailsKeeps DEF Work, Writers
<1>2. Untouched
  BY DEF Work, AskPickup, StorePickup, StoreFails, RestorePickup, FindStack, ConsumeItem, Equip,
         UseConsumable, Refund, RefundFails, Unequip, ReadStacks, ReadEquipment, ReadFails,
         UpdateEquipment, BuyItem, SellItem, Accept, Complete, Stored, Removed, Consumed,
         Equipped, CallFails, Commit
<1> QED BY <1>1, <1>2

-----------------------------------------------------------------------------
(* The sessions' other steps, as far as the world, the database and the     *)
(* commands are concerned. *)

Backstage == TypedWorld /\ TypedTasks /\ Placed /\ Geared /\ Caught /\ GoodsAddUp

LEMMA TasksKeep ==
  ASSUME TypedTasks, UNCHANGED tasks
  PROVE  TypedTasks'
BY CommandsAre DEF TypedTasks

(* Keys and snapshots that open and close screens.                          *)
Offstage == UNCHANGED <<scene, worldVars, storeVars, phase, readVars, tasks, events, presses,
                        gifts, historyVars>>

LEMMA OffstageKeeps ==
  ASSUME CInv, Offstage
  PROVE  Backstage'
<1>1. UNCHANGED <<scene, owner, gear, ground, bag, quest, gift, phase, held, progress, newest,
                  tasks, events, presses, gifts, due, author, told, unaware>>
  BY DEF Offstage, worldVars, storeVars, readVars, historyVars
<1>2. TypedWorld' /\ TypedTasks'
  BY <1>1, TasksKeep DEF CInv, Typed, TypedWorld, Bag
<1>3. Placed'
  BY <1>1 DEF CInv, Placed
<1>4. Geared'
  BY <1>1 DEF CInv, Geared, GearAgrees, Knows, TakesOff, At, Authenticated, EquipmentStats
<1>5. Caught'
  BY <1>1 DEF CInv, Caught, Older, AuthorCaught, ToldCaught, Returns, Reloads, Brings, Playing
<1>6. GoodsAddUp'
  BY <1>1 DEF CInv, GoodsAddUp, InHand, Holding
<1> QED BY <1>2, <1>3, <1>4, <1>5, <1>6 DEF Backstage

(* A key that starts a command.                                             *)
LEMMA PressKeeps ==
  ASSUME CInv, NEW s \in Sessions, Playing(s), NEW t \in Commands, Start(s, t),
         t.step \in {"ask", "call"}, t.kind = "pickup" => t.step = "ask",
         t.bag = NoBag,
         UNCHANGED <<scene, worldVars, storeVars, phase, readVars, events, gifts, historyVars>>,
         presses' \in Nat
  PROVE  /\ Backstage'
         /\ \E id \in Ids : tasks[s][id] = NoTask /\ Sets(s, id, t)
<1>1. UNCHANGED <<scene, owner, gear, ground, bag, quest, gift, phase, held, progress, newest,
                  events, gifts, due, author, told, unaware>>
  BY DEF worldVars, storeVars, readVars, historyVars
<1>2. TypedTasks /\ TypedWorld /\ Typed /\ Caught /\ Geared /\ GoodsAddUp /\ bag \in Bag
  BY DEF CInv, Typed, TypedWorld
<1>3. TypedTasks' /\ \E id \in Ids : tasks[s][id] = NoTask /\ Sets(s, id, t)
  BY <1>2, StartSets
<1>4. PICK id \in Ids : tasks[s][id] = NoTask /\ Sets(s, id, t)
  BY <1>3
<1>5. TypedWorld'
  BY <1>1, <1>2 DEF TypedWorld, Bag
<1>6. Placed'
  BY <1>1, <1>4 DEF CInv, Placed, Early, Sets, Playing
<1>7. Geared'
  <2>1. Silent(tasks[s][id]) /\ Silent(t)
    BY <1>4, NoTaskIs DEF Silent, OnWay
  <2>2. /\ EquipmentStats(bag') = EquipmentStats(bag)
        /\ bag'.worn # 0 => bag'.stacks[bag'.worn] # NoItem
    BY <1>1, <1>2 DEF Geared
  <2>3. unaware \subseteq unaware' /\ (bag.worn = 0 => bag'.worn = 0)
    BY <1>1
  <2> QED BY <1>1, <1>2, <1>4, <2>1, <2>2, <2>3, GearedAsBefore
<1>8. Caught'
  <2>1. ~Returns(tasks[s][id]) /\ ~Reloads(tasks[s][id])
    BY <1>4, NoTaskIs DEF Returns, Reloads, Brings
  <2>2. t # NoTask => t.bag.edition <= bag.edition
    BY <1>2 DEF Bag, NoBag
  <2> QED BY <1>1, <1>2, <1>4, <2>1, <2>2, CaughtAsBefore
<1>9. GoodsAddUp'
  <2>1. ASSUME NEW x \in Items
        PROVE  due'[x] - due[x] = (ground'[x] - ground[x])
                 + (Cardinality(Holding(bag', x)) - Cardinality(Holding(bag, x)))
                 + (One(Carries(t, x)) - One(Carries(tasks[s][id], x)))
    <3>1. ~Carries(t, x) /\ ~Carries(tasks[s][id], x)
      BY <1>4, NoTaskIs DEF Carries
    <3>2. One(Carries(t, x)) = 0 /\ One(Carries(tasks[s][id], x)) = 0
      BY <3>1 DEF One
    <3>3. due'[x] - due[x] = 0 /\ ground'[x] - ground[x] = 0
      BY <1>1, <1>2 DEF TypedWorld
    <3>4. Holding(bag, x) \subseteq Slots /\ Holding(bag', x) = Holding(bag, x)
      BY <1>1 DEF Holding
    <3>5. Cardinality(Holding(bag, x)) \in Nat
      BY <3>4, SlotsFinite, FS_Subset, FS_CardinalityType
    <3> QED BY <3>2, <3>3, <3>4, <3>5
  <2>2. bag' \in Bag /\ ground' \in [Items -> Nat] /\ due' \in [Items -> Int]
    BY <1>1, <1>2 DEF TypedWorld
  <2> QED BY <1>2, <1>4, <2>1, <2>2, GoodsMove
<1> QED BY <1>3, <1>5, <1>6, <1>7, <1>8, <1>9 DEF Backstage

(* A program that ends.                                                     *)
LEMMA EndingKeeps ==
  ASSUME CInv, NEW s \in Sessions, Playing(s), End(s), NEW p \in {"leaving", "gone"},
         phase' = [phase EXCEPT ![s] = p],
         UNCHANGED <<scene, worldVars, storeVars, readVars, events, presses, gifts,
                     author, told, unaware>>
  PROVE  Backstage' /\ Ends(s)
<1>1. UNCHANGED <<scene, owner, gear, ground, bag, quest, gift, held, progress, newest,
                  events, presses, gifts, author, told, unaware>>
  BY DEF worldVars, storeVars, readVars
<1>2. TypedTasks /\ TypedWorld /\ Caught /\ Geared /\ GoodsAddUp /\ phase \in [Sessions -> Phases]
  BY DEF CInv, Typed, TypedSessions
<1>3. TypedTasks' /\ Ends(s)
  BY <1>2, EndSets
<1>4. \A r \in Sessions, j \in Ids : tasks'[r][j] = NoTask \/ tasks'[r][j] = tasks[r][j]
  BY <1>3 DEF Ends
<1>5. \A r \in Sessions : r # s => phase'[r] = phase[r] /\ \A j \in Ids : tasks'[r][j] = tasks[r][j]
  BY <1>2, <1>3 DEF Ends
<1>6. phase'[s] = p
  BY <1>2
<1>7. TypedWorld'
  <2>1. due' \in [Items -> Int]
    <3>1. ASSUME NEW i \in Items PROVE due[i] - Cardinality(FoundIn(s, i)) \in Int
      BY <1>2, HandsAtEnd DEF TypedWorld
    <3> QED BY <3>1 DEF End
  <2> QED BY <1>1, <1>2, <2>1 DEF TypedWorld, Bag
<1>8. Placed'
  BY <1>1, <1>4, <1>5, <1>6 DEF CInv, Placed, Early
<1>9. Geared'
  <2>1. \A r \in Sessions, j \in Ids :
          \/ tasks'[r][j] = tasks[r][j]
          \/ tasks'[r][j].step # "tell" /\ ~TakesOff(tasks'[r][j])
    BY <1>4, NoTaskIs DEF TakesOff
  <2>2. \A r \in Sessions, j \in Ids : OnWay(tasks[r][j]) => tasks'[r][j] = tasks[r][j]
    BY <1>3 DEF Ends, IsMessage, Messages, OnWay
  <2>3. ASSUME NEW r \in Sessions \ unaware'
        PROVE  Knows(r)'
    <3>1. Knows(r)
      BY <1>1, <1>2 DEF Geared
    <3>2. phase'[r] \in {"loading", "joining"} => phase'[r] = phase[r] /\ held'[r] = held[r]
      BY <1>1, <1>5, <1>6
    <3> QED BY <1>1, <2>1, <3>1, <3>2, KnowsStill
  <2>4. GearAgrees'
    BY <1>1, <1>2, <2>2, GearIs DEF Geared
  <2>5. bag'.worn # 0 => bag'.stacks[bag'.worn] # NoItem
    BY <1>1, <1>2 DEF Geared
  <2> QED BY <2>3, <2>4, <2>5 DEF Geared
<1>10. Caught'
  <2>1. Older'
    BY <1>1, <1>2, <1>4 DEF Caught, Older
  <2>2. \A r \in Sessions : Playing(r)' => r # s /\ Playing(r)
    BY <1>5, <1>6 DEF Playing
  <2>3. AuthorCaught'
    BY <1>1, <1>2, <1>5, <2>2 DEF Caught, AuthorCaught, Returns, Brings
  <2>4. ToldCaught'
    BY <1>1, <1>2, <1>5, <2>2 DEF Caught, ToldCaught, Reloads, Brings
  <2> QED BY <2>1, <2>3, <2>4 DEF Caught
<1>11. GoodsAddUp'
  <2>1. SUFFICES ASSUME NEW i \in Items
                 PROVE  due'[i] = ground'[i] + Cardinality(Holding(bag', i))
                                  + Cardinality(HandsOf(tasks', i))
    BY DEF GoodsAddUp, InHand, HandsOf
  <2>2. due[i] = ground[i] + Cardinality(Holding(bag, i)) + Cardinality(HandsOf(tasks, i))
    BY <1>2 DEF GoodsAddUp, InHand, HandsOf
  <2>3. /\ Cardinality(FoundIn(s, i)) \in Nat
        /\ Cardinality(HandsOf(tasks', i))
             = Cardinality(HandsOf(tasks, i)) - Cardinality(FoundIn(s, i))
    BY <1>2, HandsAtEnd
  <2>4. due'[i] = due[i] - Cardinality(FoundIn(s, i))
    BY DEF End
  <2>5. Cardinality(HandsOf(tasks, i)) \in Nat
    BY HandsFinite
  <2>6. Holding(bag, i) \subseteq Slots /\ Holding(bag', i) = Holding(bag, i)
    BY <1>1 DEF Holding
  <2>7. Cardinality(Holding(bag, i)) \in Nat
    BY <2>6, SlotsFinite, FS_Subset, FS_CardinalityType
  <2>8. ground'[i] = ground[i] /\ ground[i] \in Int
    BY <1>1, <1>2 DEF TypedWorld
  <2> QED BY <2>2, <2>3, <2>4, <2>5, <2>6, <2>7, <2>8
<1> QED BY <1>3, <1>7, <1>8, <1>9, <1>10, <1>11 DEF Backstage

(* A result that Update takes in.                                           *)
LEMMA TakeInIs ==
  ASSUME CInv, NEW s \in Sessions, NEW id \in Ids, NEW kinds \in SUBSET Kinds,
         Answered(s, id, kinds), TakeIn(s, tasks[s][id].bag)
  PROVE  /\ held' \in [Sessions -> Bag] /\ newest' \in [Sessions -> Nat]
         /\ \A r \in Sessions : r # s => held'[r] = held[r] /\ newest'[r] = newest[r]
         /\ newest[s] <= newest'[s] /\ newest'[s] <= bag.edition
         /\ tasks[s][id].bag.edition <= newest'[s]
<1> DEFINE b == tasks[s][id].bag
<1>1. /\ TypedTasks /\ held \in [Sessions -> Bag] /\ newest \in [Sessions -> Nat]
      /\ bag \in Bag /\ bag.edition \in Nat
  BY DEF CInv, Typed, TypedWorld, TypedSessions, Bag
<1>2. tasks[s][id] \in Task
  BY <1>1, AtIs DEF Answered
<1>3. b \in Bag \cup {NoBag} /\ tasks[s][id] # NoTask
  <2>1. tasks[s][id].step = "answered"
    BY DEF Answered, At
  <2> QED BY <1>2, <2>1, NoTaskIs DEF Task
<1>4. newest[s] \in Nat /\ newest[s] <= bag.edition /\ b.edition <= bag.edition
  BY <1>1, <1>3 DEF CInv, Caught, Older
<1> HIDE DEF b
<1>5. CASE b = NoBag
  <2>1. UNCHANGED <<held, newest>>
    BY <1>5 DEF TakeIn, b
  <2>2. b.edition <= newest[s]
    BY <1>4, <1>5 DEF NoBag
  <2> QED BY <1>1, <1>4, <2>1, <2>2 DEF b
<1>6. CASE b # NoBag
  <2>1. b \in Bag /\ b.edition \in Nat
    BY <1>3, <1>6 DEF Bag
  <2>2. held' = [held EXCEPT ![s] = b] /\ newest' = [newest EXCEPT ![s] = Max({newest[s], b.edition})]
    BY <1>6 DEF TakeIn, b
  <2>3. Max({newest[s], b.edition}) = IF newest[s] >= b.edition THEN newest[s] ELSE b.edition
    BY <1>4, <2>1, MaxOfTwo
  <2> DEFINE m == IF newest[s] >= b.edition THEN newest[s] ELSE b.edition
  <2>4. m \in Nat /\ newest[s] <= m /\ b.edition <= m /\ m <= bag.edition
    BY <1>1, <1>4, <2>1
  <2>5. newest' = [newest EXCEPT ![s] = m]
    BY <2>2, <2>3
  <2> HIDE DEF m
  <2>6. newest' \in [Sessions -> Nat] /\ newest'[s] = m
        /\ \A r \in Sessions : r # s => newest'[r] = newest[r]
    BY <1>1, <2>4, <2>5
  <2>7. held' \in [Sessions -> Bag] /\ \A r \in Sessions : r # s => held'[r] = held[r]
    BY <1>1, <2>1, <2>2
  <2> QED BY <2>4, <2>6, <2>7 DEF b
<1> QED BY <1>5, <1>6

LEMMA TakingInKeeps ==
  ASSUME CInv, NEW s \in Sessions, NEW id \in Ids, NEW kinds \in SUBSET Kinds,
         Answered(s, id, kinds), TakeIn(s, tasks[s][id].bag), Done(s, id),
         UNCHANGED <<scene, worldVars, storeVars, phase, events, presses, gifts, historyVars>>
  PROVE  Backstage' /\ Sets(s, id, NoTask)
<1>1. UNCHANGED <<scene, owner, gear, ground, bag, quest, gift, phase, events, presses, gifts,
                  due, author, told, unaware>>
  BY DEF worldVars, storeVars, historyVars
<1>2. /\ TypedTasks /\ TypedWorld /\ Typed /\ Caught /\ Geared /\ GoodsAddUp /\ bag \in Bag
      /\ newest \in [Sessions -> Nat]
  BY DEF CInv, Typed, TypedWorld, TypedSessions
<1>3. TypedTasks' /\ Sets(s, id, NoTask)
  BY <1>2, BecomeSets, NoTaskIs DEF Done
<1>4. /\ \A r \in Sessions : r # s => held'[r] = held[r] /\ newest'[r] = newest[r]
      /\ newest[s] <= newest'[s] /\ newest'[s] <= bag.edition
      /\ tasks[s][id].bag.edition <= newest'[s]
      /\ newest' \in [Sessions -> Nat]
  BY TakeInIs
<1>5. tasks[s][id].step = "answered" /\ tasks[s][id] # NoTask /\ phase[s] = "playing"
  BY NoTaskIs DEF Answered, At, Playing
<1>6. TypedWorld'
  BY <1>1, <1>2 DEF TypedWorld, Bag
<1>7. /\ tasks'[s][id] = NoTask
      /\ \A r \in Sessions, j \in Ids : ~(r = s /\ j = id) => tasks'[r][j] = tasks[r][j]
  BY <1>3 DEF Sets
<1>8. Placed'
  BY <1>1, <1>7 DEF CInv, Placed
<1>9. Geared'
  <2>1. ASSUME NEW r \in Sessions \ unaware'
        PROVE  Knows(r)'
    <3>1. Knows(r)
      BY <1>1, <1>2 DEF Geared
    <3>2. \A j \in Ids : \/ tasks'[r][j] = tasks[r][j]
                         \/ tasks'[r][j].step # "tell" /\ ~TakesOff(tasks'[r][j])
      BY <1>7, NoTaskIs DEF TakesOff
    <3>3. phase'[r] \in {"loading", "joining"} => phase'[r] = phase[r] /\ held'[r] = held[r]
      BY <1>1, <1>4, <1>5
    <3> QED BY <1>1, <3>1, <3>2, <3>3, KnowsStill
  <2>2. GearAgrees'
    <3>1. \A r \in Sessions, j \in Ids : OnWay(tasks[r][j]) => tasks'[r][j] = tasks[r][j]
      BY <1>5, <1>7 DEF OnWay
    <3> QED BY <1>1, <1>2, <3>1, GearIs DEF Geared
  <2>3. bag'.worn # 0 => bag'.stacks[bag'.worn] # NoItem
    BY <1>1, <1>2 DEF Geared
  <2> QED BY <2>1, <2>2, <2>3 DEF Geared
<1>10. Caught'
  <2>1. bag.edition \in Nat /\ newest[s] \in Nat /\ newest'[s] \in Nat
    BY <1>2, <1>4 DEF Bag
  <2>2. Older'
    BY <1>1, <1>2, <1>4, <1>7 DEF Caught, Older
  <2>3. Returns(tasks[s][id]) \/ Reloads(tasks[s][id]) => newest'[s] = bag.edition
    BY <1>4, <1>5, <2>1 DEF Returns, Reloads, Brings
  <2>4. newest[s] = bag.edition => newest'[s] = bag.edition
    BY <1>4, <2>1
  <2>6. AuthorCaught'
    <3>1. SUFFICES ASSUME NEW r \in Sessions, Playing(r), r = author, newest'[r] # bag.edition
                   PROVE  \E j \in Ids : Returns(tasks[r][j])'
      BY <1>1 DEF AuthorCaught, Playing
    <3>2. newest[r] # bag.edition
      BY <1>4, <2>4, <3>1
    <3>3. PICK j \in Ids : Returns(tasks[r][j])
      BY <1>2, <3>1, <3>2 DEF Caught, AuthorCaught
    <3>4. ~(r = s /\ j = id)
      BY <2>3, <3>1, <3>3
    <3> QED BY <1>1, <1>7, <3>3, <3>4 DEF Returns, Brings
  <2>7. ToldCaught'
    <3>1. SUFFICES ASSUME NEW r \in Sessions, Playing(r), r = told, newest'[r] # bag.edition,
                          ~(events[r] > 0)
                   PROVE  \E j \in Ids : Reloads(tasks[r][j])'
      BY <1>1 DEF ToldCaught, Playing
    <3>2. newest[r] # bag.edition
      BY <1>4, <2>4, <3>1
    <3>3. PICK j \in Ids : Reloads(tasks[r][j])
      BY <1>2, <3>1, <3>2 DEF Caught, ToldCaught
    <3>4. ~(r = s /\ j = id)
      BY <2>3, <3>1, <3>3
    <3> QED BY <1>1, <1>7, <3>3, <3>4 DEF Reloads, Brings
  <2> QED BY <2>2, <2>6, <2>7 DEF Caught
<1>11. GoodsAddUp'
  <2>1. ASSUME NEW x \in Items
        PROVE  due'[x] - due[x] = (ground'[x] - ground[x])
                 + (Cardinality(Holding(bag', x)) - Cardinality(Holding(bag, x)))
                 + (One(Carries(NoTask, x)) - One(Carries(tasks[s][id], x)))
    <3>1. ~Carries(NoTask, x) /\ ~Carries(tasks[s][id], x)
      BY <1>5 DEF Carries
    <3>2. One(Carries(NoTask, x)) = 0 /\ One(Carries(tasks[s][id], x)) = 0
      BY <3>1 DEF One
    <3>3. due'[x] - due[x] = 0 /\ ground'[x] - ground[x] = 0
      BY <1>1, <1>2 DEF TypedWorld
    <3>4. Holding(bag, x) \subseteq Slots /\ Holding(bag', x) = Holding(bag, x)
      BY <1>1 DEF Holding
    <3>5. Cardinality(Holding(bag, x)) \in Nat
      BY <3>4, SlotsFinite, FS_Subset, FS_CardinalityType
    <3> QED BY <3>2, <3>3, <3>4, <3>5
  <2>2. bag' \in Bag /\ ground' \in [Items -> Nat] /\ due' \in [Items -> Int]
    BY <1>1, <1>2 DEF TypedWorld
  <2> QED BY <1>2, <1>3, <2>1, <2>2, GoodsMove
<1> QED BY <1>3, <1>6, <1>8, <1>9, <1>10, <1>11 DEF Backstage

LEMMA CallKeepsPlaced ==
  ASSUME CInv, NEW s \in Sessions, NEW id \in Ids, tasks[s][id] # NoTask,
         NEW t, Sets(s, id, t), UNCHANGED <<owner, phase>>,
         author' \in {author, s, NoSession}, told' \in {told, NoSession}
  PROVE  Placed'
<1>1. phase[s] \notin Early
  BY DEF CInv, Placed
<1>2. SUFFICES ASSUME NEW r \in Sessions, phase[r] \in Early
               PROVE  r \notin {owner', author', told'} /\ \A j \in Ids : tasks'[r][j] = NoTask
  BY DEF Placed
<1>3. r # s /\ r # NoSession
  BY <1>1, <1>2, ItemsAssumption
<1>4. r \notin {owner, author, told} /\ \A j \in Ids : tasks[r][j] = NoTask
  BY <1>2 DEF CInv, Placed
<1> QED BY <1>3, <1>4 DEF Sets

LEMMA CallsLeave ==
  ASSUME CInv, NEW s \in Sessions, NEW id \in Ids, Work(s, id)
  PROVE  /\ owner' = owner /\ phase' = phase /\ tasks[s][id] # NoTask
         /\ author' \in {author, s, NoSession} /\ told' \in {told, NoSession}
<1>1. CASE AskPickup(s, id) \/ StoreFails(s, id) \/ RestorePickup(s, id)
  BY <1>1, NoTaskIs DEF AskPickup, StoreFails, RestorePickup, Untouched, worldVars, historyVars, At
<1>2. CASE StorePickup(s, id) \/ ConsumeItem(s, id) \/ Equip(s, id) \/ Refund(s, id)
  BY <1>2, NoTaskIs DEF StorePickup, ConsumeItem, Equip, Refund, Untouched, worldVars, historyVars, At
<1>3. CASE BuyItem(s, id) \/ SellItem(s, id) \/ Complete(s, id)
  BY <1>3, NoTaskIs DEF BuyItem, SellItem, Complete, Untouched, worldVars, historyVars, At
<1>4. CASE FindStack(s, id) \/ UseConsumable(s, id) \/ RefundFails(s, id)
  BY <1>4, NoTaskIs DEF FindStack, UseConsumable, RefundFails, Untouched, worldVars, historyVars, At
<1>5. CASE Unequip(s, id) \/ ReadStacks(s, id) \/ ReadEquipment(s, id) \/ ReadFails(s, id)
  BY <1>5, NoTaskIs DEF Unequip, ReadStacks, ReadEquipment, ReadFails, Change, Untouched,
                        worldVars, historyVars, At
<1>6. CASE UpdateEquipment(s, id) \/ Accept(s, id) \/ CallFails(s, id)
  BY <1>6, NoTaskIs DEF UpdateEquipment, Accept, CallFails, Untouched, worldVars, historyVars, At
<1>7. CASE Stored(s, id) \/ Removed(s, id) \/ Consumed(s, id) \/ Equipped(s, id)
  <2>1. Commit(s, id)
    BY <1>7 DEF Stored, Removed, Consumed, Equipped
  <2>2. Open(tasks[s][id]) /\ owner' = owner /\ phase' = phase
    BY <2>1 DEF Commit, Untouched, worldVars
  <2> QED BY <2>1, <2>2, CommitIs, NoTaskIs DEF Open
<1> QED BY <1>1, <1>2, <1>3, <1>4, <1>5, <1>6, <1>7 DEF Work

LEMMA WorkKeepsBackstage ==
  ASSUME CInv, NEW s \in Sessions, NEW id \in Ids, Work(s, id)
  PROVE  Backstage' /\ \E t : GoesOn(s, id, t)
<1>1. Kept(s, id)
  BY WorkKeeps
<1>2. PICK t : GoesOn(s, id, t)
  BY <1>1 DEF Kept, Called
<1>3. Placed'
  BY <1>2, CallsLeave, CallKeepsPlaced DEF GoesOn
<1> QED BY <1>1, <1>3 DEF Kept, Called, Backstage

LEMMA PickupResultKeeps ==
  ASSUME CInv, NEW s \in Sessions, NEW id \in Ids, PickupResult(s, id)
  PROVE  Backstage' /\ \E t : GoesOn(s, id, t)
<1> DEFINE u == tasks[s][id]
           t == AtStep(u, "call")
<1>1. TypedTasks /\ TypedWorld /\ bag \in Bag
  BY DEF CInv, Typed, TypedWorld
<1>2. At(s, id, {"pickup"}, "found") /\ Become(s, id, t)
      /\ UNCHANGED <<scene, worldVars, storeVars, phase, flagVars, screenVars, readVars,
                     events, presses, gifts, historyVars>>
  BY DEF PickupResult
<1>3. UNCHANGED <<scene, owner, gear, ground, bag, quest, gift, phase, flagVars, screenVars,
                  readVars, events, presses, gifts, due, author, told, unaware>>
  BY <1>2 DEF worldVars, storeVars, historyVars
<1>4. u \in Task /\ u.kind = "pickup" /\ u.step = "found" /\ u.item \in Items
  BY <1>1, <1>2, TaskIs DEF At, Route, QuestKinds
<1>5. /\ t \in Task /\ t.kind = u.kind /\ t.step = "call" /\ t.item = u.item
      /\ t.bag = u.bag /\ t.draft = NoDraft /\ t # NoTask /\ u # NoTask
  BY <1>4, AtStepIs, TasksDiffer DEF Steps
<1> HIDE DEF t
<1>6. t \in Commands
  BY <1>4, <1>5, PlainTyped DEF Route
<1>7. TypedTasks' /\ GoesOn(s, id, t)
  BY <1>1, <1>2, <1>5, <1>6, BecomeGoesOn
<1>8. Kept(s, id)
  <2>1. \A x \in Items : Carries(t, x) <=> Carries(u, x)
    BY <1>4, <1>5 DEF Carries
  <2>2. ~Returns(u) /\ ~Reloads(u) /\ Silent(u) /\ Silent(t)
    BY <1>4, <1>5 DEF Returns, Reloads, Brings, Silent, OnWay
  <2>3. t.bag.edition <= bag.edition
    BY <1>5 DEF CInv, Caught, Older
  <2>4. Untouched
    BY <1>3 DEF Untouched
  <2> QED BY <1>2, <1>7, <2>1, <2>2, <2>3, <2>4, OnlyTaskKeeps
<1>9. Placed'
  BY <1>3, <1>5, <1>7, CallKeepsPlaced DEF GoesOn
<1> QED BY <1>7, <1>8, <1>9 DEF Kept, Called, Backstage

(* The event that tells of a gift gives way to the reload it starts.        *)
LEMMA WorldEventKeeps ==
  ASSUME CInv, NEW s \in Sessions, WorldEvent(s)
  PROVE  /\ Backstage' /\ events' \in [Sessions -> 0 .. EventLimit]
         /\ \E id \in Ids : \E t : tasks[s][id] = NoTask /\ Sets(s, id, t) /\ t.kind = "reload"
<1> DEFINE t == NewTask("reload", "call", NoItem, 0)
<1>1. /\ TypedTasks /\ TypedWorld /\ Typed /\ Caught /\ Geared /\ GoodsAddUp /\ bag \in Bag
      /\ events \in [Sessions -> 0 .. EventLimit] /\ EventLimit \in Nat
  BY Bounds DEF CInv, Typed, TypedWorld, TypedSessions
<1>2. Playing(s) /\ events[s] > 0 /\ Start(s, t) /\ events' = [events EXCEPT ![s] = @ - 1]
  BY DEF WorldEvent
<1>3. UNCHANGED <<scene, owner, gear, ground, bag, quest, gift, phase, held, progress, newest,
                  presses, gifts, due, author, told, unaware>>
  BY DEF WorldEvent, worldVars, storeVars, readVars, historyVars
<1>4. /\ t.kind = "reload" /\ t.step = "call" /\ t.bag = NoBag /\ t.draft = NoDraft /\ t \in Task
  BY NoDraftIs DEF NewTask, Task, Kinds, Steps, Progress
<1> HIDE DEF t
<1>5. t \in Commands
  BY <1>4, PlainTyped DEF Route
<1>6. TypedTasks' /\ \E id \in Ids : tasks[s][id] = NoTask /\ Sets(s, id, t)
  BY <1>1, <1>2, <1>5, StartSets
<1>7. PICK id \in Ids : tasks[s][id] = NoTask /\ Sets(s, id, t)
  BY <1>6
<1>8. TypedWorld'
  BY <1>1, <1>3 DEF TypedWorld, Bag
<1>9. Placed'
  BY <1>2, <1>3, <1>7 DEF CInv, Placed, Early, Sets, Playing
<1>10. Geared'
  <2>1. Silent(tasks[s][id]) /\ Silent(t)
    BY <1>4, <1>7, NoTaskIs DEF Silent, OnWay
  <2>2. /\ EquipmentStats(bag') = EquipmentStats(bag)
        /\ bag'.worn # 0 => bag'.stacks[bag'.worn] # NoItem
    BY <1>1, <1>3 DEF Geared
  <2>3. unaware \subseteq unaware' /\ (bag.worn = 0 => bag'.worn = 0)
    BY <1>3
  <2> QED BY <1>1, <1>3, <1>7, <2>1, <2>2, <2>3, GearedAsBefore
<1>11. Caught'
  <2>1. \A r \in Sessions, j \in Ids : ~(r = s /\ j = id) => tasks'[r][j] = tasks[r][j]
    BY <1>7 DEF Sets
  <2>2. tasks'[s][id] = t
    BY <1>7 DEF Sets
  <2>3. ~Returns(tasks[s][id])
    BY <1>7, NoTaskIs DEF Returns, Brings
  <2>4. Older'
    <3>1. t.bag.edition <= bag.edition
      BY <1>1, <1>4 DEF Bag, NoBag
    <3> QED BY <1>1, <1>3, <2>1, <2>2, <3>1 DEF Caught, Older
  <2>5. AuthorCaught'
    <3>1. SUFFICES ASSUME NEW r \in Sessions, Playing(r), r = author, newest[r] # bag.edition
                   PROVE  \E j \in Ids : Returns(tasks[r][j])'
      BY <1>3 DEF AuthorCaught, Playing
    <3>2. PICK j \in Ids : Returns(tasks[r][j])
      BY <1>1, <3>1 DEF Caught, AuthorCaught
    <3> QED BY <1>3, <2>1, <2>3, <3>1, <3>2 DEF Returns, Brings
  <2>6. ToldCaught'
    <3>1. SUFFICES ASSUME NEW r \in Sessions, Playing(r), r = told, newest[r] # bag.edition,
                          ~(events'[r] > 0)
                   PROVE  \E j \in Ids : Reloads(tasks[r][j])'
      BY <1>3 DEF ToldCaught, Playing
    <3>2. CASE r = s
      BY <1>4, <2>2, <3>2 DEF Reloads
    <3>3. CASE r # s
      <4>1. events'[r] = events[r]
        BY <1>1, <1>2, <3>3
      <4>2. PICK j \in Ids : Reloads(tasks[r][j])
        BY <1>1, <3>1, <4>1 DEF Caught, ToldCaught
      <4> QED BY <1>3, <2>1, <3>3, <4>2 DEF Reloads, Brings
    <3> QED BY <3>2, <3>3
  <2> QED BY <2>4, <2>5, <2>6 DEF Caught
<1>12. GoodsAddUp'
  <2>1. ASSUME NEW x \in Items
        PROVE  due'[x] - due[x] = (ground'[x] - ground[x])
                 + (Cardinality(Holding(bag', x)) - Cardinality(Holding(bag, x)))
                 + (One(Carries(t, x)) - One(Carries(tasks[s][id], x)))
    <3>1. ~Carries(t, x) /\ ~Carries(tasks[s][id], x)
      BY <1>4, <1>7 DEF Carries
    <3>2. One(Carries(t, x)) = 0 /\ One(Carries(tasks[s][id], x)) = 0
      BY <3>1 DEF One
    <3>3. due'[x] - due[x] = 0 /\ ground'[x] - ground[x] = 0
      BY <1>1, <1>3 DEF TypedWorld
    <3>4. Holding(bag, x) \subseteq Slots /\ Holding(bag', x) = Holding(bag, x)
      BY <1>3 DEF Holding
    <3>5. Cardinality(Holding(bag, x)) \in Nat
      BY <3>4, SlotsFinite, FS_Subset, FS_CardinalityType
    <3> QED BY <3>2, <3>3, <3>4, <3>5
  <2>2. bag' \in Bag /\ ground' \in [Items -> Nat] /\ due' \in [Items -> Int]
    BY <1>1, <1>3 DEF TypedWorld
  <2> QED BY <1>1, <1>7, <2>1, <2>2, GoodsMove
<1>13. events' \in [Sessions -> 0 .. EventLimit]
  <2>1. events[s] - 1 \in 0 .. EventLimit
    BY <1>1, <1>2
  <2> QED BY <1>1, <1>2, <2>1
<1> QED BY <1>4, <1>6, <1>7, <1>8, <1>9, <1>10, <1>11, <1>12, <1>13 DEF Backstage

-----------------------------------------------------------------------------
(* Coming and going. *)

(* A session goes on to another phase.                                      *)
LEMMA PhaseKeeps ==
  ASSUME CInv, NEW s \in Sessions,
         UNCHANGED <<scene, ground, bag, quest, gift, tasks, events, presses, gifts, due,
                     author, told>>,
         \A r \in Sessions : r # s =>
           phase'[r] = phase[r] /\ held'[r] = held[r] /\ newest'[r] = newest[r],
         gear' \in Wearables \cup {NoItem}, owner' \in {owner, s, NoSession},
         unaware' \subseteq Sessions, unaware \subseteq unaware' \cup {s},
         phase'[s] \in Early => phase[s] \in Early /\ owner' # s,
         phase'[s] = "playing" => s \notin {author, told},
         newest'[s] \in {newest[s], bag.edition},
         s \in unaware' \/ Knows(s)', GearAgrees'
  PROVE  Backstage'
<1>1. TypedTasks /\ TypedWorld /\ Typed /\ Caught /\ Geared /\ GoodsAddUp /\ Placed /\ bag \in Bag
  BY DEF CInv, Typed, TypedWorld
<1>2. TypedTasks'
  BY <1>1, TasksKeep
<1>3. TypedWorld'
  BY <1>1 DEF TypedWorld, Bag
<1>4. Placed'
  BY <1>1, ItemsAssumption DEF Placed
<1>5. Geared'
  <2>1. ASSUME NEW r \in Sessions \ unaware'
        PROVE  Knows(r)'
    <3>1. CASE r = s
      <4>1. Knows(s)'
        BY <2>1, <3>1, Zenon
      <4> QED BY <3>1, <4>1, Zenon
    <3>2. CASE r # s
      <4>1. Knows(r) /\ phase'[r] = phase[r] /\ held'[r] = held[r]
        BY <1>1, <3>2 DEF Geared
      <4> QED BY <4>1 DEF Knows, TakesOff, EquipmentStats
    <3> QED BY <3>1, <3>2
  <2>2. bag'.worn # 0 => bag'.stacks[bag'.worn] # NoItem
    BY <1>1 DEF Geared
  <2> QED BY <2>1, <2>2 DEF Geared
<1>6. Caught'
  <2>1. bag.edition \in Nat
    BY <1>1 DEF Bag
  <2>2. Older'
    BY <1>1, <2>1 DEF Caught, Older
  <2>3. \A r \in Sessions : Playing(r)' /\ r \in {author, told} => r # s /\ Playing(r)
    BY DEF Playing
  <2>4. AuthorCaught'
    BY <1>1, <2>3 DEF Caught, AuthorCaught, Returns, Brings
  <2>5. ToldCaught'
    BY <1>1, <2>3 DEF Caught, ToldCaught, Reloads, Brings
  <2> QED BY <2>2, <2>4, <2>5 DEF Caught
<1>7. GoodsAddUp'
  BY <1>1 DEF GoodsAddUp, InHand, Holding
<1> QED BY <1>2, <1>3, <1>4, <1>5, <1>6, <1>7 DEF Backstage

(* Who has no command, and is not the owner.                                *)
LEMMA EarlyIs ==
  ASSUME CInv, NEW s \in Sessions, phase[s] \in Early
  PROVE  /\ s \notin {owner, author, told} /\ \A id \in Ids : tasks[s][id] = NoTask
         /\ Geared /\ bag \in Bag /\ held \in [Sessions -> Bag]
         /\ phase \in [Sessions -> Phases] /\ newest \in [Sessions -> Nat]
         /\ unaware \subseteq Sessions /\ gear \in Wearables \cup {NoItem}
BY DEF CInv, Placed, Typed, TypedWorld, TypedSessions

LEMMA LoadKeeps ==
  ASSUME CInv, NEW s \in Sessions, Load(s)
  PROVE  /\ Backstage'
         /\ held' \in [Sessions -> Bag] /\ newest' \in [Sessions -> Nat]
<1>1. /\ UNCHANGED <<scene, owner, gear, ground, bag, quest, gift, tasks, events, presses,
                     gifts, due, author, told, unaware>>
      /\ phase' = [phase EXCEPT ![s] = "reading"]
      /\ held' = [held EXCEPT ![s] = bag]
      /\ newest' = [newest EXCEPT ![s] = bag.edition]
      /\ phase[s] \in Early
  BY DEF Load, worldVars, storeVars, historyVars, Early
<1>2. /\ s \notin {owner, author, told} /\ \A id \in Ids : tasks[s][id] = NoTask
      /\ Geared /\ bag \in Bag /\ held \in [Sessions -> Bag]
      /\ phase \in [Sessions -> Phases] /\ newest \in [Sessions -> Nat]
      /\ unaware \subseteq Sessions /\ gear \in Wearables \cup {NoItem}
  BY <1>1, EarlyIs
<1>3. /\ \A r \in Sessions : r # s =>
           phase'[r] = phase[r] /\ held'[r] = held[r] /\ newest'[r] = newest[r]
      /\ phase'[s] = "reading" /\ newest'[s] = bag.edition
      /\ held' \in [Sessions -> Bag] /\ newest' \in [Sessions -> Nat]
  BY <1>1, <1>2 DEF Bag
<1>4. Knows(s)'
  BY <1>1, <1>2, <1>3, NoTaskIs DEF Knows, TakesOff
<1>5. GearAgrees'
  BY <1>1, <1>2, GearIs DEF Geared
<1>6. Backstage'
  BY <1>1, <1>2, <1>3, <1>4, <1>5, PhaseKeeps
<1> QED BY <1>3, <1>6

(* With the stacks as they were, what is worn is known.                     *)
LEMMA LoadEquipmentKeeps ==
  ASSUME CInv, NEW s \in Sessions, LoadEquipment(s)
  PROVE  Backstage' /\ held' \in [Sessions -> Bag]
<1>1. /\ UNCHANGED <<scene, owner, gear, ground, bag, quest, gift, tasks, events, presses,
                     gifts, due, author, told, newest>>
      /\ phase' = [phase EXCEPT ![s] = "loading"]
      /\ held' = [held EXCEPT ![s].worn = bag.worn]
      /\ unaware' = IF held[s].stacks = bag.stacks THEN unaware \ {s} ELSE unaware \cup {s}
      /\ phase[s] \in Early
  BY DEF LoadEquipment, worldVars, storeVars, Early
<1>2. /\ s \notin {owner, author, told} /\ \A id \in Ids : tasks[s][id] = NoTask
      /\ Geared /\ bag \in Bag /\ held \in [Sessions -> Bag]
      /\ phase \in [Sessions -> Phases] /\ newest \in [Sessions -> Nat]
      /\ unaware \subseteq Sessions /\ gear \in Wearables \cup {NoItem}
  BY <1>1, EarlyIs
<1>3. /\ \A r \in Sessions : r # s =>
           phase'[r] = phase[r] /\ held'[r] = held[r] /\ newest'[r] = newest[r]
      /\ phase'[s] = "loading" /\ newest'[s] = newest[s]
      /\ held'[s].stacks = held[s].stacks /\ held'[s].worn = bag.worn
      /\ held' \in [Sessions -> Bag]
  <2>1. [held[s] EXCEPT !.worn = bag.worn] \in Bag
    BY <1>2 DEF Bag
  <2>2. held' = [held EXCEPT ![s] = [held[s] EXCEPT !.worn = bag.worn]]
    BY <1>1
  <2>3. held[s] \in Bag
    BY <1>2
  <2>4. /\ [held[s] EXCEPT !.worn = bag.worn].stacks = held[s].stacks
        /\ [held[s] EXCEPT !.worn = bag.worn].worn = bag.worn
    BY <2>3 DEF Bag
  <2> QED BY <1>1, <1>2, <2>1, <2>2, <2>4
<1>4. s \in unaware' \/ Knows(s)'
  <2>1. SUFFICES ASSUME held[s].stacks = bag.stacks PROVE Knows(s)'
    BY <1>1
  <2>2. EquipmentStats(held'[s]) = EquipmentStats(bag')
    BY <1>1, <1>3, <2>1 DEF EquipmentStats
  <2> QED BY <1>1, <1>2, <2>2, NoTaskIs DEF Knows, TakesOff
<1>5. GearAgrees'
  BY <1>1, <1>2, GearIs DEF Geared
<1>6. unaware' \subseteq Sessions /\ unaware \subseteq unaware' \cup {s}
  BY <1>1, <1>2
<1>7. Backstage'
  BY <1>1, <1>2, <1>3, <1>4, <1>5, <1>6, PhaseKeeps
<1> QED BY <1>3, <1>7

(* Only the phase and the quests of a session move.                         *)
(* Only the phase and the quests of a session move.                         *)
LEMMA LoadQuestsKeeps ==
  ASSUME CInv, NEW s \in Sessions, LoadQuests(s)
  PROVE  Backstage'
<1>1. /\ UNCHANGED <<scene, owner, gear, ground, bag, quest, gift, held, newest, tasks, events,
                     presses, gifts, due, author, told, unaware>>
      /\ phase' = [phase EXCEPT ![s] = "joining"]
      /\ phase[s] = "loading" /\ phase[s] \in Early
  BY DEF LoadQuests, worldVars, storeVars, historyVars, Early
<1>2. /\ s \notin {owner, author, told} /\ \A id \in Ids : tasks[s][id] = NoTask
      /\ Geared /\ bag \in Bag /\ phase \in [Sessions -> Phases]
      /\ unaware \subseteq Sessions /\ gear \in Wearables \cup {NoItem}
  BY <1>1, EarlyIs
<1>3. /\ \A r \in Sessions : r # s => phase'[r] = phase[r]
      /\ phase'[s] = "joining"
  BY <1>1, <1>2
<1>4. s \in unaware' \/ Knows(s)'
  BY <1>1, <1>2, <1>3 DEF Geared, Knows, TakesOff, EquipmentStats
<1>5. GearAgrees'
  BY <1>1, <1>2, GearIs DEF Geared
<1> QED BY <1>1, <1>2, <1>3, <1>4, <1>5, PhaseKeeps

LEMMA LoadFailsKeeps ==
  ASSUME CInv, NEW s \in Sessions, LoadFails(s)
  PROVE  Backstage'
<1>1. /\ UNCHANGED <<scene, owner, gear, ground, bag, quest, gift, held, newest, tasks, events,
                     presses, gifts, due, author, told, unaware>>
      /\ phase' = [phase EXCEPT ![s] = "gone"] /\ phase[s] \in Early
  BY DEF LoadFails, worldVars, storeVars, readVars, historyVars, Early
<1>2. /\ s \notin {owner, author, told} /\ \A id \in Ids : tasks[s][id] = NoTask
      /\ Geared /\ bag \in Bag /\ phase \in [Sessions -> Phases]
      /\ unaware \subseteq Sessions /\ gear \in Wearables \cup {NoItem}
  BY <1>1, EarlyIs
<1>3. /\ \A r \in Sessions : r # s => phase'[r] = phase[r]
      /\ phase'[s] = "gone" /\ phase'[s] \notin Early
  BY <1>1, <1>2 DEF Early
<1>4. Knows(s)'
  BY <1>1, <1>2, <1>3, NoTaskIs DEF Knows, TakesOff
<1>5. GearAgrees'
  BY <1>1, <1>2, GearIs DEF Geared
<1> QED BY <1>1, <1>2, <1>3, <1>4, <1>5, PhaseKeeps

LEMMA JoinKeeps ==
  ASSUME CInv, NEW s \in Sessions, Join(s)
  PROVE  Backstage'
<1>1. /\ UNCHANGED <<scene, ground, bag, quest, gift, held, newest, tasks, events,
                     presses, gifts, due, author, told, unaware>>
      /\ owner' = s /\ gear' = EquipmentStats(held[s])
      /\ phase' = [phase EXCEPT ![s] = "playing"]
      /\ phase[s] = "joining" /\ phase[s] \in Early
  BY DEF Join, storeVars, readVars, historyVars, Early
<1>2. /\ s \notin {owner, author, told} /\ \A id \in Ids : tasks[s][id] = NoTask
      /\ Geared /\ bag \in Bag /\ held \in [Sessions -> Bag] /\ phase \in [Sessions -> Phases]
      /\ unaware \subseteq Sessions
  BY <1>1, EarlyIs
<1>3. /\ \A r \in Sessions : r # s => phase'[r] = phase[r]
      /\ phase'[s] = "playing" /\ phase'[s] \notin Early
  BY <1>1, <1>2 DEF Early
<1>4. gear' \in Wearables \cup {NoItem}
  BY <1>1, <1>2, StatsAre
<1>5. Knows(s)'
  BY <1>1, <1>2, <1>3, NoTaskIs DEF Knows, TakesOff
<1>6. GearAgrees'
  <2>1. s \notin unaware => EquipmentStats(held[s]) = EquipmentStats(bag)
    BY <1>1, <1>2 DEF Geared, Knows
  <2>2. EquipmentStats(bag') = EquipmentStats(bag)
    BY <1>1
  <2> QED BY <1>1, <2>1, <2>2, GearIs
<1> QED BY <1>1, <1>2, <1>3, <1>4, <1>5, <1>6, PhaseKeeps

LEMMA LeaveKeeps ==
  ASSUME CInv, NEW s \in Sessions, Leave(s)
  PROVE  Backstage'
<1>1. /\ UNCHANGED <<scene, gear, ground, bag, quest, gift, held, newest, tasks, events,
                     presses, gifts, due, author, told, unaware>>
      /\ owner' \in {owner, NoSession} /\ phase[s] = "leaving"
      /\ phase' = [phase EXCEPT ![s] = "gone"]
  BY DEF Leave, storeVars, readVars, historyVars
<1>2. /\ Geared /\ phase \in [Sessions -> Phases] /\ unaware \subseteq Sessions
      /\ gear \in Wearables \cup {NoItem}
  BY DEF CInv, Typed, TypedSessions, TypedWorld
<1>3. /\ \A r \in Sessions : r # s => phase'[r] = phase[r]
      /\ phase'[s] = "gone" /\ phase'[s] \notin Early
  BY <1>1, <1>2 DEF Early
<1>4. s \in unaware' \/ Knows(s)'
  BY <1>1, <1>2, <1>3 DEF Geared, Knows, TakesOff, EquipmentStats
<1>5. GearAgrees'
  BY <1>1, <1>2, GearIs, ItemsAssumption DEF Geared
<1> QED BY <1>1, <1>2, <1>3, <1>4, <1>5, PhaseKeeps

-----------------------------------------------------------------------------
(* Staff. *)

(* What staff do besides giving; an event is what the owner is told by.     *)
LEMMA StaffKeeps ==
  ASSUME CInv, StaffUntouched, UNCHANGED <<bag, due, author>>,
         owner' \in {owner, NoSession}, gift' \in {"none", "found", "stored"}, gifts' \in Nat,
         \A r \in Sessions : events[r] > 0 => events'[r] > 0,
         \/ told' = told
         \/ told' = owner /\ owner \in Sessions /\ events'[owner] > 0
  PROVE  Backstage'
<1>1. UNCHANGED <<scene, gear, ground, quest, phase, held, newest, tasks, presses, unaware>>
  BY DEF StaffUntouched, readVars
<1>2. TypedTasks /\ TypedWorld /\ Caught /\ Geared /\ GoodsAddUp /\ Placed
  BY DEF CInv, Typed
<1>3. TypedWorld' /\ TypedTasks'
  BY <1>1, <1>2, TasksKeep DEF TypedWorld, Bag
<1>4. Placed'
  BY <1>1, <1>2, ItemsAssumption DEF Placed
<1>5. Geared'
  <2>1. \A r \in Sessions \ unaware' : Knows(r)'
    BY <1>1, <1>2 DEF Geared, Knows, TakesOff, EquipmentStats
  <2>2. GearAgrees'
    BY <1>1, <1>2, GearIs, ItemsAssumption DEF Geared
  <2> QED BY <1>1, <1>2, <2>1, <2>2 DEF Geared
<1>6. Caught'
  <2>1. Older' /\ AuthorCaught'
    BY <1>1, <1>2 DEF Caught, Older, AuthorCaught, Returns, Brings, Playing
  <2>2. ToldCaught'
    <3>1. SUFFICES ASSUME NEW r \in Sessions, Playing(r), r = told', newest[r] # bag.edition,
                          ~(events'[r] > 0)
                   PROVE  \E j \in Ids : Reloads(tasks[r][j])'
      BY <1>1 DEF ToldCaught, Playing
    <3>2. r = told /\ ~(events[r] > 0)
      BY <3>1
    <3>3. PICK j \in Ids : Reloads(tasks[r][j])
      BY <1>2, <3>1, <3>2 DEF Caught, ToldCaught
    <3> QED BY <1>1, <3>3 DEF Reloads, Brings
  <2> QED BY <2>1, <2>2 DEF Caught
<1>7. GoodsAddUp'
  BY <1>1, <1>2 DEF GoodsAddUp, InHand, Holding
<1> QED BY <1>3, <1>4, <1>5, <1>6, <1>7 DEF Backstage

LEMMA FindToGiveKeeps ==
  ASSUME CInv, FindToGive
  PROVE  Backstage' /\ StaffUntouched /\ events' = events
<1>1. /\ UNCHANGED <<owner, bag, events, due, author, told>>
      /\ gift' = "found" /\ gifts' = gifts + 1 /\ StaffUntouched
  BY DEF FindToGive
<1>2. gifts \in Nat
  BY DEF CInv, Typed, TypedWorld
<1> QED BY <1>1, <1>2, StaffKeeps

LEMMA KickPlayerKeeps ==
  ASSUME CInv, KickPlayer
  PROVE  Backstage' /\ StaffUntouched /\ events' = events
<1>1. /\ UNCHANGED <<bag, gift, gifts, events, due, author, told>>
      /\ owner' = NoSession /\ StaffUntouched
  BY DEF KickPlayer
<1>2. gifts \in Nat /\ gift \in {"none", "found", "stored"}
  BY DEF CInv, Typed, TypedWorld
<1> QED BY <1>1, <1>2, StaffKeeps

(* The event is what the owner is told by.                                  *)
LEMMA NotifyPlayerKeeps ==
  ASSUME CInv, NotifyPlayer
  PROVE  Backstage' /\ StaffUntouched /\ events' \in [Sessions -> 0 .. EventLimit]
<1>1. /\ UNCHANGED <<owner, bag, gifts, due, author>>
      /\ gift' = "none" /\ StaffUntouched
  BY DEF NotifyPlayer
<1>2. /\ events \in [Sessions -> 0 .. EventLimit] /\ EventLimit \in Nat
      /\ gifts \in Nat /\ owner \in Sessions \cup {NoSession}
  BY Bounds DEF CInv, Typed, TypedSessions, TypedWorld
<1>3. \/ /\ owner \in Sessions /\ events[owner] < EventLimit
         /\ events' = [events EXCEPT ![owner] = events[owner] + 1]
         /\ told' = owner
      \/ UNCHANGED <<events, told>>
  BY <1>2 DEF NotifyPlayer
<1>4. /\ events' \in [Sessions -> 0 .. EventLimit]
      /\ \A r \in Sessions : events[r] > 0 => events'[r] > 0
      /\ told' = told \/ (told' = owner /\ owner \in Sessions /\ events'[owner] > 0)
  <2>1. CASE UNCHANGED <<events, told>>
    BY <1>2, <2>1
  <2>2. CASE /\ owner \in Sessions /\ events[owner] < EventLimit
             /\ events' = [events EXCEPT ![owner] = events[owner] + 1]
             /\ told' = owner
    <3>1. events[owner] + 1 \in 0 .. EventLimit /\ events[owner] + 1 > 0
      BY <1>2, <2>2
    <3>2. \A r \in Sessions : r # owner => events'[r] = events[r]
      BY <1>2, <2>2
    <3>3. events'[owner] = events[owner] + 1
      BY <1>2, <2>2
    <3> QED BY <1>2, <2>2, <3>1, <3>2, <3>3
  <2> QED BY <1>3, <2>1, <2>2
<1> QED BY <1>1, <1>2, <1>4, StaffKeeps

LEMMA GiveItemKeeps ==
  ASSUME CInv, GiveItem
  PROVE  Backstage' /\ StaffUntouched /\ events' = events
<1>1. /\ UNCHANGED <<scene, owner, gear, ground, quest, gifts, phase, held, newest, tasks, events,
                     presses, unaware>>
      /\ gift' \in {"none", "stored"} /\ StaffUntouched
  BY DEF GiveItem, StaffUntouched, readVars
<1>2. /\ Typed /\ TypedTasks /\ TypedWorld /\ Caught /\ Geared /\ GoodsAddUp /\ Placed
      /\ bag \in Bag /\ bag.edition \in Nat
  BY DEF CInv, Typed, TypedWorld, Bag
<1>3. CASE UNCHANGED <<bag, due, author, told>>
  <2>1. gifts' \in Nat
    BY <1>1, <1>2 DEF TypedWorld
  <2> QED BY <1>1, <1>3, <2>1, StaffKeeps
<1>4. ASSUME NEW item \in scene.given, HasRoom(bag), Change(Added(bag, item), NoSession), Owe(item, 1)
      PROVE  Backstage'
  <2>1. item \in Items
    BY <1>2, ScenesAssumption DEF TypedWorld, Scene
  <2>2. /\ bag' = Added(bag, item) /\ bag' \in Bag
        /\ NextSlot(bag) \in Slots /\ bag.stacks[NextSlot(bag)] = NoItem
        /\ author' = NoSession /\ told' = NoSession
    BY <1>2, <1>4, <2>1, AddedIs DEF Change
  <2>3. due' \in [Items -> Int] /\ \A x \in Items : due'[x] - due[x] = IF x = item THEN 1 ELSE 0
    BY <1>2, <1>4, <2>1, OweIs
  <2>4. TypedWorld' /\ TypedTasks'
    BY <1>1, <1>2, <2>2, <2>3, TasksKeep DEF TypedWorld
  <2>5. Placed'
    BY <1>1, <1>2, <2>2, ItemsAssumption DEF Placed
  <2>6. /\ EquipmentStats(bag') = EquipmentStats(bag)
        /\ bag'.worn # 0 => bag'.stacks[bag'.worn] # NoItem
    <3>1. bag'.worn = bag.worn /\ (bag.worn # 0 => bag'.stacks[bag.worn] = bag.stacks[bag.worn])
      BY <1>2, <2>2 DEF Geared, Added, WithStack, Bag
    <3> QED BY <1>2, <2>2, <3>1, StatsAsBefore DEF Geared
  <2>7. Geared'
    <3>1. ASSUME NEW r \in Sessions \ unaware'
          PROVE  Knows(r)'
      <4>1. Knows(r) /\ (bag.worn = 0 => bag'.worn = 0)
        BY <1>1, <1>2, <2>2 DEF Geared, Added, WithStack
      <4> QED BY <1>1, <2>6, <4>1, KnowsStill
    <3>2. GearAgrees'
      BY <1>1, <1>2, <2>6, GearIs DEF Geared
    <3> QED BY <2>6, <3>1, <3>2 DEF Geared
  <2>8. Caught'
    <3>1. bag'.edition = bag.edition + 1
      BY <2>2 DEF Added, WithStack
    <3>2. Older'
      <4>1. ASSUME NEW r \in Sessions PROVE newest[r] <= bag'.edition
        <5>1. newest[r] \in Nat /\ newest[r] <= bag.edition
          BY <1>2 DEF Typed, TypedSessions, Caught, Older
        <5> QED BY <1>2, <3>1, <5>1
      <4>2. ASSUME NEW r \in Sessions, NEW j \in Ids, tasks[r][j] # NoTask
            PROVE  tasks[r][j].bag.edition <= bag'.edition
        <5>1. tasks[r][j].bag.edition \in Int /\ tasks[r][j].bag.edition <= bag.edition
          BY <1>2, <4>2, BagsHave DEF Caught, Older
        <5> QED BY <1>2, <3>1, <5>1
      <4> QED BY <1>1, <4>1, <4>2 DEF Older
    <3>3. AuthorCaught' /\ ToldCaught'
      BY <2>2, ItemsAssumption DEF AuthorCaught, ToldCaught
    <3> QED BY <3>2, <3>3 DEF Caught
  <2>9. GoodsAddUp'
    <3>1. SUFFICES ASSUME NEW x \in Items
                   PROVE  due'[x] = ground'[x] + Cardinality(Holding(bag', x))
                                    + Cardinality(HandsOf(tasks', x))
      BY DEF GoodsAddUp, InHand, HandsOf
    <3>2. due[x] = ground[x] + Cardinality(Holding(bag, x)) + Cardinality(HandsOf(tasks, x))
      BY <1>2 DEF GoodsAddUp, InHand, HandsOf
    <3>3. bag' = WithStack(bag, NextSlot(bag), item) /\ item \in Items \cup {NoItem}
      BY <2>1, <2>2 DEF Added
    <3>4. /\ Cardinality(Holding(bag, x)) \in Nat
          /\ Cardinality(Holding(bag', x))
               = Cardinality(Holding(bag, x)) - One(bag.stacks[NextSlot(bag)] = x) + One(item = x)
      BY <1>2, <2>2, <3>3, HoldingChanges
    <3>5. bag.stacks[NextSlot(bag)] # x
      BY <2>2, ItemsAssumption
    <3>6. One(bag.stacks[NextSlot(bag)] = x) = 0 /\ One(item = x) = IF x = item THEN 1 ELSE 0
      BY <3>5 DEF One
    <3>7. tasks' = tasks /\ ground' = ground /\ Cardinality(HandsOf(tasks, x)) \in Nat
      BY <1>1, HandsFinite
    <3>8. ground[x] \in Int /\ due[x] \in Int /\ due'[x] \in Int
      BY <1>2, <2>3 DEF TypedWorld
    <3>9. due'[x] - due[x] = IF x = item THEN 1 ELSE 0
      BY <2>3
    <3> QED BY <3>2, <3>4, <3>6, <3>7, <3>8, <3>9
  <2> QED BY <2>4, <2>5, <2>7, <2>8, <2>9 DEF Backstage
<1> QED BY <1>1, <1>3, <1>4 DEF GiveItem

-----------------------------------------------------------------------------
(* The flags and the screens, session by session. *)

UnderIn(all, s, kinds) == {id \in Ids : all[s][id].kind \in kinds}
Marks(all, s, kinds, flag) == Cardinality(UnderIn(all, s, kinds)) = IF flag THEN 1 ELSE 0

FlagsOf(s) ==
  Playing(s) =>
    /\ Marks(tasks, s, {"pickup"}, pickupInFlight[s])
    /\ Marks(tasks, s, MenuKinds, menuInFlight[s])
    /\ Marks(tasks, s, QuestKinds, questInFlight[s])
    /\ shop[s].inFlight => UnderIn(tasks, s, TradeKinds) # {}
    /\ mode[s] = "shop" <=> shop[s].npc # NoNpc
    /\ mode[s] = "dialogue" <=> dialogue[s] # NoDialogue
OneMenuTaskOf(s) ==
  \A id, other \in Ids :
    tasks[s][id].kind \in MenuKinds /\ tasks[s][other].kind \in MenuKinds => id = other
FreshOf(s) ==
  /\ phase[s] \in Early =>
       /\ ~pickupInFlight[s] /\ ~menuInFlight[s] /\ ~questInFlight[s]
       /\ mode[s] = "game" /\ shop[s] = ShopClosed /\ dialogue[s] = NoDialogue
  /\ mode[s] = "dialogue" => ~questInFlight[s]
Orderly(s) == FlagsOf(s) /\ OneMenuTaskOf(s) /\ FreshOf(s)

LEMMA FlaggedIsOrderly ==
  /\ Flagged <=> \A s \in Sessions : Orderly(s)
  /\ Flagged' <=> \A s \in Sessions : Orderly(s)'
<1>1. /\ FlagsMeanWork <=> \A s \in Sessions : FlagsOf(s)
      /\ FlagsMeanWork' <=> \A s \in Sessions : FlagsOf(s)'
  BY DEF FlagsMeanWork, FlagsOf, Marks, Under, UnderIn, Playing
<1>2. /\ OneMenuTask <=> \A s \in Sessions : OneMenuTaskOf(s)
      /\ OneMenuTask' <=> \A s \in Sessions : OneMenuTaskOf(s)'
  BY DEF OneMenuTask, OneMenuTaskOf
<1>3. /\ Fresh <=> \A s \in Sessions : FreshOf(s)
      /\ Fresh' <=> \A s \in Sessions : FreshOf(s)'
  BY DEF Fresh, FreshOf
<1> QED BY <1>1, <1>2, <1>3 DEF Flagged, Orderly

LEMMA UnderFinite ==
  ASSUME NEW all, NEW s, NEW kinds
  PROVE  IsFiniteSet(UnderIn(all, s, kinds)) /\ Cardinality(UnderIn(all, s, kinds)) \in Nat
<1>1. UnderIn(all, s, kinds) \subseteq Ids
  BY DEF UnderIn
<1> QED BY <1>1, SlotsFinite, FS_Subset, FS_CardinalityType

(* A flag when one command is replaced by another.                          *)
LEMMA MarksChange ==
  ASSUME NEW all, NEW some, NEW s \in Sessions, NEW id \in Ids, NEW t, NEW kinds,
         NEW flag \in BOOLEAN, Differ(all, some, s, id, t), Marks(all, s, kinds, flag)
  PROVE  /\ (all[s][id].kind \in kinds <=> t.kind \in kinds) => Marks(some, s, kinds, flag)
         /\ all[s][id].kind \notin kinds /\ t.kind \in kinds /\ ~flag => Marks(some, s, kinds, TRUE)
         /\ all[s][id].kind \in kinds /\ t.kind \notin kinds => Marks(some, s, kinds, FALSE)
<1> DEFINE before == UnderIn(all, s, kinds)
           after == UnderIn(some, s, kinds)
<1>1. \A j \in Ids : some[s][j] = IF j = id THEN t ELSE all[s][j]
  BY DEF Differ
<1>2. before \subseteq Ids /\ after \subseteq Ids
  BY DEF UnderIn
<1>3. id \in before <=> all[s][id].kind \in kinds
  BY DEF UnderIn
<1>4. id \in after <=> t.kind \in kinds
  BY <1>1 DEF UnderIn
<1>5. \A j \in Ids : j # id => (j \in after <=> j \in before)
  BY <1>1 DEF UnderIn
<1>6. IsFiniteSet(before) /\ Cardinality(before) \in Nat
  BY UnderFinite
<1>7. Cardinality(before) = IF flag THEN 1 ELSE 0
  BY DEF Marks
<1> HIDE DEF before, after
<1>8. CASE all[s][id].kind \in kinds <=> t.kind \in kinds
  <2>1. after = before
    BY <1>2, <1>3, <1>4, <1>5, <1>8
  <2> QED BY <1>7, <1>8, <2>1 DEF Marks, after, before
<1>9. CASE all[s][id].kind \notin kinds /\ t.kind \in kinds
  <2>1. after = before \cup {id} /\ id \notin before
    BY <1>2, <1>3, <1>4, <1>5, <1>9
  <2>2. Cardinality(after) = Cardinality(before) + 1
    BY <1>6, <2>1, FS_AddElement
  <2>3. ~flag => Cardinality(after) = 1
    BY <1>7, <2>2
  <2> QED BY <1>9, <2>3 DEF Marks, after
<1>10. CASE all[s][id].kind \in kinds /\ t.kind \notin kinds
  <2>1. after = before \ {id} /\ id \in before
    BY <1>2, <1>3, <1>4, <1>5, <1>10
  <2>2. Cardinality(after) = Cardinality(before) - 1
    BY <1>6, <2>1, FS_RemoveElement
  <2>3. Cardinality(after) \in Nat
    BY UnderFinite DEF after
  <2>4. Cardinality(after) = 0
    BY <1>6, <1>7, <2>2, <2>3
  <2> QED BY <1>10, <2>4 DEF Marks, after
<1> QED BY <1>8, <1>9, <1>10

(* A session on whose screen nothing happens.                               *)
Calm(r) ==
  /\ phase'[r] = "playing" => phase[r] = "playing"
  /\ phase'[r] \in Early => phase[r] \in Early
  /\ \A id \in Ids : tasks'[r][id].kind = tasks[r][id].kind
  /\ pickupInFlight'[r] = pickupInFlight[r]
  /\ menuInFlight'[r] = menuInFlight[r]
  /\ questInFlight'[r] = questInFlight[r]
  /\ mode'[r] = mode[r] /\ shop'[r] = shop[r] /\ dialogue'[r] = dialogue[r]

LEMMA CalmKeeps ==
  ASSUME CInv, NEW r \in Sessions, Calm(r)
  PROVE  Orderly(r)'
<1>1. Orderly(r)
  BY FlaggedIsOrderly DEF CInv
<1>2. \A kinds : UnderIn(tasks', r, kinds) = UnderIn(tasks, r, kinds)
  BY DEF UnderIn, Calm
<1>3. \A kinds, flag : Marks(tasks', r, kinds, flag) <=> Marks(tasks, r, kinds, flag)
  BY <1>2 DEF Marks
<1>4. FlagsOf(r)'
  BY <1>1, <1>2, <1>3 DEF Orderly, FlagsOf, Playing, Calm
<1>5. OneMenuTaskOf(r)' /\ FreshOf(r)'
  BY <1>1 DEF Orderly, OneMenuTaskOf, FreshOf, Calm
<1> QED BY <1>4, <1>5 DEF Orderly

Others(s) == \A r \in Sessions \ {s} : Calm(r)

LEMMA OthersKeep ==
  ASSUME CInv, NEW s \in Sessions, Others(s), Orderly(s)'
  PROVE  Flagged'
<1>1. ASSUME NEW r \in Sessions PROVE Orderly(r)'
  <2>1. CASE r = s
    BY <2>1
  <2>2. CASE r # s
    BY <2>2, CalmKeeps DEF Others
  <2> QED BY <2>1, <2>2
<1> QED BY <1>1, FlaggedIsOrderly

(* A session that does not play.                                            *)
LEMMA AwayKeeps ==
  ASSUME CInv, NEW s \in Sessions, phase'[s] # "playing",
         phase'[s] \in Early => phase[s] \in Early,
         \A id \in Ids : tasks'[s][id].kind \in {tasks[s][id].kind, "none"},
         pickupInFlight'[s] = pickupInFlight[s], menuInFlight'[s] = menuInFlight[s],
         questInFlight'[s] = questInFlight[s], mode'[s] = mode[s], dialogue'[s] = dialogue[s],
         phase'[s] \in Early => shop'[s] = shop[s]
  PROVE  Orderly(s)'
<1>1. Orderly(s)
  BY FlaggedIsOrderly DEF CInv
<1>2. FlagsOf(s)'
  BY DEF FlagsOf, Playing
<1>3. OneMenuTaskOf(s)'
  <2>1. \A id \in Ids : tasks'[s][id].kind \in MenuKinds => tasks[s][id].kind \in MenuKinds
    BY DEF MenuKinds
  <2> QED BY <1>1, <2>1 DEF Orderly, OneMenuTaskOf
<1>4. FreshOf(s)'
  BY <1>1 DEF Orderly, FreshOf
<1> QED BY <1>2, <1>3, <1>4 DEF Orderly

(* All but the transactions, which have a section of their own below.       *)
Rest == Typed /\ Placed /\ Flagged /\ Geared /\ Caught /\ GoodsAddUp

LEMMA Together ==
  ASSUME Backstage', TypedSessions', TypedScreens', Flagged'
  PROVE  Rest'
BY DEF Backstage, Rest, Typed

-----------------------------------------------------------------------------
(* Every step keeps the invariant: coming, going and calling. *)

LEMMA StaffStep ==
  ASSUME CInv, FindToGive \/ GiveItem \/ NotifyPlayer \/ KickPlayer
  PROVE  Rest'
<1>1. /\ Backstage' /\ StaffUntouched
      /\ events' = events \/ events' \in [Sessions -> 0 .. EventLimit]
  BY FindToGiveKeeps, GiveItemKeeps, NotifyPlayerKeeps, KickPlayerKeeps
<1>2. TypedSessions'
  BY <1>1 DEF StaffUntouched, flagVars, readVars, CInv, Typed, TypedSessions
<1>3. TypedScreens'
  BY <1>1, KeepScreens DEF StaffUntouched, CInv, Typed
<1>4. ASSUME NEW r \in Sessions PROVE Orderly(r)'
  <2>1. Calm(r)
    BY <1>1 DEF StaffUntouched, Calm, flagVars, screenVars
  <2> QED BY <2>1, CalmKeeps
<1>5. Flagged'
  BY <1>4, FlaggedIsOrderly
<1> QED BY <1>1, <1>2, <1>3, <1>5, Together

LEMMA WorkStep ==
  ASSUME CInv, NEW s \in Sessions, NEW id \in Ids, Work(s, id) \/ PickupResult(s, id)
  PROVE  Rest'
<1>1. Backstage' /\ \E t : GoesOn(s, id, t)
  BY WorkKeepsBackstage, PickupResultKeeps
<1>2. UNCHANGED <<phase, flagVars, screenVars, readVars, events>>
  <2>1. CASE Work(s, id)
    BY <2>1, WorkKeeps DEF Untouched
  <2>2. CASE PickupResult(s, id)
    BY <2>2 DEF PickupResult
  <2> QED BY <2>1, <2>2
<1>3. TypedSessions' /\ TypedScreens'
  BY <1>2, KeepSessions, KeepScreens DEF CInv, Typed
<1>4. PICK t : GoesOn(s, id, t)
  BY <1>1
<1>5. /\ phase' = phase /\ pickupInFlight' = pickupInFlight /\ menuInFlight' = menuInFlight
      /\ questInFlight' = questInFlight /\ mode' = mode /\ shop' = shop /\ dialogue' = dialogue
  BY <1>2 DEF flagVars, screenVars
<1>6. Others(s)
  BY <1>4, <1>5 DEF Others, Calm, GoesOn, Sets
<1>7. Orderly(s)'
  <2>1. CASE Playing(s)
    <3>1. Calm(s)
      BY <1>4, <1>5, <2>1, NoTaskIs DEF Calm, GoesOn, Sets
    <3> QED BY <3>1, CalmKeeps
  <2>2. CASE ~Playing(s)
    <3>1. \A j \in Ids : tasks'[s][j].kind \in {tasks[s][j].kind, "none"}
      BY <1>4, NoTaskIs DEF GoesOn, Sets
    <3> QED BY <1>5, <2>2, <3>1, AwayKeeps DEF Playing
  <2> QED BY <2>1, <2>2
<1> QED BY <1>1, <1>3, <1>6, <1>7, OthersKeep, Together

(* A session goes on to another phase, and does not play in it.             *)
LEMMA PhaseStep ==
  ASSUME CInv, Backstage', NEW s \in Sessions, NEW p \in Phases \ {"playing"},
         phase' = [phase EXCEPT ![s] = p], p \in Early => phase[s] \in Early,
         UNCHANGED <<flagVars, screenVars, tasks, events>>,
         held' \in [Sessions -> Bag], newest' \in [Sessions -> Nat],
         progress' \in [Sessions -> Progress]
  PROVE  Rest'
<1>1. phase \in [Sessions -> Phases] /\ TypedSessions
  BY DEF CInv, Typed, TypedSessions
<1>2. phase'[s] = p /\ phase' \in [Sessions -> Phases] /\ \A r \in Sessions \ {s} : phase'[r] = phase[r]
  BY <1>1
<1>3. TypedSessions'
  BY <1>1, <1>2 DEF TypedSessions, flagVars
<1>4. TypedScreens'
  BY KeepScreens DEF CInv, Typed
<1>5. /\ pickupInFlight' = pickupInFlight /\ menuInFlight' = menuInFlight
      /\ questInFlight' = questInFlight /\ mode' = mode /\ shop' = shop /\ dialogue' = dialogue
      /\ tasks' = tasks
  BY DEF flagVars, screenVars
<1>6. Others(s)
  BY <1>2, <1>5 DEF Others, Calm
<1>7. Orderly(s)'
  BY <1>2, <1>5, AwayKeeps
<1> QED BY <1>3, <1>4, <1>6, <1>7, OthersKeep, Together

LEMMA SessionsAre ==
  ASSUME CInv
  PROVE  /\ held \in [Sessions -> Bag] /\ newest \in [Sessions -> Nat]
         /\ progress \in [Sessions -> Progress] /\ quest \in Progress
BY DEF CInv, Typed, TypedSessions, TypedWorld

LEMMA LoadStep ==
  ASSUME CInv, NEW s \in Sessions, Load(s)
  PROVE  Rest'
<1>1. Backstage' /\ held' \in [Sessions -> Bag] /\ newest' \in [Sessions -> Nat]
  BY LoadKeeps
<1>2. /\ UNCHANGED <<flagVars, screenVars, progress, tasks, events>>
      /\ phase[s] \in Early /\ phase' = [phase EXCEPT ![s] = "reading"]
      /\ "reading" \in Phases \ {"playing"}
  BY DEF Load, Phases, Early
<1>3. progress' \in [Sessions -> Progress]
  BY <1>2, SessionsAre
<1> QED BY <1>1, <1>2, <1>3, PhaseStep

LEMMA LoadEquipmentStep ==
  ASSUME CInv, NEW s \in Sessions, LoadEquipment(s)
  PROVE  Rest'
<1>1. Backstage' /\ held' \in [Sessions -> Bag]
  BY LoadEquipmentKeeps
<1>2. /\ UNCHANGED <<flagVars, screenVars, progress, newest, tasks, events>>
      /\ phase[s] \in Early /\ phase' = [phase EXCEPT ![s] = "loading"]
      /\ "loading" \in Phases \ {"playing"}
  BY DEF LoadEquipment, Phases, Early
<1>3. progress' \in [Sessions -> Progress] /\ newest' \in [Sessions -> Nat]
  BY <1>2, SessionsAre
<1> QED BY <1>1, <1>2, <1>3, PhaseStep

LEMMA LoadQuestsStep ==
  ASSUME CInv, NEW s \in Sessions, LoadQuests(s)
  PROVE  Rest'
<1>1. Backstage'
  BY LoadQuestsKeeps
<1>2. /\ UNCHANGED <<flagVars, screenVars, held, newest, tasks, events>>
      /\ phase[s] \in Early /\ phase' = [phase EXCEPT ![s] = "joining"]
      /\ progress' = [progress EXCEPT ![s] = quest]
      /\ "joining" \in Phases \ {"playing"}
  BY DEF LoadQuests, Phases, Early
<1>3. /\ held' \in [Sessions -> Bag] /\ newest' \in [Sessions -> Nat]
      /\ progress' \in [Sessions -> Progress]
  BY <1>2, SessionsAre
<1> QED BY <1>1, <1>2, <1>3, PhaseStep

LEMMA LoadFailsStep ==
  ASSUME CInv, NEW s \in Sessions, LoadFails(s)
  PROVE  Rest'
<1>1. Backstage'
  BY LoadFailsKeeps
<1>2. /\ UNCHANGED <<flagVars, screenVars, held, newest, progress, tasks, events>>
      /\ phase' = [phase EXCEPT ![s] = "gone"]
      /\ "gone" \in Phases \ {"playing"} /\ "gone" \notin Early
  BY DEF LoadFails, Phases, Early, readVars
<1>3. /\ held' \in [Sessions -> Bag] /\ newest' \in [Sessions -> Nat]
      /\ progress' \in [Sessions -> Progress]
  BY <1>2, SessionsAre
<1> QED BY <1>1, <1>2, <1>3, PhaseStep

LEMMA JoinStep ==
  ASSUME CInv, NEW s \in Sessions, Join(s)
  PROVE  Rest'
<1>1. Backstage'
  BY JoinKeeps
<1>2. /\ UNCHANGED <<flagVars, screenVars, readVars, tasks, events>>
      /\ phase[s] = "joining" /\ phase' = [phase EXCEPT ![s] = "playing"]
      /\ phase[s] \in Early /\ "playing" \notin Early
  BY DEF Join, Early
<1>3. phase \in [Sessions -> Phases] /\ TypedSessions
  BY DEF CInv, Typed, TypedSessions
<1>4. /\ phase'[s] = "playing" /\ phase' \in [Sessions -> Phases]
      /\ \A r \in Sessions \ {s} : phase'[r] = phase[r]
  BY <1>2, <1>3 DEF Phases
<1>5. TypedSessions' /\ TypedScreens'
  BY <1>2, <1>3, <1>4, KeepScreens DEF TypedSessions, flagVars, readVars, CInv, Typed
<1>6. /\ pickupInFlight' = pickupInFlight /\ menuInFlight' = menuInFlight
      /\ questInFlight' = questInFlight /\ mode' = mode /\ shop' = shop /\ dialogue' = dialogue
      /\ tasks' = tasks
  BY <1>2 DEF flagVars, screenVars
<1>7. Others(s)
  BY <1>4, <1>6 DEF Others, Calm
<1>8. Orderly(s)'
  <2>1. Orderly(s) /\ \A id \in Ids : tasks[s][id] = NoTask
    BY <1>2, FlaggedIsOrderly DEF CInv, Placed
  <2>2. /\ ~pickupInFlight[s] /\ ~menuInFlight[s] /\ ~questInFlight[s]
        /\ mode[s] = "game" /\ shop[s] = ShopClosed /\ dialogue[s] = NoDialogue
    BY <1>2, <2>1 DEF Orderly, FreshOf
  <2>3. ASSUME NEW kinds \in SUBSET Kinds PROVE Marks(tasks, s, kinds, FALSE)
    <3>1. \A id \in Ids : tasks[s][id].kind \notin kinds
      BY <2>1, NoTaskIs DEF Kinds, MenuKinds, TradeKinds, QuestKinds
    <3>2. UnderIn(tasks, s, kinds) = {}
      BY <3>1, Zenon DEF UnderIn
    <3> QED BY <3>2, FS_EmptySet DEF Marks
  <2>4. {"pickup"} \in SUBSET Kinds /\ MenuKinds \in SUBSET Kinds /\ QuestKinds \in SUBSET Kinds
    BY DEF Kinds
  <2>5. /\ Marks(tasks, s, {"pickup"}, FALSE) /\ Marks(tasks, s, MenuKinds, FALSE)
        /\ Marks(tasks, s, QuestKinds, FALSE)
    BY <2>3, <2>4
  <2>6. /\ Marks(tasks, s, {"pickup"}, pickupInFlight[s])
        /\ Marks(tasks, s, MenuKinds, menuInFlight[s])
        /\ Marks(tasks, s, QuestKinds, questInFlight[s])
    BY <2>2, <2>5 DEF Marks
  <2>7. ~shop[s].inFlight /\ shop[s].npc = NoNpc
    BY <2>2 DEF ShopClosed
  <2>8. FlagsOf(s)'
    BY <1>6, <2>2, <2>6, <2>7 DEF FlagsOf
  <2>9. OneMenuTaskOf(s)' /\ FreshOf(s)'
    BY <1>2, <1>4, <1>6, <2>1, <2>2 DEF Orderly, OneMenuTaskOf, FreshOf
  <2> QED BY <2>8, <2>9 DEF Orderly
<1> QED BY <1>1, <1>5, <1>7, <1>8, OthersKeep, Together

LEMMA LeaveStep ==
  ASSUME CInv, NEW s \in Sessions, Leave(s)
  PROVE  Rest'
<1>1. Backstage'
  BY LeaveKeeps
<1>2. /\ UNCHANGED <<flagVars, screenVars, held, newest, progress, tasks, events>>
      /\ phase' = [phase EXCEPT ![s] = "gone"]
      /\ "gone" \in Phases \ {"playing"} /\ "gone" \notin Early
  BY DEF Leave, Phases, Early, readVars
<1>3. /\ held' \in [Sessions -> Bag] /\ newest' \in [Sessions -> Nat]
      /\ progress' \in [Sessions -> Progress]
  BY <1>2, SessionsAre
<1> QED BY <1>1, <1>2, <1>3, PhaseStep

LEMMA ShopWithIs ==
  ASSUME TypedScreens, NEW s \in Sessions, NEW tab \in {"buy", "sell"}, NEW n \in Nat,
         NEW busy \in BOOLEAN
  PROVE  /\ ShopWith(s, tab, n, busy) \in ShopState
         /\ ShopWith(s, tab, n, busy).npc = shop[s].npc
         /\ ShopWith(s, tab, n, busy).inFlight = busy
BY DEF ShopWith, TypedScreens, ShopState

LEMMA EndStep ==
  ASSUME CInv, NEW s \in Sessions, Quit(s) \/ Kicked(s) \/ TradePanics(s)
  PROVE  Rest'
<1>1. /\ Playing(s) /\ End(s)
      /\ \E p \in {"leaving", "gone"} : phase' = [phase EXCEPT ![s] = p]
      /\ UNCHANGED <<scene, worldVars, storeVars, readVars, events, presses, gifts,
                     author, told, unaware, flagVars, mode, seen, dialogue>>
      /\ shop' = shop \/ shop' = [shop EXCEPT ![s] = ShopWith(s, shop[s].tab, shop[s].selected, TRUE)]
  BY DEF Quit, Kicked, TradePanics, Leaving, ShopBusy, screenVars
<1>2. PICK p \in {"leaving", "gone"} : phase' = [phase EXCEPT ![s] = p]
  BY <1>1
<1>3. Backstage' /\ Ends(s)
  BY <1>1, <1>2, EndingKeeps
<1>4. phase \in [Sessions -> Phases] /\ TypedSessions /\ TypedScreens
  BY DEF CInv, Typed, TypedSessions
<1>5. /\ phase'[s] = p /\ phase' \in [Sessions -> Phases] /\ p \notin Early
      /\ \A r \in Sessions \ {s} : phase'[r] = phase[r]
  BY <1>2, <1>4 DEF Phases, Early
<1>6. TypedSessions'
  BY <1>1, <1>4, <1>5 DEF TypedSessions, flagVars, readVars
<1>7. shop' \in [Sessions -> ShopState] /\ \A r \in Sessions \ {s} : shop'[r] = shop[r]
  <2>1. shop[s].tab \in {"buy", "sell"} /\ shop[s].selected \in Nat
    BY <1>4 DEF TypedScreens, ShopState
  <2>2. ShopWith(s, shop[s].tab, shop[s].selected, TRUE) \in ShopState
    BY <1>4, <2>1, ShopWithIs
  <2> QED BY <1>1, <1>4, <2>2 DEF TypedScreens
<1>8. TypedScreens'
  BY <1>1, <1>4, <1>7 DEF TypedScreens
<1>9. /\ pickupInFlight' = pickupInFlight /\ menuInFlight' = menuInFlight
      /\ questInFlight' = questInFlight /\ mode' = mode /\ dialogue' = dialogue
  BY <1>1 DEF flagVars
<1>10. Others(s)
  BY <1>3, <1>5, <1>7, <1>9 DEF Others, Calm, Ends
<1>11. Orderly(s)'
  <2>1. \A id \in Ids : tasks'[s][id].kind \in {tasks[s][id].kind, "none"}
    BY <1>3, NoTaskIs DEF Ends
  <2> QED BY <1>5, <1>9, <2>1, AwayKeeps
<1> QED BY <1>3, <1>6, <1>8, <1>10, <1>11, OthersKeep, Together

-----------------------------------------------------------------------------
(* Update. *)

LEMMA TakenIn ==
  ASSUME CInv, NEW s \in Sessions, NEW id \in Ids, NEW kinds \in SUBSET Kinds,
         Answered(s, id, kinds), TakeIn(s, tasks[s][id].bag), Done(s, id),
         UNCHANGED <<scene, worldVars, storeVars, phase, events, presses, gifts, historyVars>>
  PROVE  /\ Backstage'
         /\ held' \in [Sessions -> Bag] /\ newest' \in [Sessions -> Nat]
         /\ Differ(tasks, tasks', s, id, NoTask)
         /\ tasks[s][id].kind \in kinds
         /\ \A r \in Sessions \ {s}, j \in Ids : tasks'[r][j] = tasks[r][j]
         /\ Playing(s) /\ Orderly(s) /\ OneMenuTaskOf(s)'
<1>1. Backstage' /\ Sets(s, id, NoTask)
  BY TakingInKeeps
<1>2. held' \in [Sessions -> Bag] /\ newest' \in [Sessions -> Nat]
  BY TakeInIs
<1>3. Differ(tasks, tasks', s, id, NoTask)
  BY <1>1 DEF Sets, Differ
<1>4. \A r \in Sessions \ {s}, j \in Ids : tasks'[r][j] = tasks[r][j]
  BY <1>1 DEF Sets
<1>5. Playing(s) /\ tasks[s][id].kind \in kinds
  BY DEF Answered, At
<1>6. Orderly(s)
  BY FlaggedIsOrderly DEF CInv
<1>7. OneMenuTaskOf(s)'
  <2>1. \A j \in Ids : tasks'[s][j].kind \in MenuKinds => tasks[s][j].kind \in MenuKinds
    BY <1>1, NoTaskIs DEF Sets, MenuKinds
  <2> QED BY <1>6, <2>1 DEF Orderly, OneMenuTaskOf
<1> QED BY <1>1, <1>2, <1>3, <1>4, <1>5, <1>6, <1>7

(* What a flag should be when one command is replaced by another.           *)
Flag(all, s, id, t, kinds, flag) ==
  t.kind \in kinds \/ (flag = TRUE /\ all[s][id].kind \notin kinds)

LEMMA FlagChanges ==
  ASSUME NEW all, NEW some, NEW s \in Sessions, NEW id \in Ids, NEW t, NEW kinds,
         NEW flag \in BOOLEAN, Differ(all, some, s, id, t), Marks(all, s, kinds, flag),
         t.kind \in kinds => ~flag
  PROVE  Marks(some, s, kinds, Flag(all, s, id, t, kinds, flag))
<1>1. /\ (all[s][id].kind \in kinds <=> t.kind \in kinds) => Marks(some, s, kinds, flag)
      /\ all[s][id].kind \notin kinds /\ t.kind \in kinds /\ ~flag => Marks(some, s, kinds, TRUE)
      /\ all[s][id].kind \in kinds /\ t.kind \notin kinds => Marks(some, s, kinds, FALSE)
  BY MarksChange
<1>2. all[s][id].kind \in kinds => flag
  <2>1. SUFFICES ASSUME all[s][id].kind \in kinds, ~flag PROVE FALSE
    OBVIOUS
  <2>2. IsFiniteSet(UnderIn(all, s, kinds)) /\ Cardinality(UnderIn(all, s, kinds)) = 0
    BY <2>1, UnderFinite DEF Marks
  <2>3. UnderIn(all, s, kinds) = {}
    BY <2>2, FS_EmptySet
  <2> QED BY <2>1, <2>3 DEF UnderIn
<1>3. CASE t.kind \in kinds
  BY <1>1, <1>2, <1>3 DEF Marks, Flag
<1>4. CASE t.kind \notin kinds /\ all[s][id].kind \in kinds
  BY <1>1, <1>4 DEF Marks, Flag
<1>5. CASE t.kind \notin kinds /\ all[s][id].kind \notin kinds
  BY <1>1, <1>5 DEF Marks, Flag
<1> QED BY <1>3, <1>4, <1>5

(* A session that has taken a command's result in.                          *)
LEMMA DoneKeeps ==
  ASSUME CInv, NEW s \in Sessions, NEW id \in Ids, Playing(s), phase'[s] = phase[s],
         Differ(tasks, tasks', s, id, NoTask), OneMenuTaskOf(s)',
         pickupInFlight'[s] = IF tasks[s][id].kind = "pickup" THEN FALSE ELSE pickupInFlight[s],
         menuInFlight'[s] = IF tasks[s][id].kind \in MenuKinds THEN FALSE ELSE menuInFlight[s],
         questInFlight'[s] = IF tasks[s][id].kind \in QuestKinds THEN FALSE ELSE questInFlight[s],
         tasks[s][id].kind \in TradeKinds => ~shop'[s].inFlight,
         tasks[s][id].kind \notin TradeKinds => shop'[s].inFlight = shop[s].inFlight,
         shop'[s].npc = shop[s].npc, mode'[s] = mode[s], dialogue'[s] = dialogue[s]
  PROVE  Orderly(s)'
<1>1. /\ Marks(tasks, s, {"pickup"}, pickupInFlight[s])
      /\ Marks(tasks, s, MenuKinds, menuInFlight[s])
      /\ Marks(tasks, s, QuestKinds, questInFlight[s])
      /\ shop[s].inFlight => UnderIn(tasks, s, TradeKinds) # {}
      /\ mode[s] = "shop" <=> shop[s].npc # NoNpc
      /\ mode[s] = "dialogue" <=> dialogue[s] # NoDialogue
      /\ FreshOf(s)
  BY FlaggedIsOrderly DEF CInv, Orderly, FlagsOf
<1>2. /\ pickupInFlight[s] \in BOOLEAN /\ menuInFlight[s] \in BOOLEAN /\ questInFlight[s] \in BOOLEAN
  BY DEF CInv, Typed, TypedSessions
<1>3. NoTask.kind \notin {"pickup"} /\ NoTask.kind \notin MenuKinds /\ NoTask.kind \notin QuestKinds
  BY NoTaskIs DEF MenuKinds, QuestKinds
<1>4. Marks(tasks', s, {"pickup"}, pickupInFlight'[s])
  <2>1. Marks(tasks', s, {"pickup"}, Flag(tasks, s, id, NoTask, {"pickup"}, pickupInFlight[s]))
    BY <1>1, <1>2, <1>3, FlagChanges
  <2> QED BY <1>2, <1>3, <2>1 DEF Marks, Flag
<1>5. Marks(tasks', s, MenuKinds, menuInFlight'[s])
  <2>1. Marks(tasks', s, MenuKinds, Flag(tasks, s, id, NoTask, MenuKinds, menuInFlight[s]))
    BY <1>1, <1>2, <1>3, FlagChanges
  <2> QED BY <1>2, <1>3, <2>1 DEF Marks, Flag
<1>6. Marks(tasks', s, QuestKinds, questInFlight'[s])
  <2>1. Marks(tasks', s, QuestKinds, Flag(tasks, s, id, NoTask, QuestKinds, questInFlight[s]))
    BY <1>1, <1>2, <1>3, FlagChanges
  <2> QED BY <1>2, <1>3, <2>1 DEF Marks, Flag
<1>7. shop'[s].inFlight => UnderIn(tasks', s, TradeKinds) # {}
  <2>1. SUFFICES ASSUME shop'[s].inFlight PROVE UnderIn(tasks', s, TradeKinds) # {}
    OBVIOUS
  <2>2. tasks[s][id].kind \notin TradeKinds /\ shop[s].inFlight
    BY <2>1
  <2>3. PICK j \in Ids : tasks[s][j].kind \in TradeKinds
    BY <1>1, <2>2 DEF UnderIn
  <2>4. tasks'[s][j].kind \in TradeKinds
    BY <2>2, <2>3 DEF Differ
  <2> QED BY <2>4 DEF UnderIn
<1>8. FlagsOf(s)'
  BY <1>1, <1>4, <1>5, <1>6, <1>7 DEF FlagsOf
<1>9. FreshOf(s)'
  BY <1>1 DEF FreshOf, Playing, Early
<1> QED BY <1>8, <1>9 DEF Orderly

LEMMA Apart == {"pickup"} \cap (MenuKinds \cup TradeKinds \cup QuestKinds \cup {"reload"}) = {}
            /\ MenuKinds \cap (TradeKinds \cup QuestKinds \cup {"reload"}) = {}
            /\ TradeKinds \cap (QuestKinds \cup {"reload"}) = {}
            /\ QuestKinds \cap {"reload"} = {}
            /\ {"pickup"} \subseteq Kinds /\ {"reload"} \subseteq Kinds
            /\ MenuKinds \subseteq Kinds /\ TradeKinds \subseteq Kinds /\ QuestKinds \subseteq Kinds
BY DEF MenuKinds, TradeKinds, QuestKinds, Kinds

LEMMA ItemStoredStep ==
  ASSUME CInv, NEW s \in Sessions, NEW id \in Ids, ItemStored(s, id)
  PROVE  Rest'
<1>1. /\ Answered(s, id, {"pickup"}) /\ TakeIn(s, tasks[s][id].bag) /\ Done(s, id)
      /\ UNCHANGED <<scene, worldVars, storeVars, phase, events, presses, gifts, historyVars>>
      /\ UNCHANGED <<screenVars, progress, menuInFlight, questInFlight>>
      /\ pickupInFlight' = [pickupInFlight EXCEPT ![s] = FALSE]
  BY DEF ItemStored, FinishedPickup
<1>2. {"pickup"} \in SUBSET Kinds
  BY Apart
<1>3. /\ Backstage'
      /\ held' \in [Sessions -> Bag] /\ newest' \in [Sessions -> Nat]
      /\ Differ(tasks, tasks', s, id, NoTask)
      /\ tasks[s][id].kind \in {"pickup"}
      /\ \A r \in Sessions \ {s}, j \in Ids : tasks'[r][j] = tasks[r][j]
      /\ Playing(s) /\ OneMenuTaskOf(s)'
  BY <1>1, <1>2, TakenIn
<1>4. TypedSessions /\ TypedScreens
  BY DEF CInv, Typed
<1>5. /\ pickupInFlight' \in [Sessions -> BOOLEAN] /\ ~pickupInFlight'[s]
      /\ \A r \in Sessions \ {s} : pickupInFlight'[r] = pickupInFlight[r]
  BY <1>1, <1>4 DEF TypedSessions
<1>6. TypedSessions' /\ TypedScreens'
  BY <1>1, <1>3, <1>4, <1>5, KeepScreens DEF TypedSessions
<1>7. /\ phase' = phase /\ mode' = mode /\ shop' = shop /\ dialogue' = dialogue
      /\ menuInFlight' = menuInFlight /\ questInFlight' = questInFlight
  BY <1>1 DEF screenVars
<1>8. Others(s)
  BY <1>3, <1>5, <1>7 DEF Others, Calm
<1>9. Orderly(s)'
  BY <1>3, <1>5, <1>7, Apart, DoneKeeps
<1> QED BY <1>3, <1>6, <1>8, <1>9, OthersKeep, Together

LEMMA InventoryUsedStep ==
  ASSUME CInv, NEW s \in Sessions, NEW id \in Ids, InventoryUsed(s, id)
  PROVE  Rest'
<1>1. /\ Answered(s, id, MenuKinds) /\ TakeIn(s, tasks[s][id].bag) /\ Done(s, id)
      /\ UNCHANGED <<scene, worldVars, storeVars, phase, events, presses, gifts, historyVars>>
      /\ UNCHANGED <<screenVars, progress, pickupInFlight, questInFlight>>
      /\ menuInFlight' = [menuInFlight EXCEPT ![s] = FALSE]
  BY DEF InventoryUsed
<1>2. MenuKinds \in SUBSET Kinds
  BY Apart
<1>3. /\ Backstage'
      /\ held' \in [Sessions -> Bag] /\ newest' \in [Sessions -> Nat]
      /\ Differ(tasks, tasks', s, id, NoTask)
      /\ tasks[s][id].kind \in MenuKinds
      /\ \A r \in Sessions \ {s}, j \in Ids : tasks'[r][j] = tasks[r][j]
      /\ Playing(s) /\ OneMenuTaskOf(s)'
  BY <1>1, <1>2, TakenIn
<1>4. TypedSessions /\ TypedScreens
  BY DEF CInv, Typed
<1>5. /\ menuInFlight' \in [Sessions -> BOOLEAN] /\ ~menuInFlight'[s]
      /\ \A r \in Sessions \ {s} : menuInFlight'[r] = menuInFlight[r]
  BY <1>1, <1>4 DEF TypedSessions
<1>6. TypedSessions' /\ TypedScreens'
  BY <1>1, <1>3, <1>4, <1>5, KeepScreens DEF TypedSessions
<1>7. /\ phase' = phase /\ mode' = mode /\ shop' = shop /\ dialogue' = dialogue
      /\ pickupInFlight' = pickupInFlight /\ questInFlight' = questInFlight
  BY <1>1 DEF screenVars
<1>8. Others(s)
  BY <1>3, <1>5, <1>7 DEF Others, Calm
<1>9. Orderly(s)'
  BY <1>3, <1>5, <1>7, Apart, DoneKeeps
<1> QED BY <1>3, <1>6, <1>8, <1>9, OthersKeep, Together

LEMMA SellEntriesFinite ==
  ASSUME NEW b
  PROVE  /\ SellEntries(b) \subseteq Slots /\ IsFiniteSet(SellEntries(b))
         /\ Cardinality(SellEntries(b)) \in Nat
<1>1. SellEntries(b) \subseteq Slots
  BY DEF SellEntries
<1> QED BY <1>1, SlotsFinite, FS_Subset, FS_CardinalityType

LEMMA ClampedIs ==
  ASSUME NEW s \in Sessions, NEW b, TypedScreens
  PROVE  Clamped(s, b) \in Nat
<1> DEFINE last == Cardinality(SellEntries(b)) - 1
           least == Min({shop[s].selected, last})
<1>1. shop[s].selected \in Int /\ last \in Int /\ shop[s].selected \in Nat
  BY SellEntriesFinite DEF TypedScreens, ShopState
<1> HIDE DEF last
<1>2. least \in Int
  BY <1>1, MinOfTwo
<1> HIDE DEF least
<1>3. 0 \in Int /\ Max({0, least}) \in Int /\ Max({0, least}) >= 0
  BY <1>2, MaxOfTwo
<1> QED BY <1>1, <1>3 DEF Clamped, least, last

LEMMA ShopTradeStep ==
  ASSUME CInv, NEW s \in Sessions, NEW id \in Ids, ShopTrade(s, id)
  PROVE  Rest'
<1> DEFINE n == IF tasks[s][id].bag = NoBag THEN shop[s].selected
                ELSE Clamped(s, tasks[s][id].bag)
           new == ShopWith(s, shop[s].tab, n, FALSE)
<1>1. /\ Answered(s, id, TradeKinds) /\ TakeIn(s, tasks[s][id].bag) /\ Done(s, id)
      /\ UNCHANGED <<scene, worldVars, storeVars, phase, events, presses, gifts, historyVars>>
      /\ UNCHANGED <<flagVars, mode, seen, dialogue, progress>>
      /\ shop' = [shop EXCEPT ![s] = new]
  BY DEF ShopTrade
<1>2. TradeKinds \in SUBSET Kinds
  BY Apart
<1>3. /\ Backstage'
      /\ held' \in [Sessions -> Bag] /\ newest' \in [Sessions -> Nat]
      /\ Differ(tasks, tasks', s, id, NoTask)
      /\ tasks[s][id].kind \in TradeKinds
      /\ \A r \in Sessions \ {s}, j \in Ids : tasks'[r][j] = tasks[r][j]
      /\ Playing(s) /\ OneMenuTaskOf(s)'
  BY <1>1, <1>2, TakenIn
<1>4. TypedSessions /\ TypedScreens
  BY DEF CInv, Typed
<1>5. n \in Nat /\ shop[s].tab \in {"buy", "sell"} /\ FALSE \in BOOLEAN
  BY <1>4, ClampedIs DEF TypedScreens, ShopState
<1> HIDE DEF n
<1>6. new \in ShopState /\ new.npc = shop[s].npc /\ new.inFlight = FALSE
  BY <1>4, <1>5, ShopWithIs
<1> HIDE DEF new
<1>7. /\ shop' \in [Sessions -> ShopState] /\ shop'[s] = new
      /\ \A r \in Sessions \ {s} : shop'[r] = shop[r]
  BY <1>1, <1>4, <1>6 DEF TypedScreens
<1>8. TypedSessions' /\ TypedScreens'
  BY <1>1, <1>3, <1>4, <1>7 DEF TypedSessions, TypedScreens, flagVars
<1>9. /\ phase' = phase /\ mode' = mode /\ dialogue' = dialogue /\ pickupInFlight' = pickupInFlight
      /\ menuInFlight' = menuInFlight /\ questInFlight' = questInFlight
  BY <1>1 DEF flagVars
<1>10. Others(s)
  BY <1>3, <1>7, <1>9 DEF Others, Calm
<1>11. ~shop'[s].inFlight /\ shop'[s].npc = shop[s].npc
  BY <1>6, <1>7
<1>12. Orderly(s)'
  BY <1>3, <1>9, <1>11, Apart, DoneKeeps
<1> QED BY <1>3, <1>8, <1>10, <1>12, OthersKeep, Together

LEMMA QuestInteractionStep ==
  ASSUME CInv, NEW s \in Sessions, NEW id \in Ids, QuestInteraction(s, id)
  PROVE  Rest'
<1>1. /\ Answered(s, id, QuestKinds) /\ TakeIn(s, tasks[s][id].bag) /\ Done(s, id)
      /\ UNCHANGED <<scene, worldVars, storeVars, phase, events, presses, gifts, historyVars>>
      /\ UNCHANGED <<screenVars, pickupInFlight, menuInFlight>>
      /\ questInFlight' = [questInFlight EXCEPT ![s] = FALSE]
      /\ progress' = [progress EXCEPT ![s] = IF tasks[s][id].quest = "untracked" THEN @
                                             ELSE tasks[s][id].quest]
  BY DEF QuestInteraction
<1>2. QuestKinds \in SUBSET Kinds
  BY Apart
<1>3. /\ Backstage'
      /\ held' \in [Sessions -> Bag] /\ newest' \in [Sessions -> Nat]
      /\ Differ(tasks, tasks', s, id, NoTask)
      /\ tasks[s][id].kind \in QuestKinds
      /\ \A r \in Sessions \ {s}, j \in Ids : tasks'[r][j] = tasks[r][j]
      /\ Playing(s) /\ OneMenuTaskOf(s)'
  BY <1>1, <1>2, TakenIn
<1>4. TypedSessions /\ TypedScreens
  BY DEF CInv, Typed
<1>5. /\ questInFlight' \in [Sessions -> BOOLEAN] /\ ~questInFlight'[s]
      /\ \A r \in Sessions \ {s} : questInFlight'[r] = questInFlight[r]
  BY <1>1, <1>4 DEF TypedSessions
<1>6. tasks[s][id].quest \in Progress
  <2>1. tasks[s][id] \in Commands /\ tasks[s][id] # NoTask
    BY <1>3, NoTaskIs DEF CInv, Typed, TypedTasks, QuestKinds
  <2> QED BY <2>1 DEF Commands, Task
<1>7. progress' \in [Sessions -> Progress]
  BY <1>1, <1>4, <1>6 DEF TypedSessions
<1>8. TypedSessions' /\ TypedScreens'
  BY <1>1, <1>3, <1>4, <1>5, <1>7, KeepScreens DEF TypedSessions
<1>9. /\ phase' = phase /\ mode' = mode /\ shop' = shop /\ dialogue' = dialogue
      /\ pickupInFlight' = pickupInFlight /\ menuInFlight' = menuInFlight
  BY <1>1 DEF screenVars
<1>10. Others(s)
  BY <1>3, <1>5, <1>9 DEF Others, Calm
<1>11. Orderly(s)'
  BY <1>3, <1>5, <1>9, Apart, DoneKeeps
<1> QED BY <1>3, <1>8, <1>10, <1>11, OthersKeep, Together

LEMMA InventoryReloadedStep ==
  ASSUME CInv, NEW s \in Sessions, NEW id \in Ids, InventoryReloaded(s, id)
  PROVE  Rest'
<1>1. /\ Answered(s, id, {"reload"}) /\ TakeIn(s, tasks[s][id].bag) /\ Done(s, id)
      /\ UNCHANGED <<scene, worldVars, storeVars, phase, events, presses, gifts, historyVars>>
      /\ UNCHANGED <<flagVars, screenVars, progress>>
  BY DEF InventoryReloaded
<1>2. {"reload"} \in SUBSET Kinds
  BY Apart
<1>3. /\ Backstage'
      /\ held' \in [Sessions -> Bag] /\ newest' \in [Sessions -> Nat]
      /\ Differ(tasks, tasks', s, id, NoTask)
      /\ tasks[s][id].kind \in {"reload"}
      /\ \A r \in Sessions \ {s}, j \in Ids : tasks'[r][j] = tasks[r][j]
      /\ Playing(s) /\ OneMenuTaskOf(s)'
  BY <1>1, <1>2, TakenIn
<1>4. TypedSessions /\ TypedScreens
  BY DEF CInv, Typed
<1>5. TypedSessions' /\ TypedScreens'
  BY <1>1, <1>3, <1>4, KeepScreens DEF TypedSessions, flagVars
<1>6. /\ phase' = phase /\ mode' = mode /\ shop' = shop /\ dialogue' = dialogue
      /\ pickupInFlight' = pickupInFlight /\ menuInFlight' = menuInFlight
      /\ questInFlight' = questInFlight
  BY <1>1 DEF screenVars, flagVars
<1>7. Others(s)
  BY <1>3, <1>6 DEF Others, Calm
<1>8. Orderly(s)'
  BY <1>3, <1>6, Apart, DoneKeeps
<1> QED BY <1>3, <1>5, <1>7, <1>8, OthersKeep, Together

LEMMA UpdateStep ==
  ASSUME CInv, NEW s \in Sessions, NEW id \in Ids, Update(s, id)
  PROVE  Rest'
BY WorkStep, ItemStoredStep, InventoryUsedStep, ShopTradeStep, QuestInteractionStep,
   InventoryReloadedStep DEF Update

-----------------------------------------------------------------------------
(* Keys, events and snapshots. *)

(* A session that has started a command.                                    *)
LEMMA StartedKeeps ==
  ASSUME CInv, NEW s \in Sessions, NEW id \in Ids, NEW t, Playing(s), phase'[s] = phase[s],
         tasks[s][id] = NoTask, Differ(tasks, tasks', s, id, t),
         t.kind = "pickup" => ~pickupInFlight[s],
         t.kind \in MenuKinds => ~menuInFlight[s],
         t.kind \in QuestKinds => ~questInFlight[s],
         pickupInFlight'[s] = IF t.kind = "pickup" THEN TRUE ELSE pickupInFlight[s],
         menuInFlight'[s] = IF t.kind \in MenuKinds THEN TRUE ELSE menuInFlight[s],
         questInFlight'[s] = IF t.kind \in QuestKinds THEN TRUE ELSE questInFlight[s],
         t.kind \notin TradeKinds => shop'[s].inFlight = shop[s].inFlight,
         shop'[s].npc = shop[s].npc, mode'[s] = "shop" <=> mode[s] = "shop",
         mode'[s] = "dialogue" <=> dialogue'[s] # NoDialogue,
         mode'[s] = "dialogue" => ~questInFlight'[s]
  PROVE  Orderly(s)'
<1>1. /\ Marks(tasks, s, {"pickup"}, pickupInFlight[s])
      /\ Marks(tasks, s, MenuKinds, menuInFlight[s])
      /\ Marks(tasks, s, QuestKinds, questInFlight[s])
      /\ shop[s].inFlight => UnderIn(tasks, s, TradeKinds) # {}
      /\ mode[s] = "shop" <=> shop[s].npc # NoNpc
      /\ FreshOf(s) /\ OneMenuTaskOf(s)
  BY FlaggedIsOrderly DEF CInv, Orderly, FlagsOf
<1>2. /\ pickupInFlight[s] \in BOOLEAN /\ menuInFlight[s] \in BOOLEAN /\ questInFlight[s] \in BOOLEAN
  BY DEF CInv, Typed, TypedSessions
<1>3. /\ tasks[s][id].kind \notin {"pickup"} /\ tasks[s][id].kind \notin MenuKinds
      /\ tasks[s][id].kind \notin QuestKinds /\ tasks[s][id].kind \notin TradeKinds
  BY NoTaskIs DEF MenuKinds, QuestKinds, TradeKinds
<1>4. t.kind \in {"pickup"} => ~pickupInFlight[s]
  OBVIOUS
<1>5. Marks(tasks', s, {"pickup"}, pickupInFlight'[s])
  <2>1. Marks(tasks', s, {"pickup"}, Flag(tasks, s, id, t, {"pickup"}, pickupInFlight[s]))
    BY <1>1, <1>2, <1>4, FlagChanges
  <2> QED BY <1>2, <1>3, <2>1 DEF Marks, Flag
<1>6. Marks(tasks', s, MenuKinds, menuInFlight'[s])
  <2>1. Marks(tasks', s, MenuKinds, Flag(tasks, s, id, t, MenuKinds, menuInFlight[s]))
    BY <1>1, <1>2, FlagChanges
  <2> QED BY <1>2, <1>3, <2>1 DEF Marks, Flag
<1>7. Marks(tasks', s, QuestKinds, questInFlight'[s])
  <2>1. Marks(tasks', s, QuestKinds, Flag(tasks, s, id, t, QuestKinds, questInFlight[s]))
    BY <1>1, <1>2, FlagChanges
  <2> QED BY <1>2, <1>3, <2>1 DEF Marks, Flag
<1>8. \A j \in Ids : tasks'[s][j] = IF j = id THEN t ELSE tasks[s][j]
  BY DEF Differ
<1>9. shop'[s].inFlight => UnderIn(tasks', s, TradeKinds) # {}
  <2>1. SUFFICES ASSUME shop'[s].inFlight PROVE \E j \in Ids : tasks'[s][j].kind \in TradeKinds
    BY DEF UnderIn
  <2>2. CASE t.kind \in TradeKinds
    BY <1>8, <2>2
  <2>3. CASE t.kind \notin TradeKinds
    <3>1. PICK j \in Ids : tasks[s][j].kind \in TradeKinds
      BY <1>1, <2>1, <2>3 DEF UnderIn
    <3> QED BY <1>3, <1>8, <3>1
  <2> QED BY <2>2, <2>3
<1>10. FlagsOf(s)'
  BY <1>1, <1>5, <1>6, <1>7, <1>9 DEF FlagsOf
<1>11. OneMenuTaskOf(s)'
  <2>1. CASE t.kind \notin MenuKinds
    <3>1. \A j \in Ids : tasks'[s][j].kind \in MenuKinds => tasks[s][j].kind \in MenuKinds
      BY <1>8, <2>1
    <3> QED BY <1>1, <3>1 DEF OneMenuTaskOf
  <2>2. CASE t.kind \in MenuKinds
    <3>1. Cardinality(UnderIn(tasks, s, MenuKinds)) = 0
      BY <1>1, <2>2 DEF Marks
    <3>2. UnderIn(tasks, s, MenuKinds) = {}
      BY <3>1, UnderFinite, FS_EmptySet
    <3>3. \A j \in Ids : tasks[s][j].kind \notin MenuKinds
      BY <3>2 DEF UnderIn
    <3> QED BY <1>8, <3>3 DEF OneMenuTaskOf
  <2> QED BY <2>1, <2>2
<1>12. FreshOf(s)'
  BY DEF FreshOf, Playing, Early
<1> QED BY <1>10, <1>11, <1>12 DEF Orderly

LEMMA WorldEventStep ==
  ASSUME CInv, NEW s \in Sessions, WorldEvent(s)
  PROVE  Rest'
<1>1. /\ Backstage' /\ events' \in [Sessions -> 0 .. EventLimit]
      /\ \E id \in Ids : \E t : tasks[s][id] = NoTask /\ Sets(s, id, t) /\ t.kind = "reload"
  BY WorldEventKeeps
<1>2. PICK id \in Ids : \E t : tasks[s][id] = NoTask /\ Sets(s, id, t) /\ t.kind = "reload"
  BY <1>1
<1>3. PICK t : tasks[s][id] = NoTask /\ Sets(s, id, t) /\ t.kind = "reload"
  BY <1>2
<1>4. Playing(s) /\ UNCHANGED <<phase, flagVars, screenVars, readVars>>
  BY DEF WorldEvent
<1>5. TypedSessions' /\ TypedScreens'
  BY <1>1, <1>4, KeepScreens DEF CInv, Typed, TypedSessions, flagVars, readVars
<1>6. /\ phase' = phase /\ pickupInFlight' = pickupInFlight /\ menuInFlight' = menuInFlight
      /\ questInFlight' = questInFlight /\ mode' = mode /\ shop' = shop /\ dialogue' = dialogue
  BY <1>4 DEF flagVars, screenVars
<1>7. Others(s)
  BY <1>3, <1>6 DEF Others, Calm, Sets
<1>8. Differ(tasks, tasks', s, id, t)
  BY <1>3 DEF Sets, Differ
<1>9. /\ t.kind # "pickup" /\ t.kind \notin MenuKinds /\ t.kind \notin QuestKinds
      /\ t.kind \notin TradeKinds
  BY <1>3, Apart
<1>10. /\ mode[s] = "dialogue" <=> dialogue[s] # NoDialogue
       /\ mode[s] = "dialogue" => ~questInFlight[s]
  BY <1>4, FlaggedIsOrderly DEF CInv, Orderly, FlagsOf, FreshOf
<1>11. Orderly(s)'
  BY <1>3, <1>4, <1>6, <1>8, <1>9, <1>10, StartedKeeps
<1> QED BY <1>1, <1>5, <1>7, <1>11, OthersKeep, Together

(* What the keys start. *)
LEMMA NewTaskIs ==
  ASSUME NEW kind \in Kinds, NEW step \in Steps, NEW item \in Items \cup {NoItem},
         NEW slot \in Slots \cup {0}
  PROVE  LET t == NewTask(kind, step, item, slot) IN
           /\ t \in Task /\ t.kind = kind /\ t.step = step /\ t.item = item /\ t.slot = slot
           /\ t.bag = NoBag /\ t.draft = NoDraft
BY NoDraftIs DEF NewTask, Task, Progress

LEMMA PressFacts ==
  ASSUME CInv, NEW s \in Sessions, NEW key, CanPress(s, key)
  PROVE  Playing(s) /\ presses' \in Nat
BY DEF CanPress, CInv, Typed, TypedWorld

(* Nothing happens on the other screens.                                    *)
Elsewhere(s) ==
  \A r \in Sessions \ {s} :
    /\ pickupInFlight'[r] = pickupInFlight[r]
    /\ menuInFlight'[r] = menuInFlight[r]
    /\ questInFlight'[r] = questInFlight[r]
    /\ mode'[r] = mode[r] /\ shop'[r] = shop[r] /\ dialogue'[r] = dialogue[r]

LEMMA PressStep ==
  ASSUME CInv, NEW s \in Sessions, Playing(s), NEW t \in Commands, Start(s, t),
         t.step \in {"ask", "call"}, t.kind = "pickup" => t.step = "ask", t.bag = NoBag,
         UNCHANGED <<scene, worldVars, storeVars, phase, readVars, events, gifts, historyVars>>,
         presses' \in Nat, TypedSessions', TypedScreens', Elsewhere(s),
         t.kind = "pickup" => ~pickupInFlight[s],
         t.kind \in MenuKinds => ~menuInFlight[s],
         t.kind \in QuestKinds => ~questInFlight[s],
         pickupInFlight'[s] = IF t.kind = "pickup" THEN TRUE ELSE pickupInFlight[s],
         menuInFlight'[s] = IF t.kind \in MenuKinds THEN TRUE ELSE menuInFlight[s],
         questInFlight'[s] = IF t.kind \in QuestKinds THEN TRUE ELSE questInFlight[s],
         t.kind \notin TradeKinds => shop'[s].inFlight = shop[s].inFlight,
         shop'[s].npc = shop[s].npc, mode'[s] = "shop" <=> mode[s] = "shop",
         mode'[s] = "dialogue" <=> dialogue'[s] # NoDialogue,
         mode'[s] = "dialogue" => ~questInFlight'[s]
  PROVE  Rest'
<1>1. Backstage' /\ \E id \in Ids : tasks[s][id] = NoTask /\ Sets(s, id, t)
  BY PressKeeps
<1>2. PICK id \in Ids : tasks[s][id] = NoTask /\ Sets(s, id, t)
  BY <1>1
<1>3. phase' = phase /\ Differ(tasks, tasks', s, id, t)
  BY <1>2 DEF Sets, Differ
<1>4. Others(s)
  BY <1>2, <1>3 DEF Others, Calm, Sets, Elsewhere
<1>5. phase'[s] = phase[s] /\ tasks[s][id] = NoTask
  BY <1>2, <1>3
<1>6. Orderly(s)'
  BY <1>3, <1>5, StartedKeeps
<1> QED BY <1>1, <1>4, <1>6, OthersKeep, Together

LEMMA ScreenFacts ==
  ASSUME CInv, NEW s \in Sessions
  PROVE  /\ TypedSessions /\ TypedScreens /\ held[s] \in Bag
         /\ Playing(s) => (mode[s] = "shop" <=> shop[s].npc # NoNpc)
         /\ Playing(s) => (mode[s] = "dialogue" <=> dialogue[s] # NoDialogue)
         /\ mode[s] = "dialogue" => ~questInFlight[s]
         /\ shop[s] \in ShopState
BY FlaggedIsOrderly DEF CInv, Orderly, FlagsOf, FreshOf, Typed, TypedSessions, TypedScreens

LEMMA PickupStep ==
  ASSUME CInv, NEW s \in Sessions, Pickup(s)
  PROVE  Rest'
<1> DEFINE t == NewTask("pickup", "ask", NoItem, 0)
<1>1. /\ mode[s] = "game" /\ ~pickupInFlight[s] /\ CanPress(s, "pickup") /\ Start(s, t)
      /\ pickupInFlight' = [pickupInFlight EXCEPT ![s] = TRUE]
      /\ UNCHANGED <<scene, worldVars, storeVars, phase, readVars, events, gifts, historyVars>>
      /\ UNCHANGED <<menuInFlight, questInFlight, screenVars>>
  BY DEF Pickup
<1>2. Playing(s) /\ presses' \in Nat
  BY <1>1, PressFacts
<1>3. /\ t \in Task /\ t.kind = "pickup" /\ t.step = "ask" /\ t.bag = NoBag /\ t.draft = NoDraft
  <2>1. /\ "pickup" \in Kinds /\ "ask" \in Steps /\ NoItem \in Items \cup {NoItem}
        /\ 0 \in Slots \cup {0}
    BY DEF Kinds, Steps
  <2> QED BY <2>1, NewTaskIs
<1> HIDE DEF t
<1>4. t \in Commands
  BY <1>3, PlainTyped DEF Route
<1>5. TypedSessions /\ TypedScreens
  BY ScreenFacts
<1>6. /\ pickupInFlight' \in [Sessions -> BOOLEAN] /\ pickupInFlight'[s] = TRUE
      /\ \A r \in Sessions \ {s} : pickupInFlight'[r] = pickupInFlight[r]
  BY <1>1, <1>5 DEF TypedSessions
<1>7. /\ mode' = mode /\ shop' = shop /\ dialogue' = dialogue
      /\ menuInFlight' = menuInFlight /\ questInFlight' = questInFlight
  BY <1>1 DEF screenVars
<1>8. TypedSessions' /\ TypedScreens'
  BY <1>1, <1>5, <1>6, KeepScreens DEF TypedSessions, readVars
<1>9. Elsewhere(s)
  BY <1>6, <1>7 DEF Elsewhere
<1>10. /\ mode[s] = "dialogue" <=> dialogue[s] # NoDialogue
       /\ mode[s] = "dialogue" => ~questInFlight[s]
  BY <1>2, ScreenFacts
<1>11. t.kind \notin MenuKinds /\ t.kind \notin QuestKinds /\ t.kind \notin TradeKinds
  BY <1>3, Apart
<1> QED BY <1>1, <1>2, <1>3, <1>4, <1>6, <1>7, <1>8, <1>9, <1>10, <1>11, PressStep

LEMMA UseSelectedStep ==
  ASSUME CInv, NEW s \in Sessions, UseSelected(s)
  PROVE  Rest'
<1>1. /\ mode[s] = "inventory" /\ ~menuInFlight[s] /\ CanPress(s, "use")
      /\ \E i \in Slots : held[s].stacks[i] \in Consumables \cup Wearables /\ Start(s, MenuTask(s, i))
      /\ menuInFlight' = [menuInFlight EXCEPT ![s] = TRUE]
      /\ UNCHANGED <<scene, worldVars, storeVars, phase, readVars, events, gifts, historyVars>>
      /\ UNCHANGED <<pickupInFlight, questInFlight, screenVars>>
  BY DEF UseSelected, MenuFree
<1>2. PICK i \in Slots : /\ held[s].stacks[i] \in Consumables \cup Wearables
                         /\ Start(s, MenuTask(s, i))
  BY <1>1
<1> DEFINE t == MenuTask(s, i)
           item == held[s].stacks[i]
           kind == IF item \in Consumables THEN "consume"
                   ELSE IF held[s].worn = i THEN "unequip" ELSE "equip"
<1>3. Playing(s) /\ presses' \in Nat
  BY <1>1, PressFacts
<1>4. /\ kind \in Kinds /\ "call" \in Steps /\ item \in Items \cup {NoItem} /\ i \in Slots \cup {0}
      /\ t = NewTask(kind, "call", item, i)
  BY <1>2, ItemsAssumption DEF Kinds, Steps, MenuKinds, MenuTask
<1> HIDE DEF t, kind, item
<1>5. /\ t \in Task /\ t.kind = kind /\ t.step = "call" /\ t.bag = NoBag
      /\ t.item = item /\ t.slot = i /\ t.draft = NoDraft
  BY <1>4, NewTaskIs
<1>6. /\ kind \in MenuKinds
      /\ kind = "consume" => item \in Consumables
      /\ kind = "equip" => item \in Wearables
  BY <1>2 DEF MenuKinds, kind, item
<1>7. t \in Commands
  <2>1. Route(t)
    BY <1>5, <1>6 DEF Route, MenuKinds
  <2> QED BY <1>5, <2>1, PlainTyped
<1>8. TypedSessions /\ TypedScreens
  BY ScreenFacts
<1>9. /\ menuInFlight' \in [Sessions -> BOOLEAN] /\ menuInFlight'[s] = TRUE
      /\ \A r \in Sessions \ {s} : menuInFlight'[r] = menuInFlight[r]
  BY <1>1, <1>8 DEF TypedSessions
<1>10. /\ mode' = mode /\ shop' = shop /\ dialogue' = dialogue
       /\ pickupInFlight' = pickupInFlight /\ questInFlight' = questInFlight
  BY <1>1 DEF screenVars
<1>11. TypedSessions' /\ TypedScreens'
  BY <1>1, <1>8, <1>9, KeepScreens DEF TypedSessions, readVars
<1>12. Elsewhere(s)
  BY <1>9, <1>10 DEF Elsewhere
<1>13. /\ mode[s] = "dialogue" <=> dialogue[s] # NoDialogue
       /\ mode[s] = "dialogue" => ~questInFlight[s]
  BY <1>3, ScreenFacts
<1>14. t.kind \in MenuKinds /\ t.kind # "pickup" /\ t.kind \notin QuestKinds /\ t.kind \notin TradeKinds
  BY <1>5, <1>6, Apart
<1>15. Start(s, t)
  BY <1>2 DEF t
<1> QED BY <1>1, <1>3, <1>5, <1>7, <1>9, <1>10, <1>11, <1>12, <1>13, <1>14, <1>15, PressStep

LEMMA AnswerDialogueStep ==
  ASSUME CInv, NEW s \in Sessions, AnswerDialogue(s)
  PROVE  Rest'
<1> DEFINE kind == IF dialogue[s].kind = "offer" THEN "accept" ELSE "complete"
           t == NewTask(kind, "call", Objective, 0)
<1>1. /\ mode[s] = "dialogue" /\ CanPress(s, "quest") /\ Start(s, t)
      /\ questInFlight' = [questInFlight EXCEPT ![s] = TRUE]
      /\ dialogue' = [dialogue EXCEPT ![s] = NoDialogue]
      /\ mode' = [mode EXCEPT ![s] = "game"]
      /\ UNCHANGED <<scene, worldVars, storeVars, phase, readVars, events, gifts, historyVars>>
      /\ UNCHANGED <<pickupInFlight, menuInFlight, seen, shop>>
  BY DEF AnswerDialogue, LeaveDialogue
<1>2. Playing(s) /\ presses' \in Nat
  BY <1>1, PressFacts
<1>3. kind \in QuestKinds /\ kind \in Kinds /\ "call" \in Steps /\ Objective \in Items \cup {NoItem}
  BY ItemsAssumption DEF QuestKinds, Kinds, Steps
<1> HIDE DEF kind
<1>4. /\ t \in Task /\ t.kind = kind /\ t.step = "call" /\ t.bag = NoBag /\ t.item = Objective
      /\ t.draft = NoDraft
  BY <1>3, NewTaskIs
<1> HIDE DEF t
<1>5. t \in Commands
  <2>1. Route(t)
    BY <1>3, <1>4 DEF Route
  <2> QED BY <1>4, <2>1, PlainTyped
<1>6. TypedSessions /\ TypedScreens
  BY ScreenFacts
<1>7. /\ questInFlight' \in [Sessions -> BOOLEAN] /\ questInFlight'[s] = TRUE
      /\ \A r \in Sessions \ {s} : questInFlight'[r] = questInFlight[r]
  BY <1>1, <1>6 DEF TypedSessions
<1>8. /\ mode' \in [Sessions -> Modes] /\ mode'[s] = "game"
      /\ \A r \in Sessions \ {s} : mode'[r] = mode[r]
  BY <1>1, <1>6 DEF TypedScreens, Modes
<1>9. /\ dialogue' \in [Sessions -> Dialogue \cup {NoDialogue}] /\ dialogue'[s] = NoDialogue
      /\ \A r \in Sessions \ {s} : dialogue'[r] = dialogue[r]
  BY <1>1, <1>6 DEF TypedScreens
<1>10. TypedSessions' /\ TypedScreens'
  BY <1>1, <1>6, <1>7, <1>8, <1>9 DEF TypedSessions, TypedScreens, readVars
<1>11. Elsewhere(s)
  BY <1>1, <1>7, <1>8, <1>9 DEF Elsewhere
<1>12. mode[s] = "dialogue" => ~questInFlight[s]
  BY ScreenFacts
<1>13. t.kind \in QuestKinds /\ t.kind # "pickup" /\ t.kind \notin MenuKinds /\ t.kind \notin TradeKinds
  BY <1>3, <1>4, Apart
<1>14. /\ pickupInFlight'[s] = pickupInFlight[s] /\ menuInFlight'[s] = menuInFlight[s]
       /\ shop'[s] = shop[s] /\ ~questInFlight[s]
       /\ mode'[s] = "shop" <=> mode[s] = "shop"
       /\ mode'[s] = "dialogue" <=> dialogue'[s] # NoDialogue
       /\ mode'[s] = "dialogue" => ~questInFlight'[s]
  BY <1>1, <1>8, <1>9, <1>12
<1> QED BY <1>1, <1>2, <1>4, <1>5, <1>7, <1>10, <1>11, <1>13, <1>14, PressStep

LEMMA EntryIs ==
  ASSUME NEW b \in Bag, NEW n \in Nat, n < Cardinality(SellEntries(b))
  PROVE  Entry(b, n) \in Slots /\ b.stacks[Entry(b, n)] \in Items
<1> DEFINE S == SellEntries(b)
<1>1. S \subseteq Nat /\ IsFiniteSet(S) /\ n < Cardinality(S)
  BY SellEntriesFinite DEF Slots
<1>2. \E i \in S : Cardinality({j \in S : j < i}) = n
  <2> HIDE DEF S
  <2> QED BY <1>1, Ranked
<1>3. Entry(b, n) \in S
  BY <1>2 DEF Entry
<1> QED BY <1>3, ItemsAssumption DEF SellEntries

LEMMA TradeStep ==
  ASSUME CInv, NEW s \in Sessions, Trade(s)
  PROVE  Rest'
<1> DEFINE new == ShopWith(s, shop[s].tab, shop[s].selected, TRUE)
<1>1. /\ mode[s] = "shop" /\ CanPress(s, "shop")
      /\ shop' = [shop EXCEPT ![s] = new]
      /\ UNCHANGED <<scene, worldVars, storeVars, phase, readVars, events, gifts, historyVars>>
      /\ UNCHANGED <<flagVars, mode, seen, dialogue>>
  BY DEF Trade, ShopBusy
<1>2. Playing(s) /\ presses' \in Nat
  BY <1>1, PressFacts
<1>3. TypedSessions /\ TypedScreens /\ held[s] \in Bag /\ shop[s] \in ShopState
  BY ScreenFacts
<1>4. "call" \in Steps /\ 0 \in Slots \cup {0} /\ "buy" \in Kinds /\ "sell" \in Kinds
  BY DEF Steps, Kinds, TradeKinds
<1>5. PICK t : /\ Start(s, t) /\ t \in Commands /\ t.kind \in TradeKinds /\ t.step = "call"
               /\ t.bag = NoBag
  <2>1. CASE \E item \in Stock : Start(s, NewTask("buy", "call", item, 0))
    <3>1. PICK item \in Stock : Start(s, NewTask("buy", "call", item, 0))
      BY <2>1
    <3> DEFINE t == NewTask("buy", "call", item, 0)
    <3>2. item \in Items /\ item \in Items \cup {NoItem}
      BY ItemsAssumption
    <3>3. t \in Task /\ t.kind = "buy" /\ t.step = "call" /\ t.item = item /\ t.bag = NoBag
          /\ t.draft = NoDraft
      BY <1>4, <3>2, NewTaskIs
    <3>4. Start(s, t)
      BY <3>1
    <3> HIDE DEF t
    <3>5. t \in Commands
      BY <3>2, <3>3, PlainTyped DEF Route
    <3> QED BY <3>3, <3>4, <3>5 DEF TradeKinds
  <2>2. CASE /\ shop[s].selected < Count(s)
             /\ LET i == Entry(held[s], shop[s].selected)
                IN Start(s, NewTask("sell", "call", held[s].stacks[i], i))
    <3> DEFINE i == Entry(held[s], shop[s].selected)
               item == held[s].stacks[i]
               t == NewTask("sell", "call", item, i)
    <3>1. Start(s, t)
      BY <2>2
    <3>2. shop[s].selected \in Nat /\ shop[s].selected < Cardinality(SellEntries(held[s]))
      BY <1>3, <2>2 DEF ShopState, Count
    <3>3. i \in Slots /\ item \in Items
      BY <1>3, <3>2, EntryIs
    <3>4. i \in Slots \cup {0} /\ item \in Items \cup {NoItem}
      BY <3>3
    <3> HIDE DEF i, item
    <3>5. t \in Task /\ t.kind = "sell" /\ t.step = "call" /\ t.item = item /\ t.slot = i
          /\ t.bag = NoBag /\ t.draft = NoDraft
      BY <1>4, <3>4, NewTaskIs
    <3> HIDE DEF t
    <3>6. t \in Commands
      BY <3>3, <3>5, PlainTyped DEF Route
    <3> QED BY <3>1, <3>5, <3>6 DEF TradeKinds
  <2> QED BY <2>1, <2>2 DEF Trade
<1>6. new \in ShopState /\ new.npc = shop[s].npc
  <2>1. shop[s].tab \in {"buy", "sell"} /\ shop[s].selected \in Nat /\ TRUE \in BOOLEAN
    BY <1>3 DEF ShopState
  <2> QED BY <1>3, <2>1, ShopWithIs
<1> HIDE DEF new
<1>7. /\ shop' \in [Sessions -> ShopState] /\ shop'[s] = new
      /\ \A r \in Sessions \ {s} : shop'[r] = shop[r]
  BY <1>1, <1>3, <1>6 DEF TypedScreens
<1>8. /\ mode' = mode /\ dialogue' = dialogue /\ pickupInFlight' = pickupInFlight
      /\ menuInFlight' = menuInFlight /\ questInFlight' = questInFlight
  BY <1>1 DEF flagVars
<1>9. TypedSessions' /\ TypedScreens'
  BY <1>1, <1>3, <1>7 DEF TypedSessions, TypedScreens, flagVars, readVars
<1>10. Elsewhere(s)
  BY <1>7, <1>8 DEF Elsewhere
<1>11. /\ mode[s] = "dialogue" <=> dialogue[s] # NoDialogue
       /\ mode[s] = "dialogue" => ~questInFlight[s]
  BY <1>2, ScreenFacts
<1>12. t.kind # "pickup" /\ t.kind \notin MenuKinds /\ t.kind \notin QuestKinds
  BY <1>5, Apart
<1>13. shop'[s].npc = shop[s].npc
  BY <1>6, <1>7
<1> QED BY <1>1, <1>2, <1>5, <1>8, <1>9, <1>10, <1>11, <1>12, <1>13, PressStep

(* A screen opens, closes or changes, and no command with it.               *)
LEMMA ScreenStep ==
  ASSUME CInv, NEW s \in Sessions, Playing(s), Offstage, UNCHANGED flagVars,
         TypedScreens', Elsewhere(s),
         shop'[s].inFlight => shop[s].inFlight,
         mode'[s] = "shop" <=> shop'[s].npc # NoNpc,
         mode'[s] = "dialogue" <=> dialogue'[s] # NoDialogue,
         mode'[s] = "dialogue" => ~questInFlight[s]
  PROVE  Rest'
<1>1. Backstage'
  BY OffstageKeeps
<1>2. UNCHANGED <<phase, readVars, events, tasks, pickupInFlight, menuInFlight, questInFlight>>
  BY DEF Offstage, flagVars
<1>3. TypedSessions'
  BY <1>2, KeepSessions DEF CInv, Typed, flagVars
<1>4. Others(s)
  BY <1>2 DEF Others, Calm, Elsewhere
<1>5. FlagsOf(s) /\ OneMenuTaskOf(s)
  BY FlaggedIsOrderly DEF CInv, Orderly
<1>6. FlagsOf(s)'
  BY <1>2, <1>5 DEF FlagsOf, Playing
<1>7. OneMenuTaskOf(s)'
  BY <1>2, <1>5 DEF OneMenuTaskOf
<1>8. FreshOf(s)'
  BY <1>2 DEF FreshOf, Playing, Early
<1>9. Orderly(s)'
  BY <1>6, <1>7, <1>8 DEF Orderly
<1> QED BY <1>1, <1>3, <1>4, <1>9, OthersKeep, Together

LEMMA OpenInputModeStep ==
  ASSUME CInv, NEW s \in Sessions, OpenInputMode(s)
  PROVE  Rest'
<1>1. /\ Playing(s) /\ mode[s] = "game"
      /\ \E m \in scene.screens \cup (IF "use" \in scene.keys THEN {"inventory"} ELSE {}) :
           mode' = [mode EXCEPT ![s] = m]
      /\ Offstage /\ UNCHANGED <<flagVars, seen, shop, dialogue>>
  BY DEF OpenInputMode, Offstage
<1>2. TypedScreens /\ scene \in Scene
  BY ScenesAssumption DEF CInv, Typed, TypedWorld
<1>3. PICK m \in {"skills", "journal", "help", "chat", "inventory"} : mode' = [mode EXCEPT ![s] = m]
  BY <1>1, <1>2 DEF Scene
<1>4. /\ mode' \in [Sessions -> Modes] /\ mode'[s] = m
      /\ \A r \in Sessions \ {s} : mode'[r] = mode[r]
  BY <1>2, <1>3 DEF TypedScreens, Modes
<1>5. TypedScreens'
  BY <1>1, <1>2, <1>4 DEF TypedScreens
<1>6. Elsewhere(s)
  BY <1>1, <1>4 DEF Elsewhere, flagVars
<1>7. shop[s].npc = NoNpc /\ dialogue[s] = NoDialogue
  BY <1>1, ScreenFacts
<1>8. /\ shop'[s].inFlight => shop[s].inFlight
      /\ mode'[s] = "shop" <=> shop'[s].npc # NoNpc
      /\ mode'[s] = "dialogue" <=> dialogue'[s] # NoDialogue
      /\ mode'[s] = "dialogue" => ~questInFlight[s]
  BY <1>1, <1>4, <1>7
<1> QED BY <1>1, <1>5, <1>6, <1>8, ScreenStep

LEMMA CloseInputModeStep ==
  ASSUME CInv, NEW s \in Sessions, CloseInputMode(s)
  PROVE  Rest'
<1>1. /\ Playing(s) /\ mode[s] \in {"inventory", "skills", "journal", "help", "chat"}
      /\ mode' = [mode EXCEPT ![s] = "game"]
      /\ Offstage /\ UNCHANGED <<flagVars, seen, shop, dialogue>>
  BY DEF CloseInputMode, Offstage, MenuStaysBusy, flagVars
<1>2. TypedScreens
  BY ScreenFacts
<1>3. /\ mode' \in [Sessions -> Modes] /\ mode'[s] = "game"
      /\ \A r \in Sessions \ {s} : mode'[r] = mode[r]
  BY <1>1, <1>2 DEF TypedScreens, Modes
<1>4. TypedScreens'
  BY <1>1, <1>2, <1>3 DEF TypedScreens
<1>5. Elsewhere(s)
  BY <1>1, <1>3 DEF Elsewhere, flagVars
<1>6. shop[s].npc = NoNpc /\ dialogue[s] = NoDialogue
  BY <1>1, ScreenFacts
<1>7. /\ shop'[s].inFlight => shop[s].inFlight
      /\ mode'[s] = "shop" <=> shop'[s].npc # NoNpc
      /\ mode'[s] = "dialogue" <=> dialogue'[s] # NoDialogue
      /\ mode'[s] = "dialogue" => ~questInFlight[s]
  BY <1>1, <1>3, <1>6
<1> QED BY <1>1, <1>4, <1>5, <1>7, ScreenStep

LEMMA ShopClosedIs ==
  ShopClosed \in ShopState /\ ShopClosed.npc = NoNpc /\ ShopClosed.inFlight = FALSE
BY DEF ShopClosed, ShopState

LEMMA OpenShopStep ==
  ASSUME CInv, NEW s \in Sessions, OpenShop(s)
  PROVE  Rest'
<1> DEFINE new == [npc |-> seen[s], tab |-> "buy", selected |-> 0, inFlight |-> FALSE]
<1>1. /\ Playing(s) /\ mode[s] = "game" /\ seen[s] \in Shops
      /\ shop' = [shop EXCEPT ![s] = new] /\ mode' = [mode EXCEPT ![s] = "shop"]
      /\ Offstage /\ UNCHANGED <<flagVars, seen, dialogue>>
  BY DEF OpenShop, Offstage
<1>2. TypedScreens
  BY ScreenFacts
<1>3. new \in ShopState /\ new.npc # NoNpc /\ new.inFlight = FALSE
  BY <1>1, ItemsAssumption DEF ShopState
<1> HIDE DEF new
<1>4. /\ mode' \in [Sessions -> Modes] /\ mode'[s] = "shop"
      /\ \A r \in Sessions \ {s} : mode'[r] = mode[r]
  BY <1>1, <1>2 DEF TypedScreens, Modes
<1>5. /\ shop' \in [Sessions -> ShopState] /\ shop'[s] = new
      /\ \A r \in Sessions \ {s} : shop'[r] = shop[r]
  BY <1>1, <1>2, <1>3 DEF TypedScreens
<1>6. TypedScreens'
  BY <1>1, <1>2, <1>4, <1>5 DEF TypedScreens
<1>7. Elsewhere(s)
  BY <1>1, <1>4, <1>5 DEF Elsewhere, flagVars
<1>8. dialogue[s] = NoDialogue
  BY <1>1, ScreenFacts
<1>9. /\ shop'[s].inFlight => shop[s].inFlight
      /\ mode'[s] = "shop" <=> shop'[s].npc # NoNpc
      /\ mode'[s] = "dialogue" <=> dialogue'[s] # NoDialogue
      /\ mode'[s] = "dialogue" => ~questInFlight[s]
  BY <1>1, <1>3, <1>4, <1>5, <1>8
<1> QED BY <1>1, <1>6, <1>7, <1>9, ScreenStep

LEMMA CloseShopStep ==
  ASSUME CInv, NEW s \in Sessions, CloseShop(s)
  PROVE  Rest'
<1>1. /\ Playing(s) /\ mode[s] = "shop"
      /\ shop' = [shop EXCEPT ![s] = ShopClosed] /\ mode' = [mode EXCEPT ![s] = "game"]
      /\ Offstage /\ UNCHANGED <<flagVars, seen, dialogue>>
  BY DEF CloseShop, LeaveShop, Offstage
<1>2. TypedScreens
  BY ScreenFacts
<1>3. /\ mode' \in [Sessions -> Modes] /\ mode'[s] = "game"
      /\ \A r \in Sessions \ {s} : mode'[r] = mode[r]
  BY <1>1, <1>2 DEF TypedScreens, Modes
<1>4. /\ shop' \in [Sessions -> ShopState] /\ shop'[s] = ShopClosed
      /\ \A r \in Sessions \ {s} : shop'[r] = shop[r]
  BY <1>1, <1>2, ShopClosedIs DEF TypedScreens
<1>5. TypedScreens'
  BY <1>1, <1>2, <1>3, <1>4 DEF TypedScreens
<1>6. Elsewhere(s)
  BY <1>1, <1>3, <1>4 DEF Elsewhere, flagVars
<1>7. dialogue[s] = NoDialogue
  BY <1>1, ScreenFacts
<1>8. /\ shop'[s].inFlight => shop[s].inFlight
      /\ mode'[s] = "shop" <=> shop'[s].npc # NoNpc
      /\ mode'[s] = "dialogue" <=> dialogue'[s] # NoDialogue
      /\ mode'[s] = "dialogue" => ~questInFlight[s]
  BY <1>1, <1>3, <1>4, <1>7, ShopClosedIs
<1> QED BY <1>1, <1>5, <1>6, <1>8, ScreenStep

LEMMA BrowseShopStep ==
  ASSUME CInv, NEW s \in Sessions, BrowseShop(s)
  PROVE  Rest'
<1>1. /\ Playing(s) /\ mode[s] = "shop" /\ ~shop[s].inFlight
      /\ Offstage /\ UNCHANGED <<flagVars, mode, seen, dialogue>>
  BY DEF BrowseShop, Offstage
<1>2. TypedScreens /\ shop[s] \in ShopState
  BY ScreenFacts
<1>3. \E tab \in {"buy", "sell"}, n \in Nat : shop' = [shop EXCEPT ![s] = ShopWith(s, tab, n, FALSE)]
  <2>1. shop[s].selected \in Nat /\ Count(s) \in Nat
    BY <1>2, SellEntriesFinite DEF ShopState, Count
  <2>2. ASSUME Count(s) > 0, NEW step \in {-1, 1}
        PROVE  (shop[s].selected + step + Count(s)) % Count(s) \in Nat
    <3> DEFINE n == Count(s)
               k == shop[s].selected + step + n
    <3>1. n \in Nat /\ n > 0 /\ k \in Int
      BY <2>1, <2>2
    <3> HIDE DEF n, k
    <3>2. k % n \in Nat
      BY <3>1
    <3> QED BY <3>2 DEF n, k
  <2>3. CASE shop' = [shop EXCEPT ![s] = ShopWith(s, IF @.tab = "buy" THEN "sell" ELSE "buy", 0, FALSE)]
    BY <2>3
  <2>4. CASE /\ Count(s) > 0
             /\ \E step \in {-1, 1} : shop' = [shop EXCEPT
                  ![s] = ShopWith(s, "sell", (@.selected + step + Count(s)) % Count(s), FALSE)]
    BY <2>2, <2>4
  <2> QED BY <2>3, <2>4 DEF BrowseShop
<1>4. PICK tab \in {"buy", "sell"}, n \in Nat : shop' = [shop EXCEPT ![s] = ShopWith(s, tab, n, FALSE)]
  BY <1>3
<1> DEFINE new == ShopWith(s, tab, n, FALSE)
<1>5. new \in ShopState /\ new.npc = shop[s].npc /\ new.inFlight = FALSE
  <2>1. FALSE \in BOOLEAN
    OBVIOUS
  <2> QED BY <1>2, <2>1, ShopWithIs
<1>6. shop' = [shop EXCEPT ![s] = new]
  BY <1>4
<1> HIDE DEF new
<1>7. /\ shop' \in [Sessions -> ShopState] /\ shop'[s] = new
      /\ \A r \in Sessions \ {s} : shop'[r] = shop[r]
  BY <1>2, <1>5, <1>6 DEF TypedScreens
<1>8. TypedScreens'
  BY <1>1, <1>2, <1>7 DEF TypedScreens
<1>9. Elsewhere(s)
  BY <1>1, <1>7 DEF Elsewhere, flagVars
<1>10. /\ shop'[s].inFlight => shop[s].inFlight
       /\ mode'[s] = "shop" <=> shop'[s].npc # NoNpc
       /\ mode'[s] = "dialogue" <=> dialogue'[s] # NoDialogue
       /\ mode'[s] = "dialogue" => ~questInFlight[s]
  <2>1. /\ mode[s] = "shop" <=> shop[s].npc # NoNpc
        /\ mode[s] = "dialogue" <=> dialogue[s] # NoDialogue
    BY <1>1, ScreenFacts
  <2> QED BY <1>1, <1>5, <1>7, <2>1
<1> QED BY <1>1, <1>8, <1>9, <1>10, ScreenStep

LEMMA InteractQuestGiverStep ==
  ASSUME CInv, NEW s \in Sessions, InteractQuestGiver(s)
  PROVE  Rest'
<1> DEFINE new == [kind |-> DialogueOf(s), giver |-> seen[s]]
<1>1. /\ Playing(s) /\ mode[s] = "game" /\ seen[s] \in Npcs \ Shops /\ ~questInFlight[s]
      /\ dialogue' = [dialogue EXCEPT ![s] = new] /\ mode' = [mode EXCEPT ![s] = "dialogue"]
      /\ Offstage /\ UNCHANGED <<flagVars, seen, shop>>
  BY DEF InteractQuestGiver, Offstage
<1>2. TypedScreens
  BY ScreenFacts
<1>3. new \in Dialogue /\ new # NoDialogue
  <2>1. DialogueOf(s) \in DialogueKinds
    BY DEF DialogueOf, DialogueKinds
  <2>2. new \in Dialogue
    BY <1>1, <2>1 DEF Dialogue
  <2>3. NoDialogue.kind = "none" /\ new.kind = DialogueOf(s)
    BY DEF NoDialogue
  <2>4. new.kind # NoDialogue.kind
    BY <2>1, <2>3 DEF DialogueKinds
  <2> QED BY <2>2, <2>4
<1> HIDE DEF new
<1>4. /\ mode' \in [Sessions -> Modes] /\ mode'[s] = "dialogue"
      /\ \A r \in Sessions \ {s} : mode'[r] = mode[r]
  BY <1>1, <1>2 DEF TypedScreens, Modes
<1>5. /\ dialogue' \in [Sessions -> Dialogue \cup {NoDialogue}] /\ dialogue'[s] = new
      /\ \A r \in Sessions \ {s} : dialogue'[r] = dialogue[r]
  BY <1>1, <1>2, <1>3 DEF TypedScreens
<1>6. TypedScreens'
  BY <1>1, <1>2, <1>4, <1>5 DEF TypedScreens
<1>7. Elsewhere(s)
  BY <1>1, <1>4, <1>5 DEF Elsewhere, flagVars
<1>8. shop[s].npc = NoNpc
  BY <1>1, ScreenFacts
<1>9. /\ shop'[s].inFlight => shop[s].inFlight
      /\ mode'[s] = "shop" <=> shop'[s].npc # NoNpc
      /\ mode'[s] = "dialogue" <=> dialogue'[s] # NoDialogue
      /\ mode'[s] = "dialogue" => ~questInFlight[s]
  BY <1>1, <1>3, <1>4, <1>5, <1>8
<1> QED BY <1>1, <1>6, <1>7, <1>9, ScreenStep

LEMMA CloseDialogueStep ==
  ASSUME CInv, NEW s \in Sessions, CloseDialogue(s)
  PROVE  Rest'
<1>1. /\ Playing(s) /\ mode[s] = "dialogue"
      /\ dialogue' = [dialogue EXCEPT ![s] = NoDialogue] /\ mode' = [mode EXCEPT ![s] = "game"]
      /\ Offstage /\ UNCHANGED <<flagVars, seen, shop>>
  BY DEF CloseDialogue, LeaveDialogue, Offstage
<1>2. TypedScreens
  BY ScreenFacts
<1>3. /\ mode' \in [Sessions -> Modes] /\ mode'[s] = "game"
      /\ \A r \in Sessions \ {s} : mode'[r] = mode[r]
  BY <1>1, <1>2 DEF TypedScreens, Modes
<1>4. /\ dialogue' \in [Sessions -> Dialogue \cup {NoDialogue}] /\ dialogue'[s] = NoDialogue
      /\ \A r \in Sessions \ {s} : dialogue'[r] = dialogue[r]
  BY <1>1, <1>2 DEF TypedScreens
<1>5. TypedScreens'
  BY <1>1, <1>2, <1>3, <1>4 DEF TypedScreens
<1>6. Elsewhere(s)
  BY <1>1, <1>3, <1>4 DEF Elsewhere, flagVars
<1>7. shop[s].npc = NoNpc
  BY <1>1, ScreenFacts
<1>8. /\ shop'[s].inFlight => shop[s].inFlight
      /\ mode'[s] = "shop" <=> shop'[s].npc # NoNpc
      /\ mode'[s] = "dialogue" <=> dialogue'[s] # NoDialogue
      /\ mode'[s] = "dialogue" => ~questInFlight[s]
  BY <1>1, <1>3, <1>4, <1>7
<1> QED BY <1>1, <1>5, <1>6, <1>8, ScreenStep

LEMMA WorldSnapshotStep ==
  ASSUME CInv, NEW s \in Sessions, WorldSnapshot(s)
  PROVE  Rest'
<1>1. PICK n \in Npcs \cup {NoNpc} :
        LET shopLeft == mode[s] = "shop" /\ n # shop[s].npc
            giverLeft == mode[s] = "dialogue" /\ n # dialogue[s].giver
        IN /\ seen' = [seen EXCEPT ![s] = n]
           /\ shop' = IF shopLeft THEN [shop EXCEPT ![s] = ShopClosed] ELSE shop
           /\ dialogue' = IF giverLeft THEN [dialogue EXCEPT ![s] = NoDialogue] ELSE dialogue
           /\ mode' = IF shopLeft \/ giverLeft THEN [mode EXCEPT ![s] = "game"] ELSE mode
  BY DEF WorldSnapshot
<1>2. Playing(s) /\ Offstage /\ UNCHANGED flagVars
  BY DEF WorldSnapshot, Offstage
<1>3. /\ TypedScreens
      /\ mode[s] = "shop" <=> shop[s].npc # NoNpc
      /\ mode[s] = "dialogue" <=> dialogue[s] # NoDialogue
      /\ mode[s] = "dialogue" => ~questInFlight[s]
  BY <1>2, ScreenFacts
<1>4. seen' \in [Sessions -> Npcs \cup {NoNpc}]
  BY <1>1, <1>3 DEF TypedScreens
<1>5. CASE mode[s] = "shop" /\ n # shop[s].npc
  <2>1. /\ shop' = [shop EXCEPT ![s] = ShopClosed] /\ dialogue' = dialogue
        /\ mode' = [mode EXCEPT ![s] = "game"]
    BY <1>1, <1>5
  <2>2. /\ mode' \in [Sessions -> Modes] /\ mode'[s] = "game"
        /\ \A r \in Sessions \ {s} : mode'[r] = mode[r]
    BY <1>3, <2>1 DEF TypedScreens, Modes
  <2>3. /\ shop' \in [Sessions -> ShopState] /\ shop'[s] = ShopClosed
        /\ \A r \in Sessions \ {s} : shop'[r] = shop[r]
    BY <1>3, <2>1, ShopClosedIs DEF TypedScreens
  <2>4. TypedScreens'
    BY <1>3, <1>4, <2>1, <2>2, <2>3 DEF TypedScreens
  <2>5. Elsewhere(s)
    BY <1>2, <2>1, <2>2, <2>3 DEF Elsewhere, flagVars
  <2>6. /\ shop'[s].inFlight => shop[s].inFlight
        /\ mode'[s] = "shop" <=> shop'[s].npc # NoNpc
        /\ mode'[s] = "dialogue" <=> dialogue'[s] # NoDialogue
        /\ mode'[s] = "dialogue" => ~questInFlight[s]
    BY <1>3, <1>5, <2>1, <2>2, <2>3, ShopClosedIs
  <2> QED BY <1>2, <2>4, <2>5, <2>6, ScreenStep
<1>6. CASE mode[s] = "dialogue" /\ n # dialogue[s].giver
  <2>1. /\ dialogue' = [dialogue EXCEPT ![s] = NoDialogue] /\ shop' = shop
        /\ mode' = [mode EXCEPT ![s] = "game"]
    BY <1>1, <1>6
  <2>2. /\ mode' \in [Sessions -> Modes] /\ mode'[s] = "game"
        /\ \A r \in Sessions \ {s} : mode'[r] = mode[r]
    BY <1>3, <2>1 DEF TypedScreens, Modes
  <2>3. /\ dialogue' \in [Sessions -> Dialogue \cup {NoDialogue}] /\ dialogue'[s] = NoDialogue
        /\ \A r \in Sessions \ {s} : dialogue'[r] = dialogue[r]
    BY <1>3, <2>1 DEF TypedScreens
  <2>4. TypedScreens'
    BY <1>3, <1>4, <2>1, <2>2, <2>3 DEF TypedScreens
  <2>5. Elsewhere(s)
    BY <1>2, <2>1, <2>2, <2>3 DEF Elsewhere, flagVars
  <2>6. /\ shop'[s].inFlight => shop[s].inFlight
        /\ mode'[s] = "shop" <=> shop'[s].npc # NoNpc
        /\ mode'[s] = "dialogue" <=> dialogue'[s] # NoDialogue
        /\ mode'[s] = "dialogue" => ~questInFlight[s]
    BY <1>3, <1>6, <2>1, <2>2, <2>3
  <2> QED BY <1>2, <2>4, <2>5, <2>6, ScreenStep
<1>7. CASE /\ ~(mode[s] = "shop" /\ n # shop[s].npc)
           /\ ~(mode[s] = "dialogue" /\ n # dialogue[s].giver)
  <2>1. shop' = shop /\ dialogue' = dialogue /\ mode' = mode
    BY <1>1, <1>7
  <2>2. TypedScreens'
    BY <1>3, <1>4, <2>1 DEF TypedScreens
  <2>3. Elsewhere(s)
    BY <1>2, <2>1 DEF Elsewhere, flagVars
  <2>4. /\ shop'[s].inFlight => shop[s].inFlight
        /\ mode'[s] = "shop" <=> shop'[s].npc # NoNpc
        /\ mode'[s] = "dialogue" <=> dialogue'[s] # NoDialogue
        /\ mode'[s] = "dialogue" => ~questInFlight[s]
    BY <1>3, <2>1
  <2> QED BY <1>2, <2>2, <2>3, <2>4, ScreenStep
<1> QED BY <1>5, <1>6, <1>7

LEMMA StutterStep ==
  ASSUME CInv, UNCHANGED vars
  PROVE  Rest'
<1>1. Offstage /\ UNCHANGED <<flagVars, screenVars, readVars, phase, events, tasks>>
  BY DEF vars, Offstage, historyVars, worldVars, storeVars
<1>2. Backstage'
  BY <1>1, OffstageKeeps
<1>3. TypedSessions' /\ TypedScreens'
  BY <1>1, KeepSessions, KeepScreens DEF CInv, Typed
<1>4. ASSUME NEW r \in Sessions PROVE Orderly(r)'
  <2>1. Calm(r)
    BY <1>1 DEF Calm, flagVars, screenVars
  <2> QED BY <2>1, CalmKeeps
<1>5. Flagged'
  BY <1>4, FlaggedIsOrderly
<1> QED BY <1>2, <1>3, <1>5, Together

-----------------------------------------------------------------------------
(* The transactions: a step ends or begins none, or it is a step of one.    *)

LEMMA LockedNext ==
  Locked' <=>
    \A r \in Sessions, j \in Ids :
      /\ Open(tasks'[r][j]) => Sound(bag', tasks'[r][j])
      /\ scene'.pool <= 1 /\ Busy(tasks'[r][j]) => Alone(bag', tasks'[r][j])
      /\ \A s \in Sessions, id \in Ids : <<r, j>> # <<s, id>> =>
           /\ Open(tasks'[r][j]) /\ Open(tasks'[s][id]) => ~Clash(tasks'[r][j], tasks'[s][id])
           /\ scene'.pool <= 1 => ~(Busy(tasks'[r][j]) /\ Busy(tasks'[s][id]))
BY DEF Locked, Serial, Sound, Alone, Busy, Open, Clash, Economic, Adds, NoDraft, NoBag

Quiet ==
  /\ UNCHANGED <<scene, bag>>
  /\ \A r \in Sessions, j \in Ids : tasks'[r][j] = tasks[r][j] \/ ~Busy(tasks'[r][j])

LEMMA QuietKeeps ==
  ASSUME CInv, Quiet
  PROVE  Locked'
<1>1. /\ Locked /\ scene' = scene /\ bag' = bag
      /\ \A r \in Sessions, j \in Ids : tasks'[r][j] = tasks[r][j] \/ ~Busy(tasks'[r][j])
  BY DEF CInv, Quiet
<1>2. \A t : Open(t) => Busy(t)
  BY DEF Busy
<1> QED BY <1>1, <1>2, LockedNext DEF Locked, Serial

(* What sets a command to what it does next.                                *)
LEMMA NoTaskQuiet == ~Busy(NoTask)
BY NoTaskIs DEF Busy, Open

LEMMA BecomeIs ==
  ASSUME TypedTasks, NEW s \in Sessions, NEW id \in Ids, NEW t, Become(s, id, t)
  PROVE  Sets(s, id, t)
BY DEF TypedTasks, Become, Sets

LEMMA BecomeQuiet ==
  ASSUME TypedTasks, NEW s \in Sessions, NEW id \in Ids, NEW t, ~Busy(t), UNCHANGED <<scene, bag>>,
         Become(s, id, t) \/ Send(s, id, t)
  PROVE  Quiet
<1>1. PICK u \in {t, NoTask} : Become(s, id, u)
  BY DEF Send
<1>2. Sets(s, id, u) /\ ~Busy(u)
  BY <1>1, BecomeIs, NoTaskQuiet
<1> QED BY <1>2 DEF Quiet, Sets

LEMMA StartQuiet ==
  ASSUME TypedTasks, NEW s \in Sessions, NEW t, ~Busy(t), UNCHANGED <<scene, bag>>, Start(s, t)
  PROVE  Quiet
<1>1. FreeIds(s) \subseteq Nat /\ FreeIds(s) # {}
  BY Bounds DEF FreeIds, Ids, Start
<1>2. Min(FreeIds(s)) \in Ids
  BY <1>1, MinIs DEF FreeIds
<1>3. Become(s, Min(FreeIds(s)), t)
  BY DEF Start, Become
<1> QED BY <1>2, <1>3, BecomeQuiet

LEMMA EndQuiet ==
  ASSUME TypedTasks, NEW s \in Sessions, UNCHANGED <<scene, bag>>, End(s)
  PROVE  Quiet
BY EndSets, NoTaskQuiet DEF Ends, Quiet

LEMMA NewTaskQuiet ==
  ASSUME NEW kind, NEW step, step # "write", NEW item, NEW slot
  PROVE  ~Busy(NewTask(kind, step, item, slot))
BY DEF NewTask, Busy, Open

LEMMA StepQuiet ==
  ASSUME NEW u \in Task, NEW step \in Steps \ {"write"}
  PROVE  /\ ~Busy(AtStep(u, step))
         /\ \A b : ~Busy([AtStep(u, step) EXCEPT !.bag = b])
         /\ \A b : ~Busy([AtStep(u, step) EXCEPT !.item = b])
         /\ \A b : ~Busy([AtStep(u, step) EXCEPT !.quest = b])
<1>1. AtStep(u, step) \in Task /\ AtStep(u, step).step = step /\ AtStep(u, step).draft = NoDraft
  BY AtStepIs
<1> QED BY <1>1 DEF Task, Busy, Open

LEMMA AnswerQuiet ==
  ASSUME NEW u \in Task, NEW b
  PROVE  ~Busy(Answering(u, b)) /\ \A q : ~Busy([Answering(u, b) EXCEPT !.quest = q])
BY DEF Task, Answering, Busy, Open

LEMMA AwakeIs ==
  ASSUME TypedTasks, NEW s \in Sessions, NEW id \in Ids, tasks[s][id].step # "none"
  PROVE  tasks[s][id] \in Task
BY NoTaskIs DEF TypedTasks, Commands

(* Commands that write nothing, and messages.                               *)
LEMMA WorkQuiet ==
  ASSUME TypedTasks, NEW s \in Sessions, NEW id \in Ids,
         \/ AskPickup(s, id) \/ StoreFails(s, id) \/ RestorePickup(s, id) \/ UseConsumable(s, id)
         \/ RefundFails(s, id) \/ ReadStacks(s, id) \/ ReadEquipment(s, id) \/ ReadFails(s, id)
         \/ UpdateEquipment(s, id) \/ Accept(s, id) \/ CallFails(s, id)
  PROVE  Quiet
<1> DEFINE u == tasks[s][id]
<1>1. UNCHANGED <<scene, bag>>
  BY DEF AskPickup, StoreFails, RestorePickup, UseConsumable, RefundFails, ReadStacks,
         ReadEquipment, ReadFails, UpdateEquipment, Accept, CallFails, Untouched, storeVars
<1>2. u \in Task
  <2>1. u.step # "none"
    BY DEF AskPickup, StoreFails, RestorePickup, UseConsumable, RefundFails, ReadStacks,
           ReadEquipment, ReadFails, UpdateEquipment, Accept, CallFails, At
  <2> QED BY <2>1, AwakeIs
<1>3. {"found", "restore", "refund", "reading", "tell", "answered"} \subseteq Steps \ {"write"}
  BY DEF Steps, Messages
<1>4. PICK t : ~Busy(t) /\ (Become(s, id, t) \/ Send(s, id, t))
  <2>1. CASE Fail(s, id)
    BY <1>2, <2>1, AnswerQuiet DEF Fail
  <2>2. CASE AskPickup(s, id) /\ ~Fail(s, id)
    <3>1. \E item : Send(s, id, [AtStep(u, "found") EXCEPT !.item = item])
      BY <2>2 DEF AskPickup
    <3> QED BY <1>2, <1>3, <3>1, StepQuiet
  <2>3. CASE StoreFails(s, id)
    <3>1. Become(s, id, AtStep(u, "restore"))
      BY <2>3 DEF StoreFails
    <3> QED BY <1>2, <1>3, <3>1, StepQuiet
  <2>4. CASE UseConsumable(s, id)
    <3>1. Send(s, id, Answering(u, u.bag)) \/ Become(s, id, AtStep(u, "refund"))
      BY <2>4 DEF UseConsumable
    <3> QED BY <1>2, <1>3, <3>1, StepQuiet, AnswerQuiet
  <2>5. CASE RefundFails(s, id)
    <3>1. Send(s, id, Answering(u, u.bag))
      BY <2>5 DEF RefundFails, Unreturned
    <3> QED BY <1>2, <3>1, AnswerQuiet
  <2>6. CASE ReadStacks(s, id)
    <3>1. Become(s, id, [AtStep(u, "reading") EXCEPT !.bag = bag])
      BY <2>6 DEF ReadStacks
    <3> QED BY <1>2, <1>3, <3>1, StepQuiet
  <2>7. CASE ReadEquipment(s, id)
    <3>1. \E b : Send(s, id, Answering(u, b)) \/ Become(s, id, [AtStep(u, "tell") EXCEPT !.bag = b])
      BY <2>7 DEF ReadEquipment
    <3> QED BY <1>2, <1>3, <3>1, StepQuiet, AnswerQuiet
  <2>8. CASE UpdateEquipment(s, id)
    <3>1. Send(s, id, Answering(u, u.bag))
      BY <2>8 DEF UpdateEquipment
    <3> QED BY <1>2, <3>1, AnswerQuiet
  <2>9. CASE Accept(s, id)
    <3>1. \E q : Send(s, id, [AtStep(u, "answered") EXCEPT !.quest = q])
      BY <2>9 DEF Accept
    <3> QED BY <1>2, <1>3, <3>1, StepQuiet
  <2> QED BY <2>1, <2>2, <2>3, <2>4, <2>5, <2>6, <2>7, <2>8, <2>9
          DEF RestorePickup, ReadFails, CallFails
<1> QED BY <1>1, <1>4, BecomeQuiet

LEMMA UpdateQuiet ==
  ASSUME TypedTasks, NEW s \in Sessions, NEW id \in Ids, Update(s, id)
  PROVE  Quiet
<1>1. UNCHANGED <<scene, bag>>
  BY DEF Update, PickupResult, ItemStored, InventoryUsed, ShopTrade, QuestInteraction,
         InventoryReloaded, storeVars
<1>2. CASE PickupResult(s, id)
  <2>1. tasks[s][id] \in Task /\ "call" \in Steps \ {"write"}
    BY <1>2, AwakeIs DEF PickupResult, At, Steps
  <2>2. Become(s, id, AtStep(tasks[s][id], "call"))
    BY <1>2 DEF PickupResult
  <2> QED BY <1>1, <2>1, <2>2, StepQuiet, BecomeQuiet
<1>3. CASE Done(s, id)
  BY <1>1, <1>3, NoTaskQuiet, BecomeQuiet DEF Done
<1> QED BY <1>2, <1>3 DEF Update, ItemStored, InventoryUsed, ShopTrade, QuestInteraction,
                          InventoryReloaded

(* Coming and going, keys, events and snapshots, and staff but for the item.*)
LEMMA RestQuiet ==
  ASSUME TypedTasks, NEW s \in Sessions,
         \/ Load(s) \/ LoadEquipment(s) \/ LoadQuests(s) \/ LoadFails(s)
         \/ Join(s) \/ Quit(s) \/ Kicked(s) \/ Leave(s)
         \/ Screens(s) \/ WorldEvent(s) \/ WorldSnapshot(s)
  PROVE  Quiet
<1>1. CASE UNCHANGED <<scene, bag, tasks>>
  BY <1>1 DEF Quiet
<1>2. ASSUME End(s), UNCHANGED <<scene, storeVars>> PROVE Quiet
  BY <1>2, EndQuiet DEF storeVars
<1>3. ASSUME NEW kind, NEW step \in {"ask", "call"}, NEW item, NEW slot,
             Start(s, NewTask(kind, step, item, slot)), UNCHANGED <<scene, storeVars>>
      PROVE  Quiet
  BY <1>3, NewTaskQuiet, StartQuiet DEF storeVars
<1>4. CASE \/ Load(s) \/ LoadEquipment(s) \/ LoadQuests(s) \/ LoadFails(s)
           \/ Join(s) \/ Leave(s) \/ WorldSnapshot(s)
  BY <1>1, <1>4 DEF Load, LoadEquipment, LoadQuests, LoadFails, Join, Leave, WorldSnapshot,
                    storeVars
<1>5. CASE Quit(s) \/ Kicked(s)
  BY <1>2, <1>5 DEF Quit, Kicked
<1>6. CASE WorldEvent(s)
  BY <1>3, <1>6 DEF WorldEvent
<1>7. CASE Screens(s)
  <2>1. CASE \/ OpenInputMode(s) \/ CloseInputMode(s) \/ OpenShop(s) \/ CloseShop(s)
             \/ BrowseShop(s) \/ InteractQuestGiver(s) \/ CloseDialogue(s)
    BY <1>1, <2>1 DEF OpenInputMode, CloseInputMode, OpenShop, CloseShop, BrowseShop,
                      InteractQuestGiver, CloseDialogue, storeVars
  <2>2. CASE TradePanics(s)
    BY <1>2, <2>2 DEF TradePanics
  <2>3. CASE Pickup(s)
    BY <1>3, <2>3 DEF Pickup
  <2>4. CASE UseSelected(s)
    BY <1>3, <2>4 DEF UseSelected, MenuTask
  <2>5. CASE Trade(s)
    BY <1>3, <2>5 DEF Trade
  <2>6. CASE AnswerDialogue(s)
    BY <1>3, <2>6 DEF AnswerDialogue
  <2> QED BY <1>7, <2>1, <2>2, <2>3, <2>4, <2>5, <2>6 DEF Screens
<1> QED BY <1>4, <1>5, <1>6, <1>7

(* One command takes its next step in a transaction: what the others have   *)
(* locked stays theirs.                                                     *)
LEMMA OneLocks ==
  ASSUME CInv, NEW s \in Sessions, NEW id \in Ids, NEW t, Sets(s, id, t), scene' = scene,
         Open(t) => Sound(bag', t),
         Serial /\ Busy(t) => Alone(bag', t),
         \A r \in Sessions, j \in Ids : <<r, j>> # <<s, id>> =>
           /\ Open(tasks[r][j]) => Sound(bag', tasks[r][j])
           /\ Open(tasks[r][j]) /\ Open(t) => ~Clash(t, tasks[r][j])
           /\ Serial /\ (Busy(t) \/ bag' # bag) => ~Busy(tasks[r][j])
  PROVE  Locked'
<1>1. Locked
  BY DEF CInv
<1>2. \A t1, t2 : Clash(t1, t2) <=> Clash(t2, t1)
  BY DEF Clash
<1>3. \A r \in Sessions, j \in Ids :
        tasks'[r][j] = IF <<r, j>> = <<s, id>> THEN t ELSE tasks[r][j]
  BY DEF Sets
<1>4. scene'.pool <= 1 <=> Serial
  BY DEF Serial
<1>5. ASSUME NEW r \in Sessions, NEW j \in Ids
      PROVE  /\ Open(tasks'[r][j]) => Sound(bag', tasks'[r][j])
             /\ scene'.pool <= 1 /\ Busy(tasks'[r][j]) => Alone(bag', tasks'[r][j])
  <2>1. CASE <<r, j>> = <<s, id>>
    BY <1>3, <1>4, <2>1
  <2>2. CASE <<r, j>> # <<s, id>>
    <3>1. tasks'[r][j] = tasks[r][j]
      BY <1>3, <2>2
    <3>2. Serial /\ Busy(tasks[r][j]) => Alone(bag, tasks[r][j])
      BY <1>1 DEF Locked
    <3>3. Serial /\ Busy(tasks[r][j]) => bag' = bag
      BY <2>2
    <3> QED BY <1>4, <2>2, <3>1, <3>2, <3>3
  <2> QED BY <2>1, <2>2
<1>6. ASSUME NEW r \in Sessions, NEW j \in Ids, NEW q \in Sessions, NEW k \in Ids,
             <<r, j>> # <<q, k>>
      PROVE  /\ Open(tasks'[r][j]) /\ Open(tasks'[q][k]) => ~Clash(tasks'[r][j], tasks'[q][k])
             /\ Serial => ~(Busy(tasks'[r][j]) /\ Busy(tasks'[q][k]))
  <2>1. CASE <<r, j>> = <<s, id>>
    BY <1>2, <1>3, <1>6, <2>1
  <2>2. CASE <<q, k>> = <<s, id>>
    BY <1>2, <1>3, <1>6, <2>2
  <2>3. CASE <<r, j>> # <<s, id>> /\ <<q, k>> # <<s, id>>
    <3>1. tasks'[r][j] = tasks[r][j] /\ tasks'[q][k] = tasks[q][k]
      BY <1>3, <2>3
    <3> QED BY <1>1, <1>6, <3>1 DEF Locked
  <2> QED BY <2>1, <2>2, <2>3
<1> QED BY <1>4, <1>5, <1>6, LockedNext

(* On one connection, whoever gets one finds nobody with one.               *)
LEMMA ConnectsIs ==
  ASSUME CInv, Serial, NEW own, Connects(own), NEW r \in Sessions, NEW j \in Ids,
         <<r, j>> \notin own
  PROVE  ~Busy(tasks[r][j])
<1> DEFINE C == (Opened \cup Looked) \ own
<1>1. scene.pool \in Nat
  BY ScenesAssumption DEF CInv, Typed, TypedWorld, Scene
<1>2. IsFiniteSet(C)
  <2>1. IsFiniteSet(Sessions \X Ids)
    BY Bounds, SlotsFinite, FS_Product
  <2>2. C \subseteq Sessions \X Ids
    BY DEF Opened, Looked
  <2> QED BY <2>1, <2>2, FS_Subset
<1>3. Cardinality(C) < 1 /\ Cardinality(C) \in Nat
  BY <1>1, <1>2, FS_CardinalityType DEF Connects, Serial
<1>4. C = {}
  BY <1>2, <1>3, FS_EmptySet
<1>5. <<r, j>> \notin Opened \cup Looked
  BY <1>4
<1> QED BY <1>5 DEF Opened, Looked, Busy

LEMMA ConnectsAlone ==
  ASSUME CInv, NEW s \in Sessions, NEW id \in Ids, Connects({<<s, id>>})
  PROVE  \A r \in Sessions, j \in Ids : <<r, j>> # <<s, id>> /\ Serial => ~Busy(tasks[r][j])
<1>1. SUFFICES ASSUME Serial, NEW r \in Sessions, NEW j \in Ids, <<r, j>> # <<s, id>>
               PROVE  ~Busy(tasks[r][j])
  OBVIOUS
<1>2. <<r, j>> \notin {<<s, id>>}
  BY <1>1
<1> DEFINE own == {<<s, id>>}
<1>3. Connects(own) /\ <<r, j>> \notin own
  BY <1>2
<1> HIDE DEF own
<1> QED BY <1>1, <1>3, ConnectsIs

LEMMA FindStackLocks ==
  ASSUME CInv, NEW s \in Sessions, NEW id \in Ids, FindStack(s, id)
  PROVE  Locked'
<1> DEFINE u == tasks[s][id]
           t == AtStep(u, "write")
<1>1. TypedTasks /\ scene' = scene /\ bag' = bag
  BY DEF CInv, Typed, FindStack, Untouched, storeVars
<1>2. /\ u.step = "call" /\ bag.stacks[u.slot] = u.item /\ Become(s, id, t)
      /\ Connects({<<s, id>>})
  BY DEF FindStack
<1>3. u \in Task
  BY <1>1, <1>2, AwakeIs
<1>4. t.draft = NoDraft /\ t.item = u.item /\ t.slot = u.slot
  BY <1>3, AtStepIs DEF Steps
<1>5. Sets(s, id, t)
  BY <1>1, <1>2, BecomeIs
<1> HIDE DEF t
<1>6. ~Open(t) /\ Alone(bag', t)
  BY <1>1, <1>2, <1>4 DEF Open, Alone
<1>7. \A r \in Sessions, j \in Ids : <<r, j>> # <<s, id>> =>
        /\ Open(tasks[r][j]) => Sound(bag', tasks[r][j])
        /\ Serial => ~Busy(tasks[r][j])
  BY <1>1, <1>2, ConnectsAlone DEF CInv, Locked
<1> QED BY <1>1, <1>5, <1>6, <1>7, OneLocks

LEMMA WriteLocks ==
  ASSUME CInv, NEW s \in Sessions, NEW id \in Ids, Writers(s, id)
  PROVE  Locked'
<1> DEFINE u == tasks[s][id]
<1>1. TypedTasks /\ bag \in Bag
  BY DEF CInv, Typed, TypedWorld
<1>2. PICK i \in Slots \cup {0} : Writing(s, id, i)
  BY WritersAre
<1>3. PICK b \in Bag, t \in Commands :
        /\ t \in Task /\ t.kind = u.kind /\ t.step = u.step
        /\ t.item = u.item /\ t.slot = u.slot /\ t.draft = [slot |-> i, bag |-> b]
        /\ t = [u EXCEPT !.draft = [slot |-> i, bag |-> b]]
        /\ Become(s, id, t) /\ Fits(u, i, b) /\ Write(s, id, i, b) /\ u # NoTask
  BY <1>1, <1>2, WritingIs
<1>4. scene' = scene /\ bag' = bag /\ WritesAt(u, i)
  BY <1>2 DEF Writing, Untouched, storeVars
<1>5. Sets(s, id, t)
  BY <1>1, <1>3, BecomeIs
<1>6. u \in Task /\ Route(u)
  BY <1>1, <1>3 DEF TypedTasks, Commands
<1>7. Sound(bag', t)
  <2>1. b.edition \in Int /\ bag.edition \in Int
    BY <1>1 DEF Bag
  <2>2. Adds(t) <=> Adds(u)
    BY <1>3 DEF Adds
  <2>3. t.draft.slot = i /\ t.draft.bag = b
    BY <1>3
  <2>4. u.kind = "equip" => u.slot = i
    BY <1>4 DEF WritesAt
  <2> QED BY <1>3, <1>4, <2>1, <2>2, <2>3, <2>4 DEF Fits, Sound
<1>8. Serial => Alone(bag', t)
  <2>1. t.draft.slot = i /\ t.draft.bag = b
    BY <1>3
  <2>2. Serial /\ u.kind = "consume" /\ u.step = "write" =>
          bag.stacks[u.slot] = u.item /\ u.item # NoItem
    <3>1. Serial /\ u.step = "write" => Alone(bag, u)
      BY DEF CInv, Locked, Busy
    <3>2. u.kind = "consume" => u.item # NoItem
      BY <1>6, ItemsAssumption DEF Route, QuestKinds
    <3> QED BY <3>1, <3>2 DEF Alone
  <2> QED BY <1>3, <1>4, <2>1, <2>2 DEF Fits, Alone
<1>9. ASSUME NEW r \in Sessions, NEW j \in Ids, <<r, j>> # <<s, id>>
      PROVE  /\ Open(tasks[r][j]) => Sound(bag', tasks[r][j])
             /\ Open(tasks[r][j]) => ~Clash(t, tasks[r][j])
             /\ Serial => ~Busy(tasks[r][j])
  <2>1. Connects({<<s, id>>}) /\ \A c \in Opened \ {<<s, id>>} : ~Conflict(t, tasks[c[1]][c[2]])
    BY <1>3 DEF Write
  <2>2. Open(tasks[r][j]) => <<r, j>> \in Opened \ {<<s, id>>}
    BY <1>9 DEF Opened
  <2>3. Open(tasks[r][j]) => ~Conflict(t, tasks[r][j])
    BY <2>1, <2>2
  <2>4. Serial => ~Busy(tasks[r][j])
    BY <1>9, <2>1, ConnectsAlone
  <2> QED BY <1>4, <2>3, <2>4 DEF Conflict, Clash, CInv, Locked
<1> QED BY <1>4, <1>5, <1>7, <1>8, <1>9, OneLocks

(* What one commits leaves to the other what it relies on.                  *)
LEMMA SoundStays ==
  ASSUME bag \in Bag, NEW u \in Task, Route(u), Drafted(u), Open(u), Sound(bag, u),
         NEW v \in Task, Route(v), Drafted(v), Open(v), Sound(bag, v), ~Clash(u, v)
  PROVE  Sound(Written(u), v)
<1> DEFINE i == u.draft.slot
           k == v.draft.slot
<1>1. /\ bag.edition \in Nat /\ v.draft.bag.edition \in Int
      /\ bag.stacks \in [Slots -> Items \cup {NoItem}] /\ bag.worn \in Slots \cup {0}
  BY DEF Bag, Drafted
<1>2. /\ Adds(u) => i \in Slots /\ u.kind # "equip" /\ bag.stacks[i] = NoItem
      /\ Adds(v) => k \in Slots /\ v.kind \notin {"sell", "complete", "equip"}
  BY DEF Adds, Drafted, Route, Sound
<1>3. v.kind \in {"sell", "complete", "equip"} => k \in Slots /\ k # 0 /\ ~Adds(v)
  BY Bounds DEF Adds, Drafted, Route, QuestKinds, Slots
<1>4. CASE Adds(u)
  <2>1. /\ Written(u).edition = bag.edition + 1 /\ Written(u).worn = bag.worn
        /\ \A x \in Slots \ {i} : Written(u).stacks[x] = bag.stacks[x]
    BY <1>1, <1>2, <1>4 DEF Written, WithStack
  <2>2. ~Adds(v) /\ v.kind \notin {"sell", "complete"}
    BY <1>4 DEF Clash, Economic
  <2>3. v.kind = "equip" => v.slot \in Slots \ {i} /\ bag.stacks[v.slot] # NoItem
    BY <1>2, <1>4 DEF Route, Sound, QuestKinds
  <2> QED BY <1>1, <2>1, <2>2, <2>3 DEF Sound
<1>5. CASE u.kind = "equip"
  <2>1. /\ Written(u).edition = bag.edition + 1 /\ Written(u).worn = i
        /\ Written(u).stacks = bag.stacks /\ ~Adds(u)
    BY <1>2, <1>5 DEF Written, Wearing
  <2>2. v.kind = "sell" => k # i
    BY <1>3, <2>1 DEF Clash
  <2> QED BY <1>1, <2>1, <2>2 DEF Sound
<1>6. CASE ~Adds(u) /\ u.kind # "equip"
  <2>1. /\ Written(u).edition = bag.edition + 1 /\ Written(u).worn \in {bag.worn, 0}
        /\ \A x \in Slots : Written(u).stacks[x] = IF x = i THEN NoItem ELSE bag.stacks[x]
    BY <1>6 DEF Written, Without
  <2>2. v.kind \in {"sell", "complete", "equip"} => k # i
    BY <1>3, <1>6 DEF Clash
  <2>3. v.kind = "equip" => v.slot = k
    BY DEF Drafted, Route, QuestKinds
  <2> QED BY <1>1, <1>2, <1>3, <2>1, <2>2, <2>3 DEF Sound
<1> QED BY <1>4, <1>5, <1>6

LEMMA CommitLocks ==
  ASSUME CInv, NEW s \in Sessions, NEW id \in Ids,
         Stored(s, id) \/ Removed(s, id) \/ Consumed(s, id) \/ Equipped(s, id)
  PROVE  Locked'
<1> DEFINE u == tasks[s][id]
<1>1. TypedTasks /\ bag \in Bag
  BY DEF CInv, Typed, TypedWorld
<1>2. Commit(s, id) /\ scene' = scene
  BY DEF Stored, Removed, Consumed, Equipped, Commit, Untouched
<1>3. /\ u \in Task /\ Route(u) /\ Drafted(u) /\ Open(u) /\ Sound(bag, u)
      /\ bag' = Written(u)
  BY <1>2, CommitIs
<1>4. PICK t : ~Busy(t) /\ (Become(s, id, t) \/ Send(s, id, t))
  <2>1. {"apply", "tell"} \subseteq Steps \ {"write"}
    BY DEF Steps
  <2>2. CASE Stored(s, id) \/ Removed(s, id)
    <3>1. \/ Send(s, id, Answering(u, u.draft.bag))
          \/ \E q : Send(s, id, [Answering(u, u.draft.bag) EXCEPT !.quest = q])
      BY <2>2 DEF Stored, Removed
    <3> QED BY <1>3, <3>1, AnswerQuiet
  <2>3. CASE Consumed(s, id) \/ Equipped(s, id)
    <3>1. \E step \in {"apply", "tell"} :
            Become(s, id, [AtStep(u, step) EXCEPT !.bag = u.draft.bag])
      BY <2>3 DEF Consumed, Equipped
    <3> QED BY <1>3, <2>1, <3>1, StepQuiet
  <2> QED BY <2>2, <2>3
<1>5. PICK t1 \in {t, NoTask} : Become(s, id, t1)
  BY <1>4 DEF Send
<1>6. Sets(s, id, t1) /\ ~Busy(t1) /\ ~Open(t1)
  BY <1>1, <1>4, <1>5, BecomeIs, NoTaskQuiet DEF Busy
<1>7. ASSUME NEW r \in Sessions, NEW j \in Ids, <<r, j>> # <<s, id>>
      PROVE  /\ Open(tasks[r][j]) => Sound(bag', tasks[r][j])
             /\ Serial => ~Busy(tasks[r][j])
  <2> DEFINE v == tasks[r][j]
  <2>1. Open(v) => Sound(bag, v) /\ ~Clash(u, v)
    BY <1>3, <1>7 DEF CInv, Locked
  <2>2. Serial => ~Busy(v)
    BY <1>3, <1>7 DEF CInv, Locked, Busy
  <2>3. Open(v) => v \in Task /\ Route(v) /\ Drafted(v)
    BY <1>1, NoTaskIs DEF TypedTasks, Commands, Open
  <2> HIDE DEF v
  <2>4. Open(v) => Sound(Written(u), v)
    BY <1>1, <1>3, <2>1, <2>3, SoundStays
  <2> QED BY <1>3, <2>2, <2>4 DEF v
<1> QED BY <1>2, <1>6, <1>7, OneLocks

LEMMA UnequipLocks ==
  ASSUME CInv, NEW s \in Sessions, NEW id \in Ids, Unequip(s, id)
  PROVE  Locked'
<1> DEFINE u == tasks[s][id]
           t == AtStep(u, "reread")
<1>1. TypedTasks /\ bag \in Bag
  BY DEF CInv, Typed, TypedWorld
<1>2. /\ u.step = "call" /\ Connects({<<s, id>>}) /\ bag' = Wearing(bag, 0)
      /\ Become(s, id, t) /\ scene' = scene
  BY DEF Unequip, Untouched, At, Change
<1>3. u \in Task /\ "reread" \in Steps \ {"write"}
  BY <1>1, <1>2, AwakeIs DEF Steps
<1>4. Sets(s, id, t) /\ ~Busy(t) /\ ~Open(t)
  BY <1>1, <1>2, <1>3, BecomeIs, StepQuiet DEF Busy
<1> HIDE DEF t
<1>5. bag'.stacks = bag.stacks /\ bag'.worn = 0 /\ bag'.edition = bag.edition + 1
  BY <1>2 DEF Wearing
<1>6. ASSUME NEW r \in Sessions, NEW j \in Ids, <<r, j>> # <<s, id>>, Open(tasks[r][j])
      PROVE  Sound(bag', tasks[r][j])
  <2> DEFINE v == tasks[r][j]
  <2>1. Sound(bag, v)
    BY <1>6 DEF CInv, Locked
  <2>2. v \in Task /\ Route(v) /\ Drafted(v)
    BY <1>1, <1>6, NoTaskIs DEF TypedTasks, Commands, Open
  <2>3. v.draft.bag.edition \in Int /\ bag.edition \in Int
    BY <1>1, <1>6, <2>2 DEF Drafted, Bag
  <2>4. v.kind = "sell" => v.draft.slot # 0
    BY <1>6, <2>2, Bounds DEF Drafted, Route, QuestKinds, Slots
  <2> QED BY <1>5, <2>1, <2>3, <2>4 DEF Sound
<1>7. \A r \in Sessions, j \in Ids : <<r, j>> # <<s, id>> /\ Serial => ~Busy(tasks[r][j])
  BY <1>2, ConnectsAlone
<1> QED BY <1>2, <1>4, <1>6, <1>7, OneLocks

LEMMA GiveItemLocks ==
  ASSUME CInv, GiveItem
  PROVE  Locked'
<1>1. TypedTasks /\ bag \in Bag /\ tasks' = tasks /\ scene' = scene
  BY DEF CInv, Typed, TypedWorld, GiveItem, StaffUntouched
<1>2. CASE UNCHANGED bag
  BY <1>1, <1>2, QuietKeeps DEF Quiet
<1>3. CASE /\ Connects({}) /\ HasRoom(bag)
           /\ \A c \in Opened : ~Economic(tasks[c[1]][c[2]])
           /\ \E item \in scene.given : bag' = Added(bag, item)
  <2> DEFINE i == NextSlot(bag)
  <2>1. i \in Slots /\ bag.stacks[i] = NoItem
    BY <1>1, <1>3, NextSlotFree
  <2> HIDE DEF i
  <2>2. /\ bag'.edition = bag.edition + 1 /\ bag'.worn = bag.worn
        /\ \A x \in Slots \ {i} : bag'.stacks[x] = bag.stacks[x]
    BY <1>1, <1>3 DEF Added, WithStack, Bag, i
  <2>3. ASSUME NEW r \in Sessions, NEW j \in Ids
        PROVE  /\ Open(tasks[r][j]) => Sound(bag', tasks[r][j])
               /\ Serial => ~Busy(tasks[r][j])
    <3> DEFINE v == tasks[r][j]
    <3>1. ASSUME Open(v) PROVE Sound(bag', v)
      <4>1. Sound(bag, v)
        BY <3>1 DEF CInv, Locked
      <4>2. v \in Task /\ Route(v) /\ Drafted(v)
        BY <1>1, <3>1, NoTaskIs DEF TypedTasks, Commands, Open
      <4>3. v.draft.bag.edition \in Int /\ bag.edition \in Int
        BY <1>1, <3>1, <4>2 DEF Drafted, Bag
      <4>4. <<r, j>> \in Opened
        BY <3>1 DEF Opened
      <4>5. ~Economic(v)
        BY <1>3, <4>4
      <4>6. v.kind = "equip" => v.slot \in Slots \ {i}
        BY <2>1, <4>1, <4>2 DEF Route, QuestKinds, Sound
      <4> QED BY <2>2, <4>1, <4>3, <4>5, <4>6 DEF Sound, Economic
    <3>2. Serial => ~Busy(v)
      <4>1. \A o : o = {} => <<r, j>> \notin o
        OBVIOUS
      <4> QED BY <1>3, <4>1, ConnectsIs
    <3> QED BY <3>1, <3>2
  <2>4. Locked
    BY DEF CInv
  <2>5. Serial' <=> Serial
    BY <1>1 DEF Serial
  <2> QED BY <1>1, <2>3, <2>4, <2>5, LockedNext DEF Locked, Serial
<1> QED BY <1>2, <1>3 DEF GiveItem, Change

LEMMA LockedKeeps ==
  ASSUME CInv, [Next]_vars
  PROVE  Locked'
<1>1. TypedTasks
  BY DEF CInv, Typed
<1>2. ASSUME NEW s \in Sessions,
             \/ Load(s) \/ LoadEquipment(s) \/ LoadQuests(s) \/ LoadFails(s)
             \/ Join(s) \/ Quit(s) \/ Kicked(s) \/ Leave(s)
             \/ Screens(s) \/ WorldEvent(s) \/ WorldSnapshot(s)
      PROVE  Locked'
  BY <1>1, <1>2, RestQuiet, QuietKeeps
<1>3. ASSUME NEW s \in Sessions, NEW id \in Ids, Work(s, id) PROVE Locked'
  <2>1. CASE \/ AskPickup(s, id) \/ StoreFails(s, id) \/ RestorePickup(s, id)
             \/ UseConsumable(s, id) \/ RefundFails(s, id) \/ ReadStacks(s, id)
             \/ ReadEquipment(s, id) \/ ReadFails(s, id) \/ UpdateEquipment(s, id)
             \/ Accept(s, id) \/ CallFails(s, id)
    BY <1>1, <2>1, WorkQuiet, QuietKeeps
  <2>2. CASE Writers(s, id)
    BY <2>2, WriteLocks
  <2>3. CASE Stored(s, id) \/ Removed(s, id) \/ Consumed(s, id) \/ Equipped(s, id)
    BY <2>3, CommitLocks
  <2>4. CASE FindStack(s, id) \/ Unequip(s, id)
    BY <2>4, FindStackLocks, UnequipLocks
  <2> QED BY <1>3, <2>1, <2>2, <2>3, <2>4 DEF Work, Writers
<1>4. ASSUME NEW s \in Sessions, NEW id \in Ids, Update(s, id) PROVE Locked'
  BY <1>1, <1>4, UpdateQuiet, QuietKeeps
<1>5. CASE FindToGive \/ NotifyPlayer \/ KickPlayer
  BY <1>5, QuietKeeps DEF FindToGive, NotifyPlayer, KickPlayer, StaffUntouched, Quiet
<1>6. CASE GiveItem
  BY <1>6, GiveItemLocks
<1>7. CASE UNCHANGED vars
  BY <1>7, QuietKeeps DEF vars, storeVars, Quiet
<1> QED BY <1>2, <1>3, <1>4, <1>5, <1>6, <1>7 DEF Next

-----------------------------------------------------------------------------
(* Every step, and the beginning.                                           *)

LEMMA RestKeeps ==
  ASSUME CInv, [Next]_vars
  PROVE  Rest'
<1>1. ASSUME NEW s \in Sessions, Screens(s) PROVE Rest'
  BY <1>1, OpenInputModeStep, CloseInputModeStep, PickupStep, UseSelectedStep, OpenShopStep,
     CloseShopStep, BrowseShopStep, TradeStep, EndStep, InteractQuestGiverStep,
     CloseDialogueStep, AnswerDialogueStep DEF Screens
<1>2. ASSUME NEW s \in Sessions,
             \/ Load(s) \/ LoadEquipment(s) \/ LoadQuests(s) \/ LoadFails(s)
             \/ Join(s) \/ Quit(s) \/ Kicked(s) \/ Leave(s)
             \/ WorldEvent(s) \/ WorldSnapshot(s)
      PROVE  Rest'
  BY <1>2, LoadStep, LoadEquipmentStep, LoadQuestsStep, LoadFailsStep, JoinStep, EndStep,
     LeaveStep, WorldEventStep, WorldSnapshotStep
<1>3. ASSUME NEW s \in Sessions, NEW id \in Ids, Work(s, id) \/ Update(s, id) PROVE Rest'
  BY <1>3, WorkStep, UpdateStep
<1>4. CASE FindToGive \/ GiveItem \/ NotifyPlayer \/ KickPlayer
  BY <1>4, StaffStep
<1>5. CASE UNCHANGED vars
  BY <1>5, StutterStep
<1> QED BY <1>1, <1>2, <1>3, <1>4, <1>5 DEF Next

LEMMA NextKeeps ==
  ASSUME CInv, [Next]_vars
  PROVE  CInv'
BY RestKeeps, LockedKeeps DEF CInv, Rest

LEMMA InitInvariant ==
  ASSUME Init
  PROVE  CInv
<1>1. scene \in Scene /\ scene.ground \in [Items -> Nat]
      /\ scene.stacks \in [Slots -> Items \cup {NoItem}]
  BY ScenesAssumption DEF Init, Scene
<1>2. /\ bag \in Bag /\ bag.worn = 0 /\ bag.edition = 0
      /\ EquipmentStats(bag) = NoItem
  BY <1>1 DEF Init, Bag, EquipmentStats
<1>3. \A s \in Sessions :
        /\ phase[s] = "new" /\ mode[s] = "game" /\ held[s] = bag /\ seen[s] = NoNpc
        /\ ~pickupInFlight[s] /\ ~menuInFlight[s] /\ ~questInFlight[s]
        /\ shop[s] = ShopClosed /\ dialogue[s] = NoDialogue /\ progress[s] = "untracked"
        /\ events[s] = 0 /\ newest[s] = 0
        /\ \A id \in Ids : tasks[s][id] = NoTask
  BY DEF Init
<1>4. TypedWorld
  <2>1. \A i \in Items : Cardinality(Holding(bag, i)) \in Nat
    <3>1. SUFFICES ASSUME NEW i \in Items PROVE Cardinality(Holding(bag, i)) \in Nat
      OBVIOUS
    <3>2. Holding(bag, i) \subseteq Slots
      BY DEF Holding
    <3> QED BY <3>2, SlotsFinite, FS_Subset, FS_CardinalityType
  <2>2. due \in [Items -> Int]
    <3>1. \A i \in Items : ground[i] + Cardinality(Holding(bag, i)) \in Int
      BY <1>1, <2>1 DEF Init
    <3> QED BY <3>1 DEF Init
  <2> QED BY <1>1, <1>2, <2>2 DEF Init, TypedWorld, Progress
<1>5. TypedSessions
  <2>1. EventLimit \in Nat
    BY Bounds
  <2>2. 0 \in 0 .. EventLimit
    BY <2>1
  <2> QED BY <1>2, <2>2 DEF Init, TypedSessions, Phases, Progress
<1>6. TypedScreens
  BY ShopClosedIs DEF Init, TypedScreens, Modes
<1>7. TypedTasks
  BY NoTaskIs DEF Init, TypedTasks
<1>8. Placed
  BY <1>3, ItemsAssumption DEF Placed, Early, Init
<1>9. Flagged
  BY <1>3, ShopClosedIs, NoTaskIs
     DEF Flagged, FlagsMeanWork, OneMenuTask, Fresh, Early, Playing, MenuKinds
<1>10. Geared
  <2>1. \A s \in Sessions : Knows(s)
    BY <1>3, NoTaskIs DEF Knows, TakesOff
  <2>2. gear = EquipmentStats(bag)
    BY <1>2 DEF Init
  <2> QED BY <1>2, <2>1, <2>2, GearIs DEF Geared
<1>11. Caught
  BY <1>2, <1>3 DEF Caught, Older, AuthorCaught, ToldCaught, Playing
<1>12. GoodsAddUp
  <2>1. SUFFICES ASSUME NEW i \in Items
                 PROVE  due[i] = ground[i] + Cardinality(Holding(bag, i)) + Cardinality(InHand(i))
    BY DEF GoodsAddUp
  <2>2. \A h \in Sessions \X Ids : ~Carries(tasks[h[1]][h[2]], i)
    BY <1>3 DEF Carries
  <2>3. InHand(i) = {}
    BY <2>2, Zenon DEF InHand
  <2>4. Cardinality(InHand(i)) = 0
    BY <2>3, FS_EmptySet
  <2>5. Holding(bag, i) \subseteq Slots
    BY DEF Holding
  <2>6. Cardinality(Holding(bag, i)) \in Nat
    BY <2>5, SlotsFinite, FS_Subset, FS_CardinalityType
  <2>7. ground[i] \in Nat
    BY <1>4 DEF TypedWorld
  <2>8. due[i] = ground[i] + Cardinality(Holding(bag, i))
    BY DEF Init
  <2> QED BY <2>4, <2>6, <2>7, <2>8
<1>13. Locked
  <2>1. \A r \in Sessions, j \in Ids : ~Open(tasks[r][j]) /\ ~Busy(tasks[r][j])
    BY <1>3, NoTaskQuiet DEF Busy
  <2> QED BY <2>1 DEF Locked
<1> QED BY <1>4, <1>5, <1>6, <1>7, <1>8, <1>9, <1>10, <1>11, <1>12, <1>13 DEF CInv, Typed

-----------------------------------------------------------------------------
(* The theorems. *)

(* The seven groups hold in every reachable state.                          *)
THEOREM ClientInvariant == Spec => []CInv
<1>1. Init => CInv
  BY InitInvariant
<1>2. CInv /\ [Next]_vars => CInv'
  BY NextKeeps
<1> QED BY <1>1, <1>2, PTL DEF Spec

(* The variables have their types: a command is at a call its kind makes,   *)
(* with the item and the slot that call needs, and a selection is a number. *)
THEOREM TypeCorrect == Spec => []TypeOK
<1>1. CInv => TypeOK
  BY DEF CInv, Typed, TypedWorld, TypedSessions, TypedScreens, TypedTasks, TypeOK, Commands
<1> QED BY <1>1, ClientInvariant, PTL

(* No failure of a repository, no ended session, no lost message and no     *)
(* overlap of transactions doubles or destroys an item on its way between   *)
(* the ground, the inventory and the world, but for what GoodsAddUp names:  *)
(* a drop that is lost with its session, a dose that can not be returned,   *)
(* and, never on one connection, a dose whose stack another transaction     *)
(* changed.  (storePickup, RestorePickup, useConsumable)                    *)
THEOREM GoodsAlwaysAddUp == Spec => []GoodsAddUp
<1>1. CInv => GoodsAddUp
  BY DEF CInv
<1> QED BY <1>1, ClientInvariant, PTL

(* The world counts the worn equipment whenever the session has told it all *)
(* it knows, until what is worn is deleted with its stack: handing in a     *)
(* worn item is not told.  (toggleEquipment, UpdateEquipment, joinWorld)    *)
THEOREM GearAlwaysAgrees == Spec => []GearAgrees
<1>1. CInv => GearAgrees
  BY DEF CInv, Geared
<1> QED BY <1>1, ClientInvariant, PTL

(* A settled session has had the newest inventory before it, if it was told *)
(* of it, or made it with nothing committed since it was read back, which   *)
(* on one connection is always so.  (updateInventoryEquipment,              *)
(* updateInventoryConsumable, updateShopTrade, reloadInventory)             *)
THEOREM ScreensAlwaysCatchUp == Spec => []ScreensCatchUp
<1>1. ASSUME CInv PROVE ScreensCatchUp
  <2>1. SUFFICES ASSUME NEW s \in Sessions, Playing(s), Settled(s), s \in {author, told}
                 PROVE  newest[s] = bag.edition
    BY DEF ScreensCatchUp
  <2>2. /\ ~(events[s] > 0)
        /\ \A id \in Ids : tasks[s][id].kind = "none" /\ tasks[s][id].step = "none"
    BY <2>1, NoTaskIs DEF Settled
  <2> QED BY <1>1, <2>1, <2>2 DEF CInv, Caught, AuthorCaught, ToldCaught, Returns, Reloads, Brings
<1> QED BY <1>1, ClientInvariant, PTL

(* A flag that keeps a key from being pressed again is up exactly while the *)
(* one command it stands for is under way; and a shop or a dialogue is open *)
(* in its mode.  (beginPickup, inventoryState.inFlight, questState.inFlight,*)
(* shopState.inFlight)                                                      *)
THEOREM FlagsAlwaysMeanWork == Spec => []FlagsMeanWork
<1>1. CInv => FlagsMeanWork
  BY DEF CInv, Flagged
<1> QED BY <1>1, ClientInvariant, PTL

=============================================================================
