------------------------------- MODULE Client -------------------------------
(***************************************************************************)
(* The goods of one character between the ground, the database and the     *)
(* world, as the sessions of src/src/ui move them: Update starts commands, *)
(* a command is a goroutine that calls the repositories and the world one  *)
(* after the other, and its result comes back to Update as a message, in   *)
(* no order with the others.                                               *)
(*                                                                         *)
(* A later session replaces an earlier one, whose commands run on.  What a *)
(* call of a repository writes, and the inventory it reads back, wait in   *)
(* the draft of its command until it commits: transactions overlap as far  *)
(* as the connections and the rows they lock let them, and none sees what  *)
(* another has not committed (Economy has the statements).  Any call may   *)
(* fail: it times out, or the session's context was cancelled.             *)
(* Items do not stack, and there is one equipment slot.                    *)
(***************************************************************************)
EXTENDS Integers, FiniteSets, FiniteSetsExt

CONSTANTS
  Sessions, NoSession,
  Items, NoItem,
  Consumables,     \* items of item.TypeConsumable
  Wearables,       \* items of item.TypeEquipment
  Sellable,        \* items with a SellPrice
  Npcs, NoNpc,
  Shops,           \* NPCs of npc.TypeShop; the others give the quest
  Stock,           \* what the shops sell
  Objective,       \* the item the quest asks for
  EventLimit,      \* the capacity of the events channel
  Scenes,          \* what the ground, the inventory and the players begin with
  MaxSlot,         \* bound: slots of an inventory
  MaxTasks         \* bound: commands of a session at once

Slots == 1 .. MaxSlot
Ids == 1 .. MaxTasks

(* The connections of the database, what the player may do, how often, and  *)
(* how many items a command gives.                                          *)
Keys == {"pickup", "use", "shop", "quest"}
Scene ==
  [ground : [Items -> Nat], stacks : [Slots -> Items \cup {NoItem}],
   pool : Nat, keys : SUBSET Keys, screens : SUBSET {"skills", "journal", "help", "chat"},
   sessions : Nat, presses : Nat, gifts : Nat, given : SUBSET Items]

ASSUME ScenesAssumption == Scenes \subseteq Scene

ASSUME ItemsAssumption ==
  /\ NoItem \notin Items /\ NoSession \notin Sessions /\ NoNpc \notin Npcs
  /\ Consumables \subseteq Items /\ Wearables \subseteq Items
  /\ Consumables \cap Wearables = {}
  /\ Sellable \subseteq Items /\ Stock \subseteq Items /\ Shops \subseteq Npcs
  /\ Objective \in Items

ASSUME BoundsAssumption ==
  IsFiniteSet(Sessions) /\ {EventLimit, MaxSlot, MaxTasks} \subseteq Nat

VARIABLES
  scene,      \* which of Scenes this is; it never changes
  (* The world and the database. *)
  owner,      \* the session whose token the world knows
  gear,       \* the item the world counts in the owner's EquipmentStats
  ground,     \* [Items -> drops of it on the ground]
  bag,        \* the inventory: stacks, the slot worn, and its edition
  quest,      \* character_quests.status
  gift,       \* /item between AddItems and NotifyPlayer
  (* A session, gameModel. *)
  phase,      \* [Sessions -> how far it has come]
  mode,       \* [Sessions -> inputMode]
  held,       \* [Sessions -> gameModel.inventory]
  seen,       \* [Sessions -> the nearby NPC, by the last snapshot]
  pickupInFlight, menuInFlight, questInFlight,
  shop,       \* [Sessions -> shopState]
  dialogue,   \* [Sessions -> questDialogueState]
  progress,   \* [Sessions -> questState.progress of the quest]
  tasks,      \* [Sessions -> [Ids -> command or its message]]
  events,     \* [Sessions -> waiting events that change the inventory]
  (* Bounds and history. *)
  presses,    \* keys pressed that started a command
  gifts,      \* items given by staff
  due,        \* [Items -> how many of it there should be]
  newest,     \* [Sessions -> the latest edition that was put in held]
  author,     \* who made the last edition
  told,       \* the session that was told of the last edition
  unaware     \* sessions the equipment has changed behind the back of

worldVars == <<owner, gear, ground>>
storeVars == <<bag, quest, gift>>
flagVars == <<pickupInFlight, menuInFlight, questInFlight>>
screenVars == <<mode, seen, shop, dialogue>>
readVars == <<held, progress, newest>>
historyVars == <<due, author, told, unaware>>
vars == <<scene, worldVars, storeVars, phase, flagVars, screenVars, readVars,
          tasks, events, presses, gifts, historyVars>>

Phases == {"new", "reading", "loading", "joining", "playing", "leaving", "gone"}
Modes == {"game", "inventory", "shop", "dialogue", "skills", "journal", "help", "chat"}
Progress == {"untracked", "active", "completed"}

Bag == [stacks : [Slots -> Items \cup {NoItem}], worn : Slots \cup {0}, edition : Nat]
NoBag == [edition |-> -1]

(* The slot a transaction has written, none if its statement matched none,  *)
(* and the inventory it has read back, with what it wrote.                  *)
Draft == [slot : Slots \cup {0}, bag : Bag \cup {NoBag}]
NoDraft == [slot |-> 0, bag |-> NoBag]

ShopState ==
  [npc : Npcs \cup {NoNpc}, tab : {"buy", "sell"}, selected : Nat, inFlight : BOOLEAN]
ShopClosed == [npc |-> NoNpc, tab |-> "buy", selected |-> 0, inFlight |-> FALSE]

DialogueKinds == {"offer", "progress", "ready", "completed"}
Dialogue == [kind : DialogueKinds, giver : Npcs]
NoDialogue == [kind |-> "none", giver |-> NoNpc]

MenuKinds == {"consume", "equip", "unequip"}
TradeKinds == {"buy", "sell"}
QuestKinds == {"accept", "complete"}
Kinds == MenuKinds \cup TradeKinds \cup QuestKinds \cup {"pickup", "reload"}

(* A command is at the call it makes next; "found" and "answered" are the   *)
(* messages it ends with.                                                   *)
Messages == {"found", "answered"}
Steps ==
  Messages \cup {"ask", "call", "write", "reread", "reading", "tell", "apply", "refund", "restore"}

Task ==
  [kind : Kinds, step : Steps, item : Items \cup {NoItem}, slot : Slots \cup {0},
   bag : Bag \cup {NoBag}, quest : Progress, draft : Draft]
NoTask == [kind |-> "none", step |-> "none", draft |-> NoDraft]

-----------------------------------------------------------------------------
(* Inventories. *)

Holding(b, item) == {i \in Slots : b.stacks[i] = item}
Used(b) == {i \in Slots : b.stacks[i] # NoItem}

(* COALESCE(MAX(slot), 0) + 1                                              *)
NextSlot(b) == Max(Used(b) \cup {0}) + 1
HasRoom(b) == NextSlot(b) \in Slots

WithStack(b, i, item) ==
  [stacks |-> [b.stacks EXCEPT ![i] = item], worn |-> b.worn, edition |-> b.edition + 1]
Added(b, item) == WithStack(b, NextSlot(b), item)

(* character_equipment refers to the stack ON DELETE CASCADE.               *)
Without(b, i) ==
  [stacks |-> [j \in Slots |-> IF j = i THEN NoItem ELSE b.stacks[j]],
   worn |-> IF b.worn = i THEN 0 ELSE b.worn, edition |-> b.edition + 1]
Wearing(b, i) == [stacks |-> b.stacks, worn |-> i, edition |-> b.edition + 1]

(* gameModel.equipmentStats                                                *)
EquipmentStats(b) ==
  IF b.worn = 0 \/ b.stacks[b.worn] \notin Wearables THEN NoItem ELSE b.stacks[b.worn]

(* shopState.sellEntries: the slots that can be sold, and the n-th of them. *)
SellEntries(b) == {i \in Slots : b.stacks[i] \in Sellable}
Entry(b, n) ==
  CHOOSE i \in SellEntries(b) : Cardinality({j \in SellEntries(b) : j < i}) = n

Playing(s) == phase[s] = "playing"
Authenticated(s) == owner = s

NewTask(kind, step, item, slot) ==
  [kind |-> kind, step |-> step, item |-> item, slot |-> slot,
   bag |-> NoBag, quest |-> "untracked", draft |-> NoDraft]
AtStep(t, step) == [t EXCEPT !.step = step, !.draft = NoDraft]
Answering(t, b) == [t EXCEPT !.step = "answered", !.bag = b, !.draft = NoDraft]

(* Starting a command takes the first free place.                           *)
FreeIds(s) == {id \in Ids : tasks[s][id] = NoTask}
Start(s, t) ==
  /\ FreeIds(s) # {}
  /\ tasks' = [tasks EXCEPT ![s][Min(FreeIds(s))] = t]
CanPress(s, key) ==
  /\ Playing(s) /\ key \in scene.keys
  /\ presses < scene.presses
  /\ presses' = presses + 1

(* The command goes on; or sends its message, which nobody takes when the   *)
(* program has ended.                                                       *)
Become(s, id, t) == tasks' = [tasks EXCEPT ![s][id] = t]
Send(s, id, t) == Become(s, id, IF Playing(s) THEN t ELSE NoTask)
Fail(s, id) == Send(s, id, Answering(tasks[s][id], NoBag))

At(s, id, kinds, step) == tasks[s][id].kind \in kinds /\ tasks[s][id].step = step

-----------------------------------------------------------------------------
(* Transactions. *)

(* It has written and not committed.  The economic ones begin with locking  *)
(* the row of inventories; ConsumeItem and Equip do not.                    *)
Open(t) == t.draft # NoDraft
Adds(t) == t.kind \in {"pickup", "buy"} \/ t.step = "refund"
Economic(t) == Adds(t) \/ t.kind \in {"sell", "complete"}
Opened == {c \in Sessions \X Ids : Open(tasks[c[1]][c[2]])}

(* A transaction keeps its connection from its first statement on, and a    *)
(* statement on its own needs one as well.  SQLite has one.                 *)
Looked == {c \in Sessions \X Ids : tasks[c[1]][c[2]].step = "write"}
Connects(own) == Cardinality((Opened \cup Looked) \ own) < scene.pool

(* No two of them hold the row of inventories, that of one stack, or the    *)
(* assignment of what is worn, which is deleted with its stack.             *)
Rewears(t) == t.kind = "equip" \/ (~Adds(t) /\ t.draft.slot \in {bag.worn} \ {0})
Conflict(t, u) ==
  \/ Economic(t) /\ Economic(u)
  \/ ~Adds(t) /\ ~Adds(u) /\ t.draft.slot = u.draft.slot /\ t.draft.slot # 0
  \/ Rewears(t) /\ Rewears(u)

(* The rows are written and the inventory is read back, b, in one step:     *)
(* Economy has the statements.                                              *)
Write(s, id, i, b) ==
  LET t == [tasks[s][id] EXCEPT !.draft = [slot |-> i, bag |-> b]] IN
  /\ Connects({<<s, id>>})
  /\ \A c \in Opened \ {<<s, id>>} : ~Conflict(t, tasks[c[1]][c[2]])
  /\ Become(s, id, t)

(* What was written is committed, whatever was meanwhile.                   *)
Written(t) ==
  CASE Adds(t) -> WithStack(bag, t.draft.slot, t.item)
    [] t.kind = "equip" -> Wearing(bag, t.draft.slot)
    [] OTHER -> Without(bag, t.draft.slot)

-----------------------------------------------------------------------------
(* Coming and going. *)

(* Runner.Run reads the inventory, the stacks and then what is worn, and    *)
(* the quests; each may fail.                                               *)
LoadFails(s) ==
  /\ phase[s] \in {"new", "reading", "loading"}
  /\ Cardinality({r \in Sessions \ {s} : phase[r] # "new"}) < scene.sessions
  /\ phase' = [phase EXCEPT ![s] = "gone"]
  /\ UNCHANGED <<scene, worldVars, storeVars, flagVars, screenVars, readVars, tasks,
                 events, presses, gifts, historyVars>>

Load(s) ==
  /\ phase[s] = "new" /\ Connects({})
  /\ Cardinality({r \in Sessions : phase[r] # "new"}) < scene.sessions
  /\ phase' = [phase EXCEPT ![s] = "reading"]
  /\ held' = [held EXCEPT ![s] = bag]
  /\ newest' = [newest EXCEPT ![s] = bag.edition]
  /\ UNCHANGED <<scene, worldVars, storeVars, flagVars, screenVars, progress, tasks,
                 events, presses, gifts, historyVars>>

(* Who read the stacks and what is worn of two inventories may not know     *)
(* what is worn.                                                            *)
LoadEquipment(s) ==
  /\ phase[s] = "reading" /\ Connects({})
  /\ phase' = [phase EXCEPT ![s] = "loading"]
  /\ held' = [held EXCEPT ![s].worn = bag.worn]
  /\ unaware' = IF held[s].stacks = bag.stacks THEN unaware \ {s} ELSE unaware \cup {s}
  /\ UNCHANGED <<scene, worldVars, storeVars, flagVars, screenVars, progress, newest,
                 tasks, events, presses, gifts, due, author, told>>

LoadQuests(s) ==
  /\ phase[s] = "loading" /\ Connects({})
  /\ phase' = [phase EXCEPT ![s] = "joining"]
  /\ progress' = [progress EXCEPT ![s] = quest]
  /\ UNCHANGED <<scene, worldVars, storeVars, flagVars, screenVars, held, newest, tasks,
                 events, presses, gifts, historyVars>>

(* joinWorld and updateWorldJoined.  The session there was is replaced.     *)
Join(s) ==
  /\ phase[s] = "joining"
  /\ phase' = [phase EXCEPT ![s] = "playing"]
  /\ owner' = s
  /\ gear' = EquipmentStats(held[s])
  /\ UNCHANGED <<scene, ground, storeVars, flagVars, screenVars, readVars, tasks,
                 events, presses, gifts, historyVars>>

(* The program ends: commands run on, messages are not taken any more, and  *)
(* an item whose message is lost is nowhere.                                *)
IsMessage(t) == t.step \in Messages
FoundIn(s, item) == {id \in Ids : At(s, id, {"pickup"}, "found") /\ tasks[s][id].item = item}
End(s) ==
  /\ tasks' = [tasks EXCEPT ![s] =
       [id \in Ids |-> IF IsMessage(tasks[s][id]) THEN NoTask ELSE tasks[s][id]]]
  /\ due' = [i \in Items |-> due[i] - Cardinality(FoundIn(s, i))]

Leaving(s) == phase' = [phase EXCEPT ![s] = "leaving"]

Quit(s) ==
  /\ Playing(s)
  /\ End(s) /\ Leaving(s)
  /\ UNCHANGED <<scene, worldVars, storeVars, flagVars, screenVars, readVars,
                 events, presses, gifts, author, told, unaware>>

(* worldKickedMsg, or the end of the snapshots.                             *)
Kicked(s) ==
  /\ Playing(s) /\ ~Authenticated(s)
  /\ End(s) /\ Leaving(s)
  /\ UNCHANGED <<scene, worldVars, storeVars, flagVars, screenVars, readVars,
                 events, presses, gifts, author, told, unaware>>

(* leaveWorld, after the program; an old token ends nothing.                *)
Leave(s) ==
  /\ phase[s] = "leaving"
  /\ phase' = [phase EXCEPT ![s] = "gone"]
  /\ owner' = IF Authenticated(s) THEN NoSession ELSE owner
  /\ UNCHANGED <<scene, gear, ground, storeVars, flagVars, screenVars, readVars,
                 tasks, events, presses, gifts, historyVars>>

-----------------------------------------------------------------------------
(* Keys. *)

(* I, K, J, T and F1 open a screen, and they or Esc close it.               *)
OpenInputMode(s) ==
  /\ Playing(s) /\ mode[s] = "game"
  /\ \E m \in scene.screens \cup (IF "use" \in scene.keys THEN {"inventory"} ELSE {}) :
       mode' = [mode EXCEPT ![s] = m]
  /\ UNCHANGED <<scene, worldVars, storeVars, phase, flagVars, seen, shop, dialogue,
                 readVars, tasks, events, presses, gifts, historyVars>>

MenuForgets(s) == [menuInFlight EXCEPT ![s] = FALSE]
MenuStaysBusy(s) == menuInFlight
CloseInputMode(s) ==
  /\ Playing(s) /\ mode[s] \in {"inventory", "skills", "journal", "help", "chat"}
  /\ mode' = [mode EXCEPT ![s] = "game"]
  /\ menuInFlight' = MenuStaysBusy(s)
  /\ UNCHANGED <<scene, worldVars, storeVars, phase, pickupInFlight, questInFlight,
                 seen, shop, dialogue, readVars, tasks, events, presses, gifts, historyVars>>

(* E with nobody near.                                                      *)
Pickup(s) ==
  /\ mode[s] = "game" /\ seen[s] = NoNpc
  /\ CanPress(s, "pickup")
  /\ ~pickupInFlight[s]
  /\ pickupInFlight' = [pickupInFlight EXCEPT ![s] = TRUE]
  /\ Start(s, NewTask("pickup", "ask", NoItem, 0))
  /\ UNCHANGED <<scene, worldVars, storeVars, phase, menuInFlight, questInFlight,
                 screenVars, readVars, events, gifts, historyVars>>

(* E or Space in the inventory.  A potion is refused while the last         *)
(* snapshot shows full health, which changes nothing.                       *)
MenuTask(s, i) ==
  LET item == held[s].stacks[i]
      kind == IF item \in Consumables THEN "consume"
              ELSE IF held[s].worn = i THEN "unequip" ELSE "equip"
  IN NewTask(kind, "call", item, i)

MenuFree(s) == ~menuInFlight[s]
UseSelected(s) ==
  /\ mode[s] = "inventory"
  /\ CanPress(s, "use")
  /\ MenuFree(s)
  /\ \E i \in Slots :
       /\ held[s].stacks[i] \in Consumables \cup Wearables
       /\ Start(s, MenuTask(s, i))
  /\ menuInFlight' = [menuInFlight EXCEPT ![s] = TRUE]
  /\ UNCHANGED <<scene, worldVars, storeVars, phase, pickupInFlight, questInFlight,
                 screenVars, readVars, events, gifts, historyVars>>

(* E near a shop.                                                           *)
OpenShop(s) ==
  /\ Playing(s) /\ mode[s] = "game" /\ seen[s] \in Shops
  /\ shop' = [shop EXCEPT ![s] =
       [npc |-> seen[s], tab |-> "buy", selected |-> 0, inFlight |-> FALSE]]
  /\ mode' = [mode EXCEPT ![s] = "shop"]
  /\ UNCHANGED <<scene, worldVars, storeVars, phase, flagVars, seen, dialogue,
                 readVars, tasks, events, presses, gifts, historyVars>>

LeaveShop(s) ==
  /\ shop' = [shop EXCEPT ![s] = ShopClosed]
  /\ mode' = [mode EXCEPT ![s] = "game"]

CloseShop(s) ==
  /\ Playing(s) /\ mode[s] = "shop"
  /\ LeaveShop(s)
  /\ UNCHANGED <<scene, worldVars, storeVars, phase, flagVars, seen, dialogue,
                 readVars, tasks, events, presses, gifts, historyVars>>

ShopWith(s, tab, selected, busy) ==
  [npc |-> shop[s].npc, tab |-> tab, selected |-> selected, inFlight |-> busy]

Count(s) == Cardinality(SellEntries(held[s]))

(* Tab, and the arrows over what can be sold.                               *)
BrowseShop(s) ==
  /\ Playing(s) /\ mode[s] = "shop" /\ ~shop[s].inFlight
  /\ \/ shop' = [shop EXCEPT
          ![s] = ShopWith(s, IF @.tab = "buy" THEN "sell" ELSE "buy", 0, FALSE)]
     \/ /\ shop[s].tab = "sell" /\ Count(s) > 0
        /\ \E step \in {-1, 1} : shop' = [shop EXCEPT
             ![s] = ShopWith(s, "sell", (@.selected + step + Count(s)) % Count(s), FALSE)]
  /\ UNCHANGED <<scene, worldVars, storeVars, phase, flagVars, mode, seen, dialogue,
                 readVars, tasks, events, presses, gifts, historyVars>>

(* E or Space in the shop.                                                  *)
ShopBusy(s) == shop' = [shop EXCEPT ![s] = ShopWith(s, @.tab, @.selected, TRUE)]
Trade(s) ==
  /\ mode[s] = "shop" /\ ~shop[s].inFlight
  /\ CanPress(s, "shop")
  /\ \/ /\ shop[s].tab = "buy"
        /\ \E item \in Stock : Start(s, NewTask("buy", "call", item, 0))
     \/ /\ shop[s].tab = "sell" /\ shop[s].selected < Count(s)
        /\ LET i == Entry(held[s], shop[s].selected)
           IN Start(s, NewTask("sell", "call", held[s].stacks[i], i))
  /\ ShopBusy(s)
  /\ UNCHANGED <<scene, worldVars, storeVars, phase, flagVars, mode, seen, dialogue,
                 readVars, events, gifts, historyVars>>

(* The list has become shorter than the selection: indexing it panics, and  *)
(* the program ends.  Whether it still hands its model to leaveWorld is the *)
(* terminal library's to say.                                               *)
TradePanics(s) ==
  /\ Playing(s) /\ mode[s] = "shop" /\ ~shop[s].inFlight
  /\ shop[s].tab = "sell" /\ Count(s) > 0 /\ shop[s].selected >= Count(s)
  /\ ShopBusy(s)
  /\ End(s)
  /\ \E p \in {"leaving", "gone"} : phase' = [phase EXCEPT ![s] = p]
  /\ UNCHANGED <<scene, worldVars, storeVars, flagVars, mode, seen, dialogue,
                 readVars, events, presses, gifts, author, told, unaware>>

(* interactQuestGiver: E near who gives the quest.                          *)
DialogueOf(s) ==
  CASE progress[s] = "untracked" -> "offer"
    [] progress[s] = "completed" -> "completed"
    [] OTHER -> IF Holding(held[s], Objective) = {} THEN "progress" ELSE "ready"

InteractQuestGiver(s) ==
  /\ Playing(s) /\ mode[s] = "game" /\ seen[s] \in Npcs \ Shops
  /\ ~questInFlight[s]
  /\ dialogue' = [dialogue EXCEPT ![s] = [kind |-> DialogueOf(s), giver |-> seen[s]]]
  /\ mode' = [mode EXCEPT ![s] = "dialogue"]
  /\ UNCHANGED <<scene, worldVars, storeVars, phase, flagVars, seen, shop,
                 readVars, tasks, events, presses, gifts, historyVars>>

LeaveDialogue(s) ==
  /\ dialogue' = [dialogue EXCEPT ![s] = NoDialogue]
  /\ mode' = [mode EXCEPT ![s] = "game"]

(* Esc, or E where there is nothing to answer.                              *)
CloseDialogue(s) ==
  /\ Playing(s) /\ mode[s] = "dialogue"
  /\ LeaveDialogue(s)
  /\ UNCHANGED <<scene, worldVars, storeVars, phase, flagVars, seen, shop,
                 readVars, tasks, events, presses, gifts, historyVars>>

AnswerDialogue(s) ==
  /\ mode[s] = "dialogue" /\ dialogue[s].kind \in {"offer", "ready"}
  /\ CanPress(s, "quest")
  /\ Start(s, NewTask(IF dialogue[s].kind = "offer" THEN "accept" ELSE "complete",
                      "call", Objective, 0))
  /\ questInFlight' = [questInFlight EXCEPT ![s] = TRUE]
  /\ LeaveDialogue(s)
  /\ UNCHANGED <<scene, worldVars, storeVars, phase, pickupInFlight, menuInFlight,
                 seen, shop, readVars, events, gifts, historyVars>>

-----------------------------------------------------------------------------
(* The calls commands make, with the item they are about. *)

Change(b, who) ==
  /\ bag' = b
  /\ author' = who
  /\ told' = NoSession

Owe(item, n) == due' = [due EXCEPT ![item] = @ + n]

Untouched == UNCHANGED <<scene, phase, flagVars, screenVars, readVars, events, presses, gifts>>

(* lootSystem.pickup: anything within reach, which may be nothing.          *)
AskPickup(s, id) ==
  /\ At(s, id, {"pickup"}, "ask")
  /\ \/ /\ Authenticated(s)
        /\ \E item \in Items :
             /\ ground[item] > 0
             /\ ground' = [ground EXCEPT ![item] = @ - 1]
             /\ Send(s, id, [AtStep(tasks[s][id], "found") EXCEPT !.item = item])
             /\ IF Playing(s) THEN UNCHANGED due ELSE Owe(item, -1)
     \/ Fail(s, id) /\ UNCHANGED <<ground, due>>
  /\ Untouched
  /\ UNCHANGED <<owner, gear, storeVars, author, told, unaware>>

(* storePickup's AddItem; when it fails, RestorePickup.                     *)
StorePickup(s, id) ==
  /\ At(s, id, {"pickup"}, "call") /\ ~Open(tasks[s][id])
  /\ HasRoom(bag)
  /\ Write(s, id, NextSlot(bag), Added(bag, tasks[s][id].item))
  /\ Untouched
  /\ UNCHANGED <<worldVars, storeVars, historyVars>>

StoreFails(s, id) ==
  /\ At(s, id, {"pickup"}, "call")
  /\ Become(s, id, AtStep(tasks[s][id], "restore"))
  /\ Untouched
  /\ UNCHANGED <<worldVars, storeVars, historyVars>>

MayRestoreAnyone(s) == TRUE
MayRestore(s) == Authenticated(s)
RestorePickup(s, id) ==
  LET item == tasks[s][id].item IN
  /\ At(s, id, {"pickup"}, "restore")
  /\ ground' = IF MayRestore(s) THEN [ground EXCEPT ![item] = @ + 1] ELSE ground
  /\ IF Authenticated(s) THEN UNCHANGED due ELSE Owe(item, -1)
  /\ Fail(s, id)
  /\ Untouched
  /\ UNCHANGED <<owner, gear, storeVars, author, told, unaware>>

(* ConsumeItem and Equip look at the stack without locking it, and then     *)
(* write.  ConsumeItem deletes what is in the slot by then, which may be    *)
(* nothing; nothing cannot be worn.                                         *)
FindStack(s, id) ==
  LET t == tasks[s][id] IN
  /\ t.kind \in {"consume", "equip"} /\ t.step = "call"
  /\ Connects({<<s, id>>})
  /\ bag.stacks[t.slot] = t.item
  /\ Become(s, id, AtStep(t, "write"))
  /\ Untouched
  /\ UNCHANGED <<worldVars, storeVars, historyVars>>

ConsumeItem(s, id) ==
  LET t == tasks[s][id]
      i == IF bag.stacks[t.slot] = NoItem THEN 0 ELSE t.slot
  IN
  /\ At(s, id, {"consume"}, "write") /\ ~Open(t)
  /\ Write(s, id, i, Without(bag, i))
  /\ Untouched
  /\ UNCHANGED <<worldVars, storeVars, historyVars>>

Equip(s, id) ==
  LET t == tasks[s][id] IN
  /\ At(s, id, {"equip"}, "write") /\ ~Open(t)
  /\ bag.stacks[t.slot] # NoItem
  /\ Write(s, id, t.slot, Wearing(bag, t.slot))
  /\ Untouched
  /\ UNCHANGED <<worldVars, storeVars, historyVars>>

(* useConsumable, when the dose is taken out: it applies when it heals, and *)
(* the health is the world's to know; when it did not apply, AddItem.       *)
UseConsumable(s, id) ==
  LET t == tasks[s][id] IN
  /\ At(s, id, {"consume"}, "apply")
  /\ \/ Authenticated(s) /\ Send(s, id, Answering(t, t.bag)) /\ Owe(t.item, -1)
     \/ Become(s, id, AtStep(t, "refund")) /\ UNCHANGED due
  /\ Untouched
  /\ UNCHANGED <<worldVars, storeVars, author, told, unaware>>

Refund(s, id) ==
  /\ At(s, id, {"consume"}, "refund") /\ ~Open(tasks[s][id])
  /\ HasRoom(bag)
  /\ Write(s, id, NextSlot(bag), Added(bag, tasks[s][id].item))
  /\ Untouched
  /\ UNCHANGED <<worldVars, storeVars, historyVars>>

(* The error of a failed refund comes with the inventory less the dose.     *)
UnreturnedBare(t) == Answering(t, NoBag)
Unreturned(t) == Answering(t, t.bag)

RefundFails(s, id) ==
  LET t == tasks[s][id] IN
  /\ At(s, id, {"consume"}, "refund")
  /\ Send(s, id, Unreturned(t))
  /\ Owe(t.item, -1)
  /\ Untouched
  /\ UNCHANGED <<worldVars, storeVars, author, told, unaware>>

(* toggleEquipment: Unequip reads the inventory back apart from the         *)
(* deletion, in two statements; then UpdateEquipment.                       *)
Unequip(s, id) ==
  /\ At(s, id, {"unequip"}, "call")
  /\ Connects({<<s, id>>})
  /\ bag.worn # 0 => \A c \in Opened : ~Rewears(tasks[c[1]][c[2]])
  /\ Change(Wearing(bag, 0), s)
  /\ unaware' = Sessions \ {s}
  /\ Become(s, id, AtStep(tasks[s][id], "reread"))
  /\ Untouched
  /\ UNCHANGED <<worldVars, quest, gift, due>>

(* FindOrCreate outside a transaction, here and in reloadInventory: the     *)
(* stacks, and then what is worn.                                           *)
ReadStacks(s, id) ==
  LET t == tasks[s][id] IN
  /\ At(s, id, {"unequip"}, "reread") \/ At(s, id, {"reload"}, "call")
  /\ Connects({<<s, id>>})
  /\ Become(s, id, [AtStep(t, "reading") EXCEPT !.bag = bag])
  /\ Untouched
  /\ UNCHANGED <<worldVars, storeVars, historyVars>>

ReadEquipment(s, id) ==
  LET t == tasks[s][id]
      b == [t.bag EXCEPT !.worn = bag.worn]
  IN
  /\ t.step = "reading"
  /\ Connects({<<s, id>>})
  /\ IF t.kind = "reload"
     THEN Send(s, id, Answering(t, b))
     ELSE Become(s, id, [AtStep(t, "tell") EXCEPT !.bag = b])
  /\ Untouched
  /\ UNCHANGED <<worldVars, storeVars, historyVars>>

ReadFails(s, id) ==
  LET t == tasks[s][id] IN
  /\ t.step \in {"reread", "reading"} \/ At(s, id, {"reload"}, "call")
  /\ Fail(s, id)
  /\ unaware' = IF t.kind = "unequip" THEN unaware \cup {s} ELSE unaware
  /\ author' = IF t.kind = "unequip" /\ author = s THEN NoSession ELSE author
  /\ told' = IF t.kind = "reload" /\ told = s THEN NoSession ELSE told
  /\ Untouched
  /\ UNCHANGED <<worldVars, storeVars, due>>

UpdateEquipment(s, id) ==
  LET t == tasks[s][id] IN
  /\ At(s, id, {"equip", "unequip"}, "tell")
  /\ gear' = IF Authenticated(s) THEN EquipmentStats(t.bag) ELSE gear
  /\ Send(s, id, Answering(t, t.bag))
  /\ Untouched
  /\ UNCHANGED <<owner, ground, storeVars, historyVars>>

(* buyShopItem, refused for want of gold, sellShopItem and completeQuest.   *)
BuyItem(s, id) ==
  /\ At(s, id, {"buy"}, "call") /\ ~Open(tasks[s][id])
  /\ HasRoom(bag)
  /\ Write(s, id, NextSlot(bag), Added(bag, tasks[s][id].item))
  /\ Untouched
  /\ UNCHANGED <<worldVars, storeVars, historyVars>>

SellItem(s, id) ==
  LET t == tasks[s][id] IN
  /\ At(s, id, {"sell"}, "call") /\ ~Open(t)
  /\ bag.stacks[t.slot] = t.item /\ bag.worn # t.slot
  /\ Write(s, id, t.slot, Without(bag, t.slot))
  /\ Untouched
  /\ UNCHANGED <<worldVars, storeVars, historyVars>>

Complete(s, id) ==
  LET i == Min(Holding(bag, tasks[s][id].item)) IN
  /\ At(s, id, {"complete"}, "call") /\ ~Open(tasks[s][id])
  /\ quest = "active" /\ Holding(bag, tasks[s][id].item) # {}
  /\ Write(s, id, i, Without(bag, i))
  /\ Untouched
  /\ UNCHANGED <<worldVars, storeVars, historyVars>>

(* acceptQuest                                                              *)
Accept(s, id) ==
  /\ At(s, id, {"accept"}, "call")
  /\ Connects({<<s, id>>})
  /\ quest' = IF quest = "untracked" THEN "active" ELSE quest
  /\ Send(s, id, [AtStep(tasks[s][id], "answered") EXCEPT !.quest = quest'])
  /\ Untouched
  /\ UNCHANGED <<worldVars, bag, gift, historyVars>>

(* A session has made the newest inventory, and knows it; but on several    *)
(* connections, another transaction may have been committed since it read   *)
(* the inventory back, and then nobody need know the newest.                *)
Serial == scene.pool <= 1
Author(s, t) ==
  IF Serial \/ t.draft.bag.edition = bag.edition + 1 THEN s ELSE NoSession
Commit(s, id) ==
  LET t == tasks[s][id] IN
  /\ Open(t)
  /\ Change(Written(t), Author(s, t))
  /\ Untouched
  /\ UNCHANGED <<worldVars, gift>>

(* AddItem and BuyItem; SellItem and Complete, which takes off what it      *)
(* deletes and does not tell the world.                                     *)
Surprised(t) == IF Rewears(t) THEN Sessions ELSE unaware
Stored(s, id) ==
  LET t == tasks[s][id] IN
  /\ Commit(s, id) /\ Adds(t)
  /\ IF t.kind = "buy" THEN Owe(t.item, 1) ELSE UNCHANGED due
  /\ Send(s, id, Answering(t, t.draft.bag))
  /\ UNCHANGED <<quest, unaware>>

Removed(s, id) ==
  LET t == tasks[s][id] IN
  /\ Commit(s, id) /\ t.kind \in {"sell", "complete"}
  /\ Owe(t.item, -1)
  /\ unaware' = Surprised(t)
  /\ quest' = IF t.kind = "complete" THEN "completed" ELSE quest
  /\ Send(s, id, [Answering(t, t.draft.bag) EXCEPT !.quest =
       IF t.kind = "complete" THEN "completed" ELSE @])

(* The dose is in hand even if it was not there to be deleted any more, or  *)
(* another item was: ConsumeItem does not look at what it deleted.  That    *)
(* takes another transaction between its statements.                        *)
Consumed(s, id) ==
  LET t == tasks[s][id]
      deleted == {t.draft.slot} \cap Slots
  IN
  /\ Commit(s, id) /\ At(s, id, {"consume"}, "write")
  /\ due' = IF Serial THEN due
            ELSE [item \in Items |-> due[item] + (IF item = t.item THEN 1 ELSE 0)
                                    - Cardinality({i \in deleted : bag.stacks[i] = item})]
  /\ unaware' = Surprised(t)
  /\ Become(s, id, [AtStep(t, "apply") EXCEPT !.bag = t.draft.bag])
  /\ UNCHANGED quest

Equipped(s, id) ==
  LET t == tasks[s][id] IN
  /\ Commit(s, id) /\ t.kind = "equip"
  /\ unaware' = Sessions \ {s}
  /\ Become(s, id, [AtStep(t, "tell") EXCEPT !.bag = t.draft.bag])
  /\ UNCHANGED <<quest, due>>

CallFails(s, id) ==
  /\ tasks[s][id].kind \notin {"pickup", "reload"}
  /\ tasks[s][id].step \in {"call", "write"}
  /\ Fail(s, id)
  /\ Untouched
  /\ UNCHANGED <<worldVars, storeVars, historyVars>>

Work(s, id) ==
  \/ AskPickup(s, id) \/ StorePickup(s, id) \/ StoreFails(s, id) \/ RestorePickup(s, id)
  \/ FindStack(s, id) \/ ConsumeItem(s, id) \/ Equip(s, id)
  \/ UseConsumable(s, id) \/ Refund(s, id) \/ RefundFails(s, id)
  \/ Unequip(s, id) \/ ReadStacks(s, id) \/ ReadEquipment(s, id) \/ ReadFails(s, id)
  \/ UpdateEquipment(s, id)
  \/ BuyItem(s, id) \/ SellItem(s, id) \/ Accept(s, id) \/ Complete(s, id)
  \/ Stored(s, id) \/ Removed(s, id) \/ Consumed(s, id) \/ Equipped(s, id)
  \/ CallFails(s, id)

-----------------------------------------------------------------------------
(* Update: the messages. *)

TakeIn(s, b) ==
  IF b = NoBag THEN UNCHANGED <<held, newest>>
  ELSE /\ held' = [held EXCEPT ![s] = b]
       /\ newest' = [newest EXCEPT ![s] = Max({@, b.edition})]

Answered(s, id, kinds) == Playing(s) /\ At(s, id, kinds, "answered")
Done(s, id) == Become(s, id, NoTask)

PickupResult(s, id) ==
  /\ Playing(s) /\ At(s, id, {"pickup"}, "found")
  /\ Become(s, id, AtStep(tasks[s][id], "call"))
  /\ UNCHANGED <<scene, worldVars, storeVars, phase, flagVars, screenVars, readVars,
                 events, presses, gifts, historyVars>>

(* itemStoredMsg, or a pickupResultMsg that found nothing.                  *)
FinishedPickupIfStored(s, b) ==
  IF b = NoBag THEN pickupInFlight ELSE [pickupInFlight EXCEPT ![s] = FALSE]
FinishedPickup(s, b) == [pickupInFlight EXCEPT ![s] = FALSE]
ItemStored(s, id) ==
  /\ Answered(s, id, {"pickup"})
  /\ pickupInFlight' = FinishedPickup(s, tasks[s][id].bag)
  /\ TakeIn(s, tasks[s][id].bag)
  /\ Done(s, id)
  /\ UNCHANGED <<scene, worldVars, storeVars, phase, menuInFlight, questInFlight,
                 screenVars, progress, events, presses, gifts, historyVars>>

(* updateInventoryEquipment and updateInventoryConsumable take the          *)
(* inventory in even when there is an error with it.                        *)
InventoryUsed(s, id) ==
  /\ Answered(s, id, MenuKinds)
  /\ menuInFlight' = [menuInFlight EXCEPT ![s] = FALSE]
  /\ TakeIn(s, tasks[s][id].bag)
  /\ Done(s, id)
  /\ UNCHANGED <<scene, worldVars, storeVars, phase, pickupInFlight, questInFlight,
                 screenVars, progress, events, presses, gifts, historyVars>>

(* updateShopTrade: the selection stays within what is left to sell.        *)
ClampedToLast(s, b) ==
  IF shop[s].tab = "sell"
  THEN Min({shop[s].selected, Cardinality(SellEntries(b)) - 1})
  ELSE shop[s].selected

Clamped(s, b) ==
  IF shop[s].tab = "sell"
  THEN Max({0, Min({shop[s].selected, Cardinality(SellEntries(b)) - 1})})
  ELSE shop[s].selected

ShopTrade(s, id) ==
  LET b == tasks[s][id].bag
      selected == IF b = NoBag THEN shop[s].selected ELSE Clamped(s, b)
  IN
  /\ Answered(s, id, TradeKinds)
  /\ shop' = [shop EXCEPT ![s] = ShopWith(s, @.tab, selected, FALSE)]
  /\ TakeIn(s, b)
  /\ Done(s, id)
  /\ UNCHANGED <<scene, worldVars, storeVars, phase, flagVars, mode, seen, dialogue,
                 progress, events, presses, gifts, historyVars>>

QuestInteraction(s, id) ==
  LET t == tasks[s][id] IN
  /\ Answered(s, id, QuestKinds)
  /\ questInFlight' = [questInFlight EXCEPT ![s] = FALSE]
  /\ progress' = [progress EXCEPT ![s] = IF t.quest = "untracked" THEN @ ELSE t.quest]
  /\ TakeIn(s, t.bag)
  /\ Done(s, id)
  /\ UNCHANGED <<scene, worldVars, storeVars, phase, pickupInFlight, menuInFlight,
                 screenVars, events, presses, gifts, historyVars>>

InventoryReloaded(s, id) ==
  /\ Answered(s, id, {"reload"})
  /\ TakeIn(s, tasks[s][id].bag)
  /\ Done(s, id)
  /\ UNCHANGED <<scene, worldVars, storeVars, phase, flagVars, screenVars, progress,
                 events, presses, gifts, historyVars>>

Update(s, id) ==
  \/ PickupResult(s, id) \/ ItemStored(s, id) \/ InventoryUsed(s, id)
  \/ ShopTrade(s, id) \/ QuestInteraction(s, id) \/ InventoryReloaded(s, id)

(* An event that says InventoryChanged starts a reload.                     *)
WorldEvent(s) ==
  /\ Playing(s) /\ events[s] > 0
  /\ events' = [events EXCEPT ![s] = @ - 1]
  /\ Start(s, NewTask("reload", "call", NoItem, 0))
  /\ UNCHANGED <<scene, worldVars, storeVars, phase, flagVars, screenVars, readVars,
                 presses, gifts, historyVars>>

(* A snapshot tells who is nearby, and closes what was open with another.   *)
(* The player may be anywhere: World and Enemies say how they get there.    *)
Reachable(n) ==
  \/ n = NoNpc
  \/ n \in Shops /\ "shop" \in scene.keys
  \/ n \in Npcs \ Shops /\ "quest" \in scene.keys

WorldSnapshot(s) ==
  /\ Playing(s)
  /\ \E n \in Npcs \cup {NoNpc} :
       LET shopLeft == mode[s] = "shop" /\ n # shop[s].npc
           giverLeft == mode[s] = "dialogue" /\ n # dialogue[s].giver
       IN /\ Reachable(n)
          /\ seen' = [seen EXCEPT ![s] = n]
          /\ shop' = IF shopLeft THEN [shop EXCEPT ![s] = ShopClosed] ELSE shop
          /\ dialogue' = IF giverLeft THEN [dialogue EXCEPT ![s] = NoDialogue] ELSE dialogue
          /\ mode' = IF shopLeft \/ giverLeft THEN [mode EXCEPT ![s] = "game"] ELSE mode
  /\ UNCHANGED <<scene, worldVars, storeVars, phase, flagVars, readVars, tasks,
                 events, presses, gifts, historyVars>>

-----------------------------------------------------------------------------
(* Staff: Handler.giveItem and a kick. *)

StaffUntouched == UNCHANGED <<scene, gear, ground, quest, phase, flagVars, screenVars,
                              readVars, tasks, presses, unaware>>

FindToGive ==
  /\ gift = "none" /\ gifts < scene.gifts
  /\ owner # NoSession
  /\ gift' = "found"
  /\ gifts' = gifts + 1
  /\ StaffUntouched
  /\ UNCHANGED <<owner, bag, events, due, author, told>>

(* AddItems, whose inventory staff are not shown.                           *)
GiveItem ==
  /\ gift = "found"
  /\ \/ /\ Connects({}) /\ HasRoom(bag)
        /\ \A c \in Opened : ~Economic(tasks[c[1]][c[2]])
        /\ \E item \in scene.given : Change(Added(bag, item), NoSession) /\ Owe(item, 1)
        /\ gift' = "stored"
     \/ /\ gift' = "none"
        /\ UNCHANGED <<bag, due, author, told>>
  /\ StaffUntouched
  /\ UNCHANGED <<owner, events, gifts>>

(* sendEvent drops the event when the channel is full, of this and of other *)
(* events.                                                                  *)
NotifyPlayer ==
  /\ gift = "stored"
  /\ gift' = "none"
  /\ \/ /\ owner # NoSession
        /\ events[owner] < EventLimit
        /\ events' = [events EXCEPT ![owner] = @ + 1]
        /\ told' = owner
     \/ UNCHANGED <<events, told>>
  /\ StaffUntouched
  /\ UNCHANGED <<owner, bag, gifts, due, author>>

KickPlayer ==
  /\ owner # NoSession
  /\ owner' = NoSession
  /\ StaffUntouched
  /\ UNCHANGED <<bag, gift, gifts, events, due, author, told>>

-----------------------------------------------------------------------------
Init ==
  /\ scene \in Scenes
  /\ owner = NoSession /\ gear = NoItem
  /\ ground = scene.ground
  /\ bag = [stacks |-> scene.stacks, worn |-> 0, edition |-> 0]
  /\ quest = "untracked"
  /\ gift = "none"
  /\ phase = [s \in Sessions |-> "new"]
  /\ mode = [s \in Sessions |-> "game"]
  /\ held = [s \in Sessions |-> bag]
  /\ seen = [s \in Sessions |-> NoNpc]
  /\ pickupInFlight = [s \in Sessions |-> FALSE]
  /\ menuInFlight = pickupInFlight
  /\ questInFlight = pickupInFlight
  /\ shop = [s \in Sessions |-> ShopClosed]
  /\ dialogue = [s \in Sessions |-> NoDialogue]
  /\ progress = [s \in Sessions |-> "untracked"]
  /\ tasks = [s \in Sessions |-> [id \in Ids |-> NoTask]]
  /\ events = [s \in Sessions |-> 0]
  /\ presses = 0 /\ gifts = 0
  /\ due = [i \in Items |-> ground[i] + Cardinality(Holding(bag, i))]
  /\ newest = [s \in Sessions |-> 0]
  /\ author = NoSession /\ told = NoSession
  /\ unaware = {}

Screens(s) ==
  \/ OpenInputMode(s) \/ CloseInputMode(s) \/ Pickup(s) \/ UseSelected(s)
  \/ OpenShop(s) \/ CloseShop(s) \/ BrowseShop(s) \/ Trade(s) \/ TradePanics(s)
  \/ InteractQuestGiver(s) \/ CloseDialogue(s) \/ AnswerDialogue(s)

Next ==
  \/ \E s \in Sessions :
       \/ Load(s) \/ LoadEquipment(s) \/ LoadQuests(s) \/ LoadFails(s)
       \/ Join(s) \/ Quit(s) \/ Kicked(s) \/ Leave(s)
       \/ Screens(s) \/ WorldEvent(s) \/ WorldSnapshot(s)
       \/ \E id \in Ids : Work(s, id) \/ Update(s, id)
  \/ FindToGive \/ GiveItem \/ NotifyPlayer \/ KickPlayer

Spec == Init /\ [][Next]_vars

-----------------------------------------------------------------------------
(* Properties. *)

(* What the variables hold: a command's item and slot are the inventory's,  *)
(* and a selection may be past the end of the list.                         *)
TypeOK ==
  /\ scene \in Scenes
  /\ owner \in Sessions \cup {NoSession}
  /\ gear \in Wearables \cup {NoItem}
  /\ ground \in [Items -> Nat]
  /\ bag \in Bag
  /\ quest \in Progress
  /\ gift \in {"none", "found", "stored"}
  /\ phase \in [Sessions -> Phases]
  /\ mode \in [Sessions -> Modes]
  /\ held \in [Sessions -> Bag]
  /\ seen \in [Sessions -> Npcs \cup {NoNpc}]
  /\ {pickupInFlight, menuInFlight, questInFlight} \subseteq [Sessions -> BOOLEAN]
  /\ shop \in [Sessions -> ShopState]
  /\ dialogue \in [Sessions -> Dialogue \cup {NoDialogue}]
  /\ progress \in [Sessions -> Progress]
  /\ tasks \in [Sessions -> [Ids -> Task \cup {NoTask}]]
  /\ events \in [Sessions -> 0 .. EventLimit]
  /\ {presses, gifts} \subseteq Nat
  /\ due \in [Items -> Int]
  /\ newest \in [Sessions -> Nat]
  /\ {author, told} \subseteq Sessions \cup {NoSession}
  /\ unaware \subseteq Sessions

(* Picked up and not stored yet, or taken out and not healing yet.          *)
Carries(t, item) ==
  /\ t # NoTask /\ t.item = item
  /\ \/ t.kind = "pickup" /\ t.step \in {"found", "call", "restore"}
     \/ t.kind = "consume" /\ t.step \in {"apply", "refund"}
InHand(item) == {h \in Sessions \X Ids : Carries(tasks[h[1]][h[2]], item)}

(* No failure doubles or destroys an item.  What was dropped, bought and    *)
(* given, less what healed, was sold and was handed in, is in the           *)
(* inventory, on the ground or in the hands of a command -- but for a drop  *)
(* whose session ended or was replaced before it was stored or put back, a  *)
(* dose that did not apply and could not be returned, and, on several       *)
(* connections only, a dose whose stack had been changed by another         *)
(* transaction since ConsumeItem looked at it.                              *)
(* (storePickup, RestorePickup, useConsumable)                              *)
GoodsAddUp ==
  \A i \in Items :
    due[i] = ground[i] + Cardinality(Holding(bag, i)) + Cardinality(InHand(i))

(* The world counts what the character wears, when none of the session's    *)
(* own changes is on its way to the world, nobody else has changed it since *)
(* the session began to read the inventory, it was not deleted with its     *)
(* stack, as a worn item that is handed in is, and a removal could be read  *)
(* back.  (toggleEquipment, UpdateEquipment, joinWorld)                     *)
GearAgrees ==
  \A s \in Sessions :
    /\ Authenticated(s) /\ s \notin unaware
    /\ \A id \in Ids : ~ \E step \in {"reread", "reading", "tell"} : At(s, id, MenuKinds, step)
    => gear = EquipmentStats(bag)

(* A session that changed the inventory itself, or was told that staff did, *)
(* has had that inventory before it when nothing of its is on the way any   *)
(* more, whatever failed in between -- but, on several connections only,    *)
(* for a change before whose commit another transaction was committed,      *)
(* after its inventory had been read back.  (An older result may have come  *)
(* after it: results have no order.)                                        *)
Settled(s) == events[s] = 0 /\ \A id \in Ids : tasks[s][id] = NoTask
ScreensCatchUp ==
  \A s \in Sessions :
    Playing(s) /\ Settled(s) /\ s \in {author, told} => newest[s] = bag.edition

(* A flag is up as long as the one command it stands for; a trade's flag    *)
(* may fall early, when the shop is closed and opened again, and several    *)
(* trades be under way; a shop or a dialogue is open exactly in its mode.   *)
(* (beginPickup, inventoryState.inFlight, questState.inFlight,              *)
(* shopState.inFlight)                                                      *)
Under(s, kinds) == {id \in Ids : tasks[s][id].kind \in kinds}
FlagsMeanWork ==
  \A s \in Sessions : Playing(s) =>
    /\ Cardinality(Under(s, {"pickup"})) = IF pickupInFlight[s] THEN 1 ELSE 0
    /\ Cardinality(Under(s, MenuKinds)) = IF menuInFlight[s] THEN 1 ELSE 0
    /\ Cardinality(Under(s, QuestKinds)) = IF questInFlight[s] THEN 1 ELSE 0
    /\ shop[s].inFlight => Under(s, TradeKinds) # {}
    /\ mode[s] = "shop" <=> shop[s].npc # NoNpc
    /\ mode[s] = "dialogue" <=> dialogue[s] # NoDialogue
=============================================================================
