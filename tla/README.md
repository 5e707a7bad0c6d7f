# UnderShell in TLA+

UnderShell is a multiplayer game served over SSH. A single goroutine owns the
shared world; every connected terminal runs a Bubble Tea program that talks to
it by requests and hears from it by channels; what lasts is in a database,
PostgreSQL or SQLite. These modules model the parts where order, concurrency
and failure decide whether the game is right, check them with TLC on small
instances, and prove the invariants that matter most with TLAPS for every
value of the constants. Paths below are relative to `src/src/`.

## The system

| Component | Files | State | Operations | Modelled in |
|---|---|---|---|---|
| World runtime | `world/{world,runtime,requests,players}.go` | live players by character, a token and four channels each; areas waiting for a broadcast; `done` | join, leave, move, attack, pickup, equipment, skills, admin requests; two tickers; close | `World`, `Presence` |
| Chat | `world/chat.go` | last 10 messages; a channel of 32 per player | say, server message, preload at join | `World` |
| Enemies and combat | `world/{enemies,combat}.go` | enemies, per spawn a count and a respawn time | tick, attack, defeat, spawn | `Enemies` |
| Ground loot | `world/loot.go` | items on the ground | roll, pick up, restore | `Enemies`, `Client` |
| Progression | `world/progression.go` | level, experience, points | grant, spend | `Saves` |
| Content | `world/{area,map_object,npc}.go`, `item`, `enemy`, `npc`, `quest`, `content` | immutable after start | load, validate | assumptions of the modules |
| Economic repositories | `repository/{inventory,shop,quest,transaction}.go` | stacks, equipment, gold, quests | add, consume, equip, buy, sell, complete, accept | `Economy`, `Ledger`; how they overlap below a screen: `Client` |
| Character repository | `repository/character.go` | characters, location, progress, role, ban | create, save, promote, ban | `Accounts`, `Saves` |
| Admission | `sshserver/*.go` | counters of connections and sessions, windows per address | accept, close, register | `Admission` |
| Client session | `ui/session*.go`, `ui/game_model.go`, `ui/actions.go`, `ui/onboarding.go` | last snapshot, token, copies of the character and the inventory, what is in flight | connect, create, join, leave; commands to the world and the repositories, saves | `Accounts` (getting in), `Client` (goods), `Saves` (place and progress), its channel ends in `World` |
| Screens | `ui/{inventory,shop,quest,skills,chat,...}.go` | mode, selection, in-flight flags | keys, late results | `Client`, `Saves` |
| Rendering | `ui/{game_renderer,renderer,render_invalidation,player_names}.go` | cached frame | draw | not modelled: layout |
| Admin | `admin/*.go` | the maintenance switch | kick, ban, promote, maintenance; give, grant, teleport | `Accounts`; `Client`, `Saves`; what it asks of the world in `World` |
| Start-up, configuration, migrations | `main.go`, `config`, `persistence` | — | I/O | pool sizes and keys in `Economy`, limits in `Admission` |

How they meet. A client sends a request on one unbuffered channel and waits for
the reply or for `done`; the world's goroutine handles one request or tick at a
time, so handlers are atomic, but their *order* is anybody's: requests carry a
token, and a session that has been replaced or kicked keeps sending with its
old one. The world answers through four channels per session (snapshots,
events, chat, kick), of which the snapshot channel keeps only the newest and
the others drop or are bounded. Clients save what they hear to the database
from goroutines of their own, and the repositories serialise what belongs
together by transactions, row locks and retries. Above all that, admission
control counts connections and sessions from one goroutine per connection.

What is hard, and what makes each part correct:

* World: replaced and late sessions (each channel closed exactly once, no other
  session ended), handlers that forget to refresh an area, saved positions
  that are no longer ground, a history that must fit a buffer, shutdown.
* Chat: two paths to a reader, dropping, and order.
* Enemies: kills while a respawn timer runs (the spawn's count and timer must
  agree), deaths in the middle of a tick, enemies moving in map order.
* Repositories: interleaved statements, rows changed between a look and a
  write, failures half-way, replays after a serialization failure; answers read
  back before other transactions commit; rows deleted by cascade.
* Clients: saves overtaking each other, a pickup whose store fails after the
  session was replaced, consumables refunded, results that arrive after the
  screen they belong to was closed or the list they index was replaced.
* Progression: levels near the largest integer, points spent while levels come.
* Admin: look-then-act sequences beside joins and promotions.
* Admission: connections that end in several ways at once, window resets.

`PROJECT.json` lists each of these at its line, with the properties that cover
it or the reason none does.

## The modules

### World

One action is one iteration of `runtimeState.run`: a request of a session
(`SessionRequest`, with the session's token, current or not), an administrative
request, a tick of enemies, a tick of the broadcaster, the observation of
`done`; plus `Close`, and clients taking a snapshot or a chat message from
their channels.

| Variable | Code |
|---|---|
| `live[c]` | `playerSystem.live`: token, location, stats, newest snapshot pushed and whether it is unread, the chat channel's contents |
| `owner[t]` | the sessions ever opened: who holds token `t` |
| `closed[t]` | how often the session's channels have been closed |
| `scene[a]` | enemies and ground items of an area, as one value |
| `pending` | `runtimeState.pendingAreas` |
| `history`, `sent` | `chatSystem.history`; messages said so far, which number them |
| `done`, `running` | the manager's channel and whether the goroutine still runs |

A player's health, level, skills, role are one value `stats`: the properties
only ask whether what others see has changed. The event feed is left out
(`sendEvent` never blocks and never changes the world). `Presence` is the
session registry the world promises: at most one session per character, a newer
one ends the older and no other, an ended one never returns. `World` implements
it under `present == token of the live player`, `ended == tokens whose channels
are closed`.

### Enemies

The handlers `World` abstracts as "a scene changes" and "a player is hurt":
enemies one by one, spawn books (`count`, `timer`), loot on the ground and in
the hands of a client (`held`: between `Pickup` and the repository's answer,
`Store` or `Restore`). In a tick each enemy of an area with players acts once,
in any order, as a Go map is iterated; `Tick` contains the acting, the
respawning and the areas noted for broadcast, as `enemySystem.tick` does. Time
is abstract: a resting enemy may be ready, a running timer may become due
(`Elapse`) at any moment.

### Economy and Ledger

`Economy` is one character's rows and the transactions over them, statement by
statement at READ COMMITTED, with `SELECT ... FOR UPDATE` on `inventories` and
`character_progress`, the row locks writes take, `requireOneRow`, the three
attempts of `runEconomicTransaction`, and failures before commit. `Connections`
is the pool's limit: 1 for SQLite, which serialises transactions, 20 for
PostgreSQL, which does not. `receipt` and `purse` are history: what callers
were told they gained and lost. `Ledger` is the promise without stacks, slots,
rows or concurrency: whole trades, one at a time.

### Admission

`acquireConnection` is two steps (the limiter's mutex, then the controller's),
`Close` may come several times and from several goroutines, sessions belong to
connections but outlive them. Times are read before the limiter's mutex is
taken, so they are used late by up to `Delay`. `granted` is history. The
configuration is a variable that never changes, so that one run covers several.

### Accounts

Who may be in the world. A connection goes through `Runner.Run` (`Read`,
`Admit`, `Load`), onboarding (`SubmitName`, `Create`, `Created`), and the world
(`Join`, `Joined`, `Quit`, `Leave`, `Notice`); a command through
`Handler.execute`, one statement or request at a time (`LookToKick` then `Kick`,
`StoreBan` then `KickBanned`, `LookToPromote`, `StoreRole`, `SetPlayerRole`,
...). Both are goroutines, and what was read in one step is used in a later one.

| Variable | Code |
|---|---|
| `account[k]` | the row of `characters` of SSH key `k`: role and ban |
| `live[k]` | the session in the world and the role it plays with |
| `maintenance` | `Handler.maintenance` |
| `stage[c]`, `copy[c]` | how far a connection has come; the character as it read it |
| `task[c]`, `message[c]` | the goroutine of a Bubble Tea command; its result, waiting for `Update` |
| `command[h]` | a staff command: order, giver's role, next step |
| `sentenced`, `early`, `behind`, `crossed`, `since` | history: which bans are done, who had read the character before a ban or a promotion, who came while the door was closed |

### Client

The goods of one character: the ground and the world's equipment, the
inventory's rows, and for each of its sessions the copy on the screen. `Update`
starts commands (`Pickup`, `UseSelected`, `Trade`, `AnswerDialogue`,
`WorldEvent`); a command is a goroutine whose calls are steps (`AskPickup`,
`StorePickup`, `RestorePickup`; `FindStack`, `ConsumeItem`, `UseConsumable`,
`Refund`; `FindStack`, `Equip` or `Unequip`, `ReadStacks`, `ReadEquipment`, then
`UpdateEquipment`; `BuyItem`, `SellItem`, `Accept`, `Complete`), each of which
may fail; its message is handled in any order with the others (`PickupResult`,
`ItemStored`, `InventoryUsed`, `ShopTrade`, `QuestInteraction`,
`InventoryReloaded`), or lost when the program has ended.

A transaction is up to three steps: the look `ConsumeItem` and `Equip` take at a
stack they do not lock (`FindStack`); what it writes and the inventory it reads
back (`Write`), which wait in the `draft` of its command and which nobody else
sees; and the commit (`Stored`, `Removed`, `Consumed`, `Equipped`), which changes
the rows it wrote and leaves those others have committed since. Between them
anything may happen that the connections of the pool (`Connects`: 1 for SQLite,
20 for PostgreSQL) and the locks (`Conflict`: the row of `inventories` for the
economic transactions, the row of a stack, the assignment of what is worn) do
not forbid. `Without` deletes a stack and, as the foreign key does, what is worn
of it. The statements between a transaction's first write and its read-back are
one step here; `Economy` has them one by one. Any item may be the quest's
objective, one that can be worn included, since content loading asks only that
some enemy drops it (`quest/quests.go:132-152`).

| Variable | Code |
|---|---|
| `owner`, `gear`, `ground` | the token the world knows, the `EquipmentStats` it counts, `lootSystem` |
| `bag`, `quest` | `inventory_items`, `inventory_equipment`; `character_quests` |
| `mode[s]`, `shop[s]`, `dialogue[s]`, `seen[s]` | `inputMode`, `shopState`, `questDialogueState`, the NPC of the last snapshot |
| `held[s]`, `progress[s]` | `gameModel.inventory`, `questState.progress` |
| `pickupInFlight`, `menuInFlight`, `questInFlight` | the flags of those names |
| `tasks[s]` | the commands under way, each at its next call or message, with the `draft` of a transaction not yet committed |
| `events[s]`, `gift` | waiting events that say `InventoryChanged`; `/item` between its two steps |
| `due`, `newest`, `author`, `told`, `unaware` | history: how many of each item there should be, the newest inventory a screen has had, who made the newest inventory and read it back, who was told of it, and who does not know what is worn |

A panic (`shop.go:187`, a selection past the end of a list another result has
shortened) is an action, `TradePanics`: the program ends, and whether the
terminal library still returns the model to `leaveWorld` is left open.

### Saves

Where a character stands and what it has learned. The world changes a player
(`Fight`, `Die`, `GiveExperience`, `GiveLevels`, `Teleport`, `Move`,
`SpendSkillPoint`) and publishes it, at once or by `BroadcastPending`; a session
takes snapshots (`WaitForSnapshot`, `WorldSnapshot`) and results of its own
(`PlayerMoved`, `SkillSpent`) into its copy and starts saves of what differs; a
save is a goroutine that finds, updates or inserts rows (`FindLocation`,
`UpdateLocation`, `UpdateProgress`) or fails (`Fail`).

| Variable | Code |
|---|---|
| `player`, `pending` | the world's `Player`; its area is in `pendingAreas` |
| `copy[s]` | `gameModel.character` |
| `updates[s]`, `received[s]` | the channel of one, and what `waitForSnapshot` took from it |
| `moving[s]`, `spending[s]` | `movementState.inFlight`, `skillsState.spendInFlight` and their commands |
| `row`, `saves` | `character_locations` and `character_progress`; the saves under way |
| `started`, `spoiled`, `meddled`, `backward`, `edition`, `whole` | history: which save is the newest, which rows something else has written, whether numbers are of one moment |

`MaxInt` and `MaxExperience` are the widths of `int` and `int64`, small here;
a level past `MaxInt` wraps as Go's does.

## Runs

| Run | Bounds | Shows |
|---|---|---|
| `world_sessions` | 2 characters, 3 sessions, 2 areas, 3 cells | channels match sessions, the newest snapshot is current, players stand on ground, the world implements `Presence` |
| `world_liveness` | 2 characters, 2 sessions, 2 scenes | outdated views are refreshed; shutdown releases every client |
| `world_chat` | 3 sessions, 4 messages, history 2, channel 2 | preloading never blocks the loop; chat arrives in order |
| `enemies_cave` | a 4×2 map with rock and an NPC, a spawn of 2, 2 kills | spawn books, timers, territories, health, areas noted by a tick |
| `enemies_street` | 3 points, 2 spawns of 1, an item, 2 kills | who falls is spared for the rest of the tick; every spawn refills |
| `economy_trades` | 1 connection and 5 calls, 20 connections and 4 calls; 3 workers, 2 items | results are true, stack limits hold, no conflict, sales leave equipment, the ledger is implemented; with one connection worn items fit |
| `economy_waits` | 3 workers, 3 calls | every call ends |
| `economy_consume` | 2 workers, 3 calls, 20 connections | **violation**, see findings |
| `admission` | 3 connections of 2 addresses, 2 sessions, 3 configurations; a fourth with 7 ticks, windows of 3 | counters are what is open, limits hold; a window reset never doubles the limit, times late and entries swept |
| `accounts` | 2 connections of one key, 3 commands, 3 first accounts | bans hold, roles agree, a closed door admits staff only |
| `client` | 2 sessions, 9 scenes on 1 or 20 connections, 3 slots, 3 commands at once, 2 to 4 keys pressed | goods add up, the world counts what is worn, screens catch up, flags mean work |
| `saves` | 2 sessions, 4 scenes, 2 or 3 changes, 2 saves at once, `MaxInt` 4 | changes reach screens and rows, points add up to levels |

Why the bounds are enough. Three sessions of two characters are one more than
needed for a session to be replaced, leave late and be replaced again while
another character watches; a waypoint, a rock cell and a lost area give `Place`
each of its outcomes. Two messages more than the history holds make it slide
while it is being preloaded. Two enemies of one spawn and two kills put the
second kill before, during and after the first one's timer. Three workers are
one holding a lock, one waiting and one slipping in between; calls are cut at
four because each call of three statements multiplies the states, and every
pair and triple of kinds occurs below that. Seven ticks of a window of three
contain two resets and a sweep. Two connections of one key are one that holds
an old copy and one that plays; three commands are a ban, its lifting and a
second ban, or two promotions crossing a kick. `Client` and `Saves` choose a
scene, the goods or rows and the kinds of keys, deeds and gifts that may occur:
all of them at once would be too many, and what could disturb each other shares
a scene. In `Client`, drinking one potion from two sessions, and picking up,
wearing and trading at once, are run on one connection and on 20; the other
scenes on 20, where more can overlap: `Bartering` sells a potion and buys a
wreath into its slot while it is being drunk, `Questing` hands in a wreath that
may be worn. Three keys are one change by each session and one more while they are under
way; three changes are one being saved, one in a snapshot and one
that overtakes them; two saves at once overtake each other. A `MaxInt` of 4 and
rewards of 3 and 20 give no level, several at once, and one past the largest
integer. `MaxTokens`, `MaxMessages`, `MaxKills`, `MaxCalls`, `MaxSlot`,
`MaxTime`, `MaxTasks`, `MaxSaves` and the scenes' `presses`, `gifts`,
`changes` and `sessions` are the bounds on counters the code leaves unbounded.
Sessions, workers, connections of one key and commands are interchangeable, and
symmetric in safety runs; no run with a liveness property uses symmetry.

What the properties except, and why. These are histories the code gives no
promise about; each exception names one of them, and the runs show nothing else
is needed.

* `BansHold`, `RolesAgree`: a connection that read the character before the ban
  or the promotion was stored, and has not joined yet. Two promotions of one
  player that cross may leave the world and the row with different roles.
* `GoodsAddUp`: a drop whose session ended before it was stored, or was
  replaced before it could be put back (`world.go:107-108` restores for the
  current session only); a dose neither applied nor returned; and, on several
  connections, a dose consumed though its stack had changed since `ConsumeItem`
  looked (`Consumed`: the dose is in hand, and `due` counts what the statement
  really deleted, which may be nothing or another item). A dose consumed twice
  and refunded once is doubled in this way: the cause is that of the finding
  below, seen from the screens.
* `GearAgrees`: the window between the database and the world; a session whose
  equipment another session changed since it read the inventory, or which read
  the stacks and what is worn (`inventory.go:300-327`, two statements) of two
  different inventories; a removal that could not be read back; a worn item
  deleted with its stack, which the world is not told: one that is handed in,
  or, on several connections, one in the slot of a dose whose `ConsumeItem`
  raced.
* `ScreensCatchUp`: on several connections, a change before whose commit another
  transaction was committed, after its own inventory had been read back. `Author`
  then names nobody as having made the newest inventory, since nobody need have
  read it; the next change, or a gift one is told of, ends the exception.
* On one connection (`Serial`) the exceptions for several connections do not
  exist: `Consumed` leaves `due` as it is and every change has its author. There
  `GoodsAddUp` and `ScreensCatchUp` say, races included, that no dose is doubled
  and no screen left behind by overlapping calls.
* `SavedUnlessOvertaken`: a newest save that failed or was overtaken, a result
  handled after a newer snapshot until the next one, a staff command undone in
  the world before the session saw it, a join with rows read too early.
* `PointsAddUp`: numbers of two moments, from a spent point's answer handled
  with an older or newer level in the copy; levels past `MaxInt`.

`CHECK_DEADLOCK FALSE` stands in the configurations of `World`, whose goroutine
really returns at shutdown; of `Economy`, where nothing is left to do once
`MaxCalls` calls have been made; and of `Accounts`, `Client` and `Saves`, where
every session has ended and the bounds on commands, keys and changes are used
up. Everywhere else deadlock is checked.

Fairness. `World`: the broadcast ticker's channel and the closed `done` stay
ready until the loop takes them, and Go's `select` chooses at random among the
ready cases, so neither is passed over for ever; clients, players and
administrators owe nothing. `Enemies`: the tick and the passing of time.
`Economy`: the database answers a statement that is not waiting for a lock.
`Admission`, `Accounts`, `Client` and `Saves` state none and check safety only:
what they would owe is a user's key or a network's answer.

## Findings

*`ConsumeItem` on PostgreSQL* (`economy_consume`; `repository/inventory.go:161-201`).
It reads the stack without locking, then deletes or decrements it by slot and
does not look at how many rows it changed. Two calls can both report having
consumed the last item, and one can consume a stack a sale has just been paid
for. `inventory_test.go:266-269` expects a consumption of what is gone to fail
with `ErrItemNotOwned`; every other mutation of the inventory takes
`lockInventory` and `requireOneRow`. `Client` follows the same race to where it
is felt: the dose of a replaced session is refunded (`ui/inventory.go:235`) while
the other session's heals, and what is deleted instead may be a stack that was
put in the same slot, and even worn.

*Observed while modelling, not claimed as findings*: no test, comment or
assertion says otherwise of them, so no run is about them.

* `repository/inventory.go:222`: on PostgreSQL `Equip` may look at a stack, a
  sale may free its slot, an addition reuse the slot's number for another item,
  and `Equip` then wears that item. `WornFits` is claimed for one connection.
* `ui/shop.go:186-188`: with the Sell tab open, a result other than a trade's
  may shorten the list below the selection, and the next key indexes past it.
  Closing and reopening the shop lowers its flag while a trade is in flight.
* `ui/session_commands.go:122-140`: a drop is lost when the session ends before
  the pickup's answer is handled, or when `RestorePickup` refuses a replaced one.
* `repository/inventory.go:268`: `Unequip` deletes and reads back in no
  transaction; a failed read leaves the world counting what is not worn.
* `ui/quest.go:408-411`: a quest's objective may be equipment. Handing in a worn
  stack takes it off by cascade (`202607270001_initial_schema.go:31-37`), and
  nothing calls `UpdateEquipment`: the world counts it until equipment changes
  again or the character joins anew.
* `repository/inventory.go:117` and `252`: `AddItem` and `Equip` of one session
  read the inventory back before they commit and lock different rows. On
  PostgreSQL both answers can lack the other's change, and nothing reads the
  inventory again.
* `repository/inventory.go:300-327`: `FindOrCreate` reads the stacks and then what
  is worn, outside a transaction when a session loads or reloads.
* `world/players.go:277`: a dropped event may be the one that says the inventory
  changed. Results handled out of order leave the older inventory on the screen.
* `ui/game_model.go:268-290`: when another connection of the key has created the
  character first, its quests are not loaded.
* A program that ends between asking to join and hearing the answer leaves its
  session in the world until the character joins again or is kicked.
* `ui/game_model.go:261`: a spent point's answer is saved with the level of the
  copy, which may be of another moment; the next join takes over that row.
* `ui/session_commands.go:145`: an older save may be written last. A row that
  was changed between being read and the join is not what the world plays with.
* `world/progression.go:76`: experience can carry a level past the largest
  integer; `UpdateProgress` then refuses every save of it.
* `admin/handler.go:183`: a moderator's kick may reach somebody promoted since
  the look at their role.

## Proofs

`WorldProofs`, `EnemiesProofs`, `EconomyProofs`, `AdmissionProofs`,
`AccountsProofs`, `ClientProofs` and `SavesProofs`, with the lemmas they share
in `Sums`; checked by `tlapm` from the named ASSUMEs of the modules, which say
what loading content and configuration guarantee. Every invariant and every
action property the passing runs check is a theorem here, for every value of
the constants.

| Theorem | Argument |
|---|---|
| *World* | |
| `TypeCorrect` | one lemma per helper, one step per action |
| `ChannelsAlwaysMatchSessions` | inductive with the type invariant and "a live token is one handed out, to that character, and not yet closed" (`SessionInv`): without it a late leave could be matched to somebody else's session |
| `NewestSnapshotAlwaysCurrent` | inductive; the core is `BroadcastShows`: an area nobody entered, left or changed looks as before, and the others are broadcast or pending |
| `ChatAlwaysInOrder` | inductive with `ChatInv`: the history and every player's channel are in order and hold nothing newer than the last message said. A message said may be dropped by a full channel, but what is appended is newer than all before it |
| `AlwaysOnGround` | inductive with the assumptions on content |
| `LoopCannotWait` | the history is bounded by its limit, the channel is not smaller |
| `WorldImplementsPresence` | every step maps to a step of `Presence` or a stutter, from `SessionInv` |
| *Enemies* | |
| `BooksAlwaysBalance`, `RespawnNeverForgotten` | together: `count` is the number of live enemies of the spawn and at most its maximum, a timer runs exactly while it is short. Neither is inductive alone: a loss keeps the second only because of the first, a birth adds exactly one to the brood only because IDs are new (`BooksInv`) |
| `TypeCorrect`, `EnemiesAlwaysStayHome`, `PlayersAlwaysStandAlive` | from `EnemiesInvariant`. A tick is a fold over the set of enemies, in any order; what holds of it is `Sound`, kept by whatever one enemy does, and it holds of the whole tick by induction over the enemies that have acted (`OneByOne` of `Sums`). `Sound` also says who fell, which is what `FallenAlwaysSpared` needs |
| `FallenAlwaysSpared`, `TicksAlwaysNote` | action properties, of every tick that starts in `EnemiesInv`: who was moved by the tick has full health; where the scene differs, a place was noted for the broadcast |
| *Economy* | |
| `TypeCorrect`, `StacksAlwaysFit`, `TransactionsNeverConflict`, `WornAlwaysFits`, `SalesNeverUndress` | from `Invariant`, the lock discipline. Whoever has the row of `inventories` is the only economic transaction past its first statement, so only consumption and equipping come between its statements, and those wait for the stacks it locked. `InStage` says, for each statement, what was read and drafted and that the rows it will rely on are still as they were read: that is why `requireOneRow` never finds a conflict |
| `ResultsAlwaysTrue` | inductive with `GainsShown`: what a filling transaction still has to add and what it has drafted are together what it was asked for. Stated under `ConsumesSerially` (one connection, or nobody consumes): with more connections two consumptions of one stack may both report a success, the finding above: the hypothesis is the code's own limit, not the proof's. SQLite's pool of one satisfies it, and so do both pools of `economy_trades` |
| `TradesAreWhole` | the refinement of `Ledger` under the same hypothesis: all statements but the last are stutters, the commit of a call is one trade of the ledger, an abort or a retry is none |
| *Admission* | |
| `CountsAlwaysMatch`, `LimitsAlwaysHold` | the counters equal the cardinalities of what is open (`CountsInv`); each step changes one set by one element |
| `TypeCorrect` | with `CountsInv`: a counter that is decremented counted what is being closed |
| `WindowsAlwaysLimit` | inductive with `Windows` and `Prompt`: what was let through in a span is counted by the entry, or lies before its window, and no request waits longer than the delay between reading the clock and being counted. Two windows can meet in a span, hence twice the limit; the rest is sums of a history over fewer instants (`SumOfFewer`) |
| *Accounts* | |
| `TypeCorrect` | with `Shape`: how a connection's stage, goroutine and waiting message go together |
| `BansAlwaysHold` | inductive with `Bans`: who holds an unbanned copy of a sentenced character is in `early`. What is in the world was read long before it joined, so the invariant has to follow the copy from the reading to the join |
| `RolesAlwaysAgree` | inductive with `Promotions`: a copy that is going to join has the stored role or is `behind`, and a promotion about to be told to the world carries the stored role unless two crossed |
| `MaintenanceAlwaysAdmitsStaffOnly` | inductive with `Door`: who came while the door was closed is neither new nor naming, and joins as staff |
| *Client* | |
| `ClientInvariant` | seven groups, each kept by every step given the first: what a command is made of at each of its calls (`Typed`), which sessions can have commands or the world's ear (`Placed`), which one command a flag stands for (`Flagged`), what a transaction that is not committed may rely on (`Locked`: the slot it fills is still free, the stack it sells, hands in or wears is still there, and on one connection nothing has happened at all since it looked), where the equipment the world counts is known (`Geared`), where the newest inventory is on its way (`Caught`), and the sum of the goods |
| `TypeCorrect`, `FlagsAlwaysMeanWork`, `GearAlwaysAgrees`, `ScreensAlwaysCatchUp`, `GoodsAlwaysAddUp` | each from one of the groups, for any pool: what is excepted on several connections is in the properties and not in a hypothesis. `ScreensAlwaysCatchUp` and `GoodsAlwaysAddUp` need of `Locked` that a commit changes what was drafted, and, on one connection, that nobody was in between. Of the goods: a step moves one item between ground, hands, bag and sold or lost goods, and the sums over slots and over commands each change at one place |
| *Saves* | |
| `SavesInvariant` | six groups: numbers that add up wherever a player is (`Typed`), which of the world's players each of them is (`Editions`), what a session can have before it plays and after (`Calm`), that the newest snapshot is on its way (`Shown`), that the newest save holds what the session shows or what staff did last (`Kept`), and the order of saves and of staff's changes (`Numbered`). The many actions come in four shapes (the world takes a turn, a session talks, a session takes an answer, a row is written), and each group is kept by each shape |
| `AlwaysSavedUnlessOvertaken` | from `Shown`, `Kept` and `Numbered` for a settled session: nothing newer is anywhere but in the row |
| `PointsAlwaysAddUp` | from `Typed`; the loop of `grantExperience` (`Risen`, a recursive function) is shown to exist and to end because each turn spends experience, and to keep what each turn keeps |

`Sums` holds what would be inductions over data. The library's induction
theorems take an operator as a parameter, which the provers here cannot
instantiate; stated about *sets* (the set of the numbers, or of the finite sets,
of which something holds) the same principles are first-order: `Induction`,
`OneByOne`, and `RecursionExists` and `RecursionKeeps` for a loop that descends.
From these come the lemmas on the community modules' sums: that a sum is a
number, does not depend on the order, and what it becomes when a value, an
element or a part of the set changes.

Model-checked only: the properties under fairness (`WorldLiveness`,
`EconomyWaits`, the refilling of spawns in the enemies' runs), for which the
prover has no ENABLED, and the run that shows the finding on consumption, which
is a counterexample. What holds of the actions' *possibility* (that a run really
reaches the interesting steps) is shown by the runs' coverage.

## What is not modelled

* Drawing and the cached frame, key bindings and layout of screens, the
  animation and repeat timers of movement and attack, the event feed's expiry:
  they decide what is shown and when a key is sent again, and change no state
  another component reads.
* The builders of areas and the parsing and validation of content: they run
  once, before anything is concurrent, and what they guarantee is stated in the
  ASSUMEs of `World`, `Enemies` and `Economy`.
* Listening, host keys, configuration, opening and migrating the database: I/O.
* The reply of a request given up at shutdown (`world.go:70`): it happens only
  when the process ends, and nothing but the database outlives that.
* Names: how they are validated, and the splitting of a command line.

## Plan

Done, in this order: `World` + `Presence` (the loop everything else goes
through), `Enemies`, `Economy` + `Ledger`, `Admission`, `Accounts`, `Client`,
`Saves`; the theorems of the section above for all of them.

Next:

1. Between the models: `Client` takes the writes and the read-back of a
   transaction as one step and its commit as another, where `Economy` has every
   statement and every lock; a refinement of the one by the other would make
   that one chain. `Accounts` and `Client` likewise assume of the world what
   `Presence` promises.
2. The sessions `Admission` counts as those that join in `Accounts`: nobody
   plays who is not counted.
3. The proofs of `Client` and `Saves` follow each action through each group of
   the invariant; the shapes of steps of `SavesProofs` would shorten the former.
