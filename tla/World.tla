-------------------------------- MODULE World --------------------------------
(***************************************************************************)
(* The shared world of UnderShell: the single goroutine behind             *)
(* world.Manager (src/src/world), which owns every live player, and the    *)
(* four channels through which each connected client hears from it.        *)
(*                                                                         *)
(* One action is one iteration of runtimeState.run: a request taken from   *)
(* the unbuffered events channel, a tick, or the observation of done.      *)
(* Requests carry the character and the token the sender holds, so a       *)
(* client that was replaced or kicked keeps sending with its old token     *)
(* until it notices: those requests are enabled here too.                  *)
(*                                                                         *)
(* Data the properties do not tell apart is abstracted: a location is an   *)
(* area and a cell, Stats is everything else about a player that others    *)
(* see (health, level, skills, role), a Scene is the enemies and ground    *)
(* items of one area.  The event feed of a player is left out: sendEvent   *)
(* never blocks and never changes the world.  The movement throttle and    *)
(* every other refusal is a step that changes nothing.                     *)
(***************************************************************************)
EXTENDS Integers, Sequences, FiniteSets

CONSTANTS
  Characters,     \* character IDs
  Areas,          \* the areas loaded from content
  LostArea,       \* an area a saved character names that is no longer loaded
  Cells,          \* points of a map
  Stats,          \* what others see of a player besides its location
  Scenes,         \* enemies and ground items of one area
  Walkable,       \* [Areas -> SUBSET Cells]
  NPCCells,       \* [Areas -> SUBSET Cells]: cells a non-player character occupies
  OffMap,         \* any point beyond the edge of a map
  Near,           \* the points one move away from a cell
  Waypoints,      \* the cells of an area that lead elsewhere
  Destination,    \* [Waypoints -> Locations]
  AreaSpawn,      \* [Areas -> Cells]
  DefaultSpawn,   \* the location players appear at when they have no other
  ChatHistoryLimit, ChatCapacity,
  MaxTokens,      \* bound: sessions ever opened
  MaxMessages     \* bound: chat messages ever sent

Locations == [area : Areas, cell : Cells]
Tokens == 1 .. MaxTokens
Messages == 1 .. MaxMessages

Offline == [token |-> 0]
Nobody == "nobody"
NoSnapshot == [area |-> LostArea]

(* What content loading guarantees: buildArea lets a map spawn players only  *)
(* on ground, NewAreas lets waypoints lead only onto ground, SetDefaultSpawn *)
(* refuses anything else.                                                    *)
ASSUME AreasAssumption ==
  /\ LostArea \notin Areas
  /\ Walkable \in [Areas -> SUBSET Cells]
  /\ NPCCells \in [Areas -> SUBSET Cells]
  /\ OffMap \notin Cells
  /\ Near \in [Cells -> SUBSET (Cells \cup {OffMap})]
  /\ AreaSpawn \in [Areas -> Cells]
  /\ \A a \in Areas : AreaSpawn[a] \in Walkable[a]

ASSUME WaypointsAssumption ==
  /\ Waypoints \subseteq Locations
  /\ Destination \in [Waypoints -> Locations]
  /\ \A w \in Waypoints : Destination[w].cell \in Walkable[Destination[w].area]

ASSUME DefaultSpawnAssumption ==
  /\ DefaultSpawn \in Locations
  /\ DefaultSpawn.cell \in Walkable[DefaultSpawn.area]

ASSUME BoundsAssumption ==
  /\ Nobody \notin Characters
  /\ MaxTokens \in Nat
  /\ MaxMessages \in Nat
  /\ ChatHistoryLimit \in Nat
  /\ ChatCapacity \in Nat
  /\ ChatHistoryLimit <= ChatCapacity

VARIABLES
  live,      \* [Characters -> the active player or Offline]: playerSystem.live
  owner,     \* [Tokens -> the character a token was issued to]
  closed,    \* [Tokens -> how often the channels of that session were closed]
  scene,     \* [Areas -> Scenes]: enemySystem.live and lootSystem.live by area
  pending,   \* runtimeState.pendingAreas
  history,   \* chatSystem.history
  sent,      \* chat messages accepted so far
  done,      \* Manager.done is closed
  running    \* the world goroutine has not returned

vars == <<live, owner, closed, scene, pending, history, sent, done, running>>

-----------------------------------------------------------------------------
(* Helpers over the live players. *)

Online(players) == {c \in Characters : players[c] # Offline}

ActiveAreas == {live[c].area : c \in Online(live)}

View(c, player) == [who |-> c, cell |-> player.cell, stats |-> player.stats]

(* What one recipient would be sent now: every player, enemy and ground    *)
(* item of the area it is in.                                              *)
InArea(players, a) == {c \in Online(players) : players[c].area = a}

Snapshot(players, sc, c) ==
  LET a == players[c].area
  IN  [area |-> a,
       players |-> {View(d, players[d]) : d \in InArea(players, a)},
       scene |-> sc[a]]

(* The updates channel holds one snapshot.  A push empties it first, so    *)
(* that what the client reads next is what was pushed last: newest is that *)
(* snapshot, unread whether it is still in the channel.                    *)
PushIfEmpty(player, snapshot) ==
  IF player.unread THEN player
                   ELSE [player EXCEPT !.newest = snapshot, !.unread = TRUE]

Push(player, snapshot) ==
  [player EXCEPT !.newest = snapshot, !.unread = TRUE]

Broadcast(players, sc, areas) ==
  [c \in Characters |->
     IF c \in Online(players) /\ players[c].area \in areas
       THEN Push(players[c], Snapshot(players, sc, c))
       ELSE players[c]]

(* A handler leaves the players as given and sends every area it touched.  *)
Publish(players, sc, areas) ==
  /\ live' = Broadcast(players, sc, areas)
  /\ scene' = sc
  /\ pending' = pending \ areas

Authenticated(c, t) == c \in Online(live) /\ live[c].token = t

CloseChannels(ts) == [t \in Tokens |-> closed[t] + IF t \in ts THEN 1 ELSE 0]

-----------------------------------------------------------------------------
(* Where a player stands. *)

(* Players are placed at the saved location when it still is a place to    *)
(* stand on, else at a spawn.                                              *)
PlaceTrusting(saved) ==
  IF saved.area \notin Areas THEN DefaultSpawn ELSE saved

Place(saved) ==
  IF saved.area \notin Areas THEN DefaultSpawn
  ELSE IF saved.cell \in Walkable[saved.area] THEN saved
  ELSE [saved EXCEPT !.cell = AreaSpawn[saved.area]]

MoveThroughWalls(from, target) ==
  LET to == [from EXCEPT !.cell = target]
  IN  IF target \in NPCCells[from.area] THEN from
      ELSE IF to \in Waypoints THEN Destination[to]
      ELSE to

MoveTo(from, target) ==
  LET to == [from EXCEPT !.cell = target]
  IN  IF target \notin Walkable[from.area] \/ target \in NPCCells[from.area] THEN from
      ELSE IF to \in Waypoints THEN Destination[to]
      ELSE to

Location(player) == [area |-> player.area, cell |-> player.cell]

At(player, location) ==
  [player EXCEPT !.area = location.area, !.cell = location.cell]

-----------------------------------------------------------------------------
(* Sessions. *)

NewPlayer(t, location, stats) ==
  [token |-> t, area |-> location.area, cell |-> location.cell, stats |-> stats,
   newest |-> NoSnapshot, unread |-> FALSE, chats |-> history]

(* Sending the history into the new chats channel is the only send of the  *)
(* loop that waits for room.                                               *)
PreloadFits == Len(history) <= ChatCapacity

ChangedByJoinForgettingOld(c, saved, location) == {saved.area, location.area}

ChangedByJoin(c, saved, location) ==
  {saved.area, location.area} \cup
     (IF c \in Online(live) THEN {live[c].area} ELSE {})

ClosedByJoinNone(c) == {}

ClosedByJoin(c) == IF c \in Online(live) THEN {live[c].token} ELSE {}

(* newToken: 16 random bytes never repeat.  Tokens are drawn in order.     *)
FreshTokenNotLive(t) ==
  /\ \A c \in Online(live) : live[c].token # t
  /\ \A u \in 1 .. t - 1 : \E c \in Online(live) : live[c].token = u

FreshToken(t) ==
  /\ owner[t] = Nobody
  /\ \A u \in 1 .. t - 1 : owner[u] # Nobody

Join(c, t, saved, stats) ==
  /\ running
  /\ FreshToken(t)
  /\ PreloadFits
  /\ LET location == Place(saved)
         players == [live EXCEPT ![c] = NewPlayer(t, location, stats)]
     IN  live' = Broadcast(players, scene, ChangedByJoin(c, saved, location))
  /\ owner' = [owner EXCEPT ![t] = c]
  /\ closed' = CloseChannels(ClosedByJoin(c))
  /\ UNCHANGED <<scene, pending, history, sent, done, running>>

(* A session ends by its own request or by an administrator's kick.        *)
EndSession(c) ==
  /\ running
  /\ Publish([live EXCEPT ![c] = Offline], scene, {live[c].area})
  /\ closed' = CloseChannels({live[c].token})
  /\ UNCHANGED <<owner, history, sent, done, running>>

Leave(c, t) == Authenticated(c, t) /\ EndSession(c)

Kick(c) == c \in Online(live) /\ EndSession(c)

-----------------------------------------------------------------------------
(* Requests that change one player or the scene around it. *)

(* The player changes, and the area it was in and the one it is in now are *)
(* sent out.                                                               *)
Becomes(c, player) ==
  /\ running
  /\ Publish([live EXCEPT ![c] = player], scene, {live[c].area, player.area})

OnlyTheWorldMoves == UNCHANGED <<owner, closed, history, sent, done, running>>

(* A move is refused while the previous one is cooling down; a blocked     *)
(* move is accepted and goes nowhere.  Only a real change is broadcast.    *)
Move(c, t, target) ==
  /\ Authenticated(c, t)
  /\ target \in Near[live[c].cell]
  /\ MoveTo(Location(live[c]), target) # Location(live[c])
  /\ Becomes(c, At(live[c], MoveTo(Location(live[c]), target)))
  /\ OnlyTheWorldMoves

(* An attack that hits someone changes the scene, and the attacker's       *)
(* experience when an enemy falls.                                         *)
Attack(c, t) ==
  /\ Authenticated(c, t)
  /\ running
  /\ \E stats \in Stats, sc \in Scenes \ {scene[live[c].area]} :
       Publish([live EXCEPT ![c].stats = stats],
               [scene EXCEPT ![live[c].area] = sc], {live[c].area})
  /\ OnlyTheWorldMoves

(* The scene of one area changes at a request: an enemy is removed, an     *)
(* item is picked up from it or put back.                                  *)
SceneChanges(a) ==
  /\ running
  /\ \E sc \in Scenes \ {scene[a]} : Publish(live, [scene EXCEPT ![a] = sc], {a})
  /\ OnlyTheWorldMoves

DefeatEnemy(a) == SceneChanges(a)

Pickup(c, t) == Authenticated(c, t) /\ SceneChanges(live[c].area)

(* The item goes back to the area it lay in, which the player may have     *)
(* left since.                                                             *)
RestorePickup(c, t, a) == Authenticated(c, t) /\ SceneChanges(a)

(* Stats become one of some and the player's area is sent out.  What an     *)
(* item or a skill point changes is a change; equipment, grants and roles  *)
(* are sent out even when they leave everything as it was.                 *)
StatsChange(c, possible) ==
  /\ \E stats \in possible : Becomes(c, [live[c] EXCEPT !.stats = stats])
  /\ OnlyTheWorldMoves

UseConsumable(c, t) == Authenticated(c, t) /\ StatsChange(c, Stats \ {live[c].stats})

SpendSkillPoint(c, t) == Authenticated(c, t) /\ StatsChange(c, Stats \ {live[c].stats})

UpdateEquipment(c, t) == Authenticated(c, t) /\ StatsChange(c, Stats)

(* The administrators' requests name a player and carry no token.          *)
GrantExperience(c) == c \in Online(live) /\ StatsChange(c, Stats)

GrantLevels(c) == c \in Online(live) /\ StatsChange(c, Stats)

SetPlayerRole(c) == c \in Online(live) /\ StatsChange(c, Stats)

TeleportToArea(c, a) ==
  /\ c \in Online(live)
  /\ Becomes(c, At(live[c], [area |-> a, cell |-> AreaSpawn[a]]))
  /\ OnlyTheWorldMoves

TeleportToPlayer(c, d) ==
  /\ {c, d} \subseteq Online(live)
  /\ Becomes(c, At(live[c], Location(live[d])))
  /\ OnlyTheWorldMoves

-----------------------------------------------------------------------------
(* Chat. *)

RememberedAll(messages) == messages

(* The most recent messages are kept.                                      *)
Remembered(messages) ==
  IF Len(messages) > ChatHistoryLimit
    THEN SubSeq(messages, Len(messages) - ChatHistoryLimit + 1, Len(messages))
    ELSE messages

RecordedFirst(message) == <<message>> \o history

Recorded(message) == Append(history, message)

(* A client that does not read loses the message; the loop does not wait.  *)
Deliver(player, message) ==
  IF Len(player.chats) < ChatCapacity
    THEN [player EXCEPT !.chats = Append(@, message)]
    ELSE player

BroadcastChat ==
  /\ running
  /\ sent < MaxMessages
  /\ sent' = sent + 1
  /\ history' = Remembered(Recorded(sent + 1))
  /\ live' = [c \in Characters |->
                IF c \in Online(live) THEN Deliver(live[c], sent + 1) ELSE live[c]]
  /\ UNCHANGED <<owner, closed, scene, pending, done, running>>

Chat(c, t) == Authenticated(c, t) /\ BroadcastChat

ServerMessage == BroadcastChat

-----------------------------------------------------------------------------
(* Ticks, shutdown and the clients' receives. *)

(* One enemy tick: players are hurt, some of them die and respawn at the   *)
(* default spawn, enemies of active areas act and due spawns refill        *)
(* anywhere.  Only the areas with players and a visible change are noted.  *)
RespawnAreasWithoutSpawn(dead) == {}

RespawnAreas(dead) == IF dead = {} THEN {} ELSE {DefaultSpawn.area}

Wounded(hurt, dead, stats) ==
  [c \in Characters |->
     IF c \in dead THEN At([live[c] EXCEPT !.stats = stats[c]], DefaultSpawn)
     ELSE IF c \in hurt THEN [live[c] EXCEPT !.stats = stats[c]]
     ELSE live[c]]

EnemiesAct(hurt, dead, stats, sc) ==
  /\ live' = Wounded(hurt, dead, stats)
  /\ scene' = sc
  /\ pending' = pending
       \cup {a \in ActiveAreas : sc[a] # scene[a]}
       \cup {live[c].area : c \in hurt}
       \cup RespawnAreas(dead)

EnemyTick ==
  /\ running
  /\ Online(live) # {}
  /\ \E hurt \in SUBSET Online(live) :
     \E dead \in SUBSET hurt, stats \in [hurt -> Stats], sc \in [Areas -> Scenes] :
       EnemiesAct(hurt, dead, stats, sc)
  /\ UNCHANGED <<owner, closed, history, sent, done, running>>

ManyPending == Cardinality(pending) > 1

AnyPending == pending # {}

BroadcastTick ==
  /\ running
  /\ AnyPending
  /\ Publish(live, scene, pending)
  /\ OnlyTheWorldMoves

(* Manager.Close only closes done; requests may still be served until the  *)
(* loop's select picks it.                                                 *)
Close ==
  /\ ~done
  /\ done' = TRUE
  /\ UNCHANGED <<live, owner, closed, scene, pending, history, sent, running>>

LeftOpen == {}

ClosedAtStop == {live[c].token : c \in Online(live)}

Stop ==
  /\ done
  /\ running
  /\ running' = FALSE
  /\ closed' = CloseChannels(ClosedAtStop)
  /\ UNCHANGED <<live, owner, scene, pending, history, sent, done>>

(* The client takes the waiting snapshot, or the oldest waiting message.   *)
ReceiveSnapshot(c) ==
  /\ c \in Online(live)
  /\ live[c].unread
  /\ live' = [live EXCEPT ![c].unread = FALSE]
  /\ UNCHANGED <<owner, closed, scene, pending, history, sent, done, running>>

ReceiveChat(c) ==
  /\ c \in Online(live)
  /\ live[c].chats # <<>>
  /\ live' = [live EXCEPT ![c].chats = Tail(@)]
  /\ UNCHANGED <<owner, closed, scene, pending, history, sent, done, running>>

-----------------------------------------------------------------------------
Init ==
  /\ live = [c \in Characters |-> Offline]
  /\ owner = [t \in Tokens |-> Nobody]
  /\ closed = [t \in Tokens |-> 0]
  /\ scene \in [Areas -> Scenes]
  /\ pending = {}
  /\ history = <<>>
  /\ sent = 0
  /\ done = FALSE
  /\ running = TRUE

SavedLocations == [area : Areas \cup {LostArea}, cell : Cells]

JoinRequest ==
  \E c \in Characters, t \in Tokens, saved \in SavedLocations, stats \in Stats :
    Join(c, t, saved, stats)

(* What the client of session t, opened for character c, may ask.          *)
SessionRequest(c, t) ==
  \/ Leave(c, t)
  \/ \E target \in Cells \cup {OffMap} : Move(c, t, target)
  \/ Attack(c, t)
  \/ Pickup(c, t)
  \/ \E a \in Areas : RestorePickup(c, t, a)
  \/ UseConsumable(c, t)
  \/ UpdateEquipment(c, t)
  \/ SpendSkillPoint(c, t)
  \/ Chat(c, t)

AdminRequest(c) ==
  \/ Kick(c)
  \/ GrantExperience(c)
  \/ GrantLevels(c)
  \/ SetPlayerRole(c)
  \/ \E a \in Areas : TeleportToArea(c, a)
  \/ \E d \in Characters : TeleportToPlayer(c, d)

Next ==
  \/ JoinRequest
  \/ \E t \in Tokens : owner[t] # Nobody /\ SessionRequest(owner[t], t)
  \/ \E c \in Characters : AdminRequest(c)
  \/ \E a \in Areas : DefeatEnemy(a)
  \/ ServerMessage
  \/ EnemyTick
  \/ BroadcastTick
  \/ Close
  \/ Stop
  \/ \E c \in Characters : ReceiveSnapshot(c)
  \/ \E c \in Characters : ReceiveChat(c)

(* The broadcast ticker's channel keeps its tick until the loop takes it,  *)
(* and a closed done stays ready: the loop's select cannot pass either     *)
(* over forever.  Clients and enemies owe nothing.                         *)
Fairness == WF_vars(BroadcastTick) /\ WF_vars(Stop)

Spec == Init /\ [][Next]_vars /\ Fairness

-----------------------------------------------------------------------------
(* Properties. *)

Views == [who : Characters, cell : Cells, stats : Stats]

Snapshots == [area : Areas, players : SUBSET Views, scene : Scenes]

Players ==
  [token : Tokens, area : Areas, cell : Cells, stats : Stats,
   newest : Snapshots \cup {NoSnapshot}, unread : BOOLEAN, chats : Seq(Messages)]

(* Every variable holds a value of its kind.                               *)
TypeOK ==
  /\ live \in [Characters -> Players \cup {Offline}]
  /\ owner \in [Tokens -> Characters \cup {Nobody}]
  /\ closed \in [Tokens -> Nat]
  /\ scene \in [Areas -> Scenes]
  /\ pending \in SUBSET Areas
  /\ history \in Seq(Messages)
  /\ sent \in 0 .. MaxMessages
  /\ done \in BOOLEAN
  /\ running \in BOOLEAN

(* While the world runs, a session's channels are open exactly while it is *)
(* its character's live one, and no channel is ever closed twice: the loop *)
(* would otherwise panic on a send to, or a second close of, a closed      *)
(* channel, or leave a client waiting on channels nobody closes            *)
(* (playerSystem.join, leave, kick and closeAll).                          *)
ChannelsMatchSessions ==
  \A t \in Tokens :
    /\ closed[t] <= 1
    /\ running /\ owner[t] # Nobody =>
         (closed[t] = 0 <=> live[owner[t]].token = t)
    /\ owner[t] = Nobody => closed[t] = 0

(* The last snapshot put in a player's channel shows its area as it is,    *)
(* unless the area waits for the broadcast ticker: no handler, tick or     *)
(* session change alters what a player sees and forgets it                 *)
(* (broadcastAreas, pendingAreas and every handler of runtimeState).       *)
NewestSnapshotIsCurrent ==
  \A c \in Online(live) :
    \/ live[c].newest = Snapshot(live, scene, c)
    \/ live[c].area \in pending

(* The only send of the loop that waits for room never has to: the history *)
(* a joining player is handed fits in its new channel.                     *)
LoopNeverWaits == Len(history) <= ChatCapacity

(* A client reads chat messages in the order they were said, none twice,   *)
(* although the history and the live messages reach it on different paths. *)
ChatInOrder ==
  \A c \in Online(live) :
    \A i \in 1 .. Len(live[c].chats) - 1 : live[c].chats[i] < live[c].chats[i + 1]

(* No one is ever put where nobody can stand, whatever was saved, wherever *)
(* a waypoint, a teleport or a respawn leads.                              *)
StandsOnGround ==
  \A c \in Online(live) : live[c].cell \in Walkable[live[c].area]

(* Whoever looks at an outdated area is sent the current one, or stops     *)
(* being there: enemy ticks cannot starve the broadcast ticker.            *)
OutdatedViewsAreRefreshed ==
  \A c \in Characters :
    (c \in Online(live) /\ live[c].newest # Snapshot(live, scene, c))
      ~> (~running \/ c \notin Online(live)
            \/ live[c].newest = Snapshot(live, scene, c))

(* Once the manager is closed every client's channels are closed, so that  *)
(* no session waits forever on a world that is gone.                       *)
ShutdownReleasesEveryClient ==
  done ~> (~running /\ \A t \in Tokens : owner[t] # Nobody => closed[t] = 1)

-----------------------------------------------------------------------------
(* The world implements Presence: the sessions present are the tokens of   *)
(* the live players, until the goroutine returns.                          *)

present == [c \in Characters |-> IF running THEN live[c].token ELSE 0]

ended == {t \in Tokens : closed[t] > 0}

P == INSTANCE Presence WITH open <- running

(* Every step of the world is one a session registry may take: tokens are  *)
(* never reused, a newer session ends the older one of its character and   *)
(* no other, and shutdown ends them all (playerSystem.join, leave, kick).  *)
ImplementsPresence == P!Spec

=============================================================================
