----------------------------- MODULE WorldProofs -----------------------------
(***************************************************************************)
(* Proofs about the world for any number of characters, areas, cells,      *)
(* sessions and messages: every session's channels are closed once, what   *)
(* players are shown is current, they stand where they can, chat is read   *)
(* in order, the loop never waits and the world is a session registry.     *)
(***************************************************************************)
EXTENDS World, TLAPS

-----------------------------------------------------------------------------
(* Broadcasting and the helpers it is made of. *)

(* Broadcasting to some areas changes nobody's presence, place or looks.   *)
LEMMA BroadcastKeepsViews ==
  ASSUME NEW players \in [Characters -> Players \cup {Offline}],
         NEW sc \in [Areas -> Scenes], NEW areas
  PROVE  LET after == Broadcast(players, sc, areas) IN
         /\ Online(after) = Online(players)
         /\ \A c \in Online(players) :
              /\ after[c].token = players[c].token
              /\ after[c].area = players[c].area
              /\ after[c].cell = players[c].cell
              /\ after[c].stats = players[c].stats
              /\ after[c].chats = players[c].chats
              /\ Snapshot(after, sc, c) = Snapshot(players, sc, c)
<1> DEFINE after == Broadcast(players, sc, areas)
<1>1. \A c \in Characters :
        /\ c \in Online(players) <=> c \in Online(after)
        /\ c \in Online(players) =>
             /\ after[c].token = players[c].token
             /\ after[c].area = players[c].area
             /\ after[c].cell = players[c].cell
             /\ after[c].stats = players[c].stats
             /\ after[c].chats = players[c].chats
  BY DEF Broadcast, Push, Online, Players, Offline
<1>2. Online(after) = Online(players)
  BY <1>1 DEF Online
<1>3. \A a : InArea(after, a) = InArea(players, a)
  BY <1>1, <1>2 DEF InArea, Online
<1>4. \A d \in Online(players) : View(d, after[d]) = View(d, players[d])
  BY <1>1 DEF View, Online
<1>5. \A a : {View(d, after[d]) : d \in InArea(after, a)}
           = {View(d, players[d]) : d \in InArea(players, a)}
  BY <1>3, <1>4 DEF InArea
<1>6. \A c \in Online(players) : Snapshot(after, sc, c) = Snapshot(players, sc, c)
  BY <1>1, <1>5 DEF Snapshot, Online
<1>7. QED
  BY <1>1, <1>2, <1>6 DEF Online

PlayerMaps == [Characters -> Players \cup {Offline}]

(* A player is never mistaken for nobody: its token is not 0.              *)
LEMMA OnlinePlayers ==
  ASSUME NEW players \in PlayerMaps, NEW c \in Characters
  PROVE  /\ c \in Online(players) <=> players[c] \in Players
         /\ c \notin Online(players) <=> players[c] = Offline
         /\ c \in Online(players) <=> players[c].token # 0
         /\ c \in Online(players) => players[c].area \in Areas
BY BoundsAssumption DEF PlayerMaps, Players, Offline, Online, Tokens

(* What is broadcast is a snapshot of an area.                             *)
LEMMA SnapshotType ==
  ASSUME NEW players \in PlayerMaps, NEW sc \in [Areas -> Scenes],
         NEW c \in Online(players)
  PROVE  Snapshot(players, sc, c) \in Snapshots
<1> DEFINE a == players[c].area
<1>1. a \in Areas
  BY OnlinePlayers DEF Online
<1>2. ASSUME NEW d \in InArea(players, a)
      PROVE  View(d, players[d]) \in Views
  <2>1. d \in Characters /\ players[d] \in Players
    BY OnlinePlayers DEF InArea, Online
  <2>2. players[d].cell \in Cells /\ players[d].stats \in Stats
    BY <2>1 DEF Players
  <2>3. QED
    BY <2>1, <2>2 DEF View, Views
<1>3. {View(d, players[d]) : d \in InArea(players, a)} \in SUBSET Views
  BY <1>2
<1>4. sc[a] \in Scenes
  BY <1>1
<1>5. QED
  BY <1>1, <1>3, <1>4 DEF Snapshot, Snapshots

LEMMA BroadcastType ==
  ASSUME NEW players \in PlayerMaps, NEW sc \in [Areas -> Scenes], NEW areas
  PROVE  Broadcast(players, sc, areas) \in PlayerMaps
<1>1. ASSUME NEW c \in Characters, c \in Online(players), players[c].area \in areas
      PROVE  Push(players[c], Snapshot(players, sc, c)) \in Players
  <2>1. players[c] \in Players
    BY <1>1, OnlinePlayers
  <2>2. Snapshot(players, sc, c) \in Snapshots
    BY <1>1, SnapshotType
  <2>3. QED
    BY <2>1, <2>2 DEF Push, Players
<1>2. QED
  BY <1>1 DEF Broadcast, PlayerMaps

(* Every location a player is given is one of the map.                     *)
LEMMA PlaceType ==
  ASSUME NEW saved \in SavedLocations
  PROVE  /\ Place(saved) \in Locations
         /\ Place(saved).cell \in Walkable[Place(saved).area]
BY AreasAssumption, DefaultSpawnAssumption DEF Place, SavedLocations, Locations

LEMMA MoveToType ==
  ASSUME NEW from \in Locations, NEW target
  PROVE  /\ MoveTo(from, target) \in Locations
         /\ from.cell \in Walkable[from.area]
              => MoveTo(from, target).cell \in Walkable[MoveTo(from, target).area]
<1> DEFINE to == [from EXCEPT !.cell = target]
<1>1. CASE target \notin Walkable[from.area] \/ target \in NPCCells[from.area]
  BY <1>1 DEF MoveTo
<1>2. CASE ~(target \notin Walkable[from.area] \/ target \in NPCCells[from.area])
  <2>1. target \in Cells /\ to \in Locations /\ to.cell = target /\ to.area = from.area
    BY <1>2, AreasAssumption DEF Locations
  <2>2. CASE to \in Waypoints
    BY <1>2, <2>1, <2>2, AreasAssumption, WaypointsAssumption DEF MoveTo
  <2>3. CASE to \notin Waypoints
    BY <1>2, <2>1, <2>3 DEF MoveTo
  <2>4. QED
    BY <2>2, <2>3
<1>3. QED
  BY <1>1, <1>2

LEMMA AtType ==
  ASSUME NEW player \in Players, NEW location \in Locations
  PROVE  /\ At(player, location) \in Players
         /\ At(player, location).area = location.area
         /\ At(player, location).cell = location.cell
         /\ At(player, location).token = player.token
         /\ Location(player) \in Locations
         /\ Location(player).area = player.area
         /\ Location(player).cell = player.cell
BY DEF At, Location, Locations, Players

-----------------------------------------------------------------------------
(* The many requests come in few shapes.  A proof about all steps has one  *)
(* case for each of these instead of one for each request.                 *)

Relocates(c) ==
  \E location \in Locations :
    /\ StandsOnGround => location.cell \in Walkable[location.area]
    /\ Becomes(c, At(live[c], location))
    /\ OnlyTheWorldMoves

Fights(c) ==
  /\ running
  /\ \E stats \in Stats, sc \in Scenes :
       Publish([live EXCEPT ![c].stats = stats],
               [scene EXCEPT ![live[c].area] = sc], {live[c].area})
  /\ OnlyTheWorldMoves

Shapes ==
  \/ \E c \in Characters, t \in Tokens, saved \in SavedLocations, stats \in Stats :
       Join(c, t, saved, stats)
  \/ \E c \in Online(live) : EndSession(c)
  \/ \E c \in Online(live) : Relocates(c)
  \/ \E c \in Online(live) : Fights(c)
  \/ \E c \in Online(live) : StatsChange(c, Stats)
  \/ \E a \in Areas : SceneChanges(a)
  \/ BroadcastChat
  \/ EnemyTick
  \/ BroadcastTick
  \/ Close
  \/ Stop
  \/ \E c \in Characters : ReceiveSnapshot(c)
  \/ \E c \in Characters : ReceiveChat(c)
  \/ UNCHANGED vars

LEMMA MoveShape ==
  ASSUME TypeOK, NEW c \in Characters, NEW t \in Tokens, NEW target, Move(c, t, target)
  PROVE  c \in Online(live) /\ Relocates(c)
<1>1. c \in Online(live)
  BY DEF Move, Authenticated
<1>2. live[c] \in Players
  BY <1>1, OnlinePlayers DEF TypeOK, PlayerMaps
<1> DEFINE location == MoveTo(Location(live[c]), target)
<1>3. Location(live[c]) \in Locations /\ Location(live[c]).area = live[c].area
        /\ Location(live[c]).cell = live[c].cell
  BY <1>2 DEF Location, Locations, Players
<1>4. location \in Locations
  BY <1>3, MoveToType
<1>5. StandsOnGround => location.cell \in Walkable[location.area]
  BY <1>1, <1>3, MoveToType DEF StandsOnGround
<1>6. Becomes(c, At(live[c], location)) /\ OnlyTheWorldMoves
  BY DEF Move
<1> HIDE DEF location
<1>7. QED
  BY <1>1, <1>4, <1>5, <1>6 DEF Relocates

LEMMA TeleportShapes ==
  ASSUME TypeOK, NEW c \in Characters
  PROVE  /\ \A a \in Areas : TeleportToArea(c, a) => c \in Online(live) /\ Relocates(c)
         /\ \A d \in Characters :
              TeleportToPlayer(c, d) => c \in Online(live) /\ Relocates(c)
<1>1. ASSUME NEW a \in Areas, TeleportToArea(c, a)
      PROVE  c \in Online(live) /\ Relocates(c)
  <2> DEFINE location == [area |-> a, cell |-> AreaSpawn[a]]
  <2>1. location \in Locations /\ location.cell \in Walkable[location.area]
    BY AreasAssumption DEF Locations
  <2>2. c \in Online(live) /\ Becomes(c, At(live[c], location)) /\ OnlyTheWorldMoves
    BY <1>1 DEF TeleportToArea
  <2> HIDE DEF location
  <2>3. QED
    BY <2>1, <2>2 DEF Relocates
<1>2. ASSUME NEW d \in Characters, TeleportToPlayer(c, d)
      PROVE  c \in Online(live) /\ Relocates(c)
  <2> DEFINE location == Location(live[d])
  <2>1. c \in Online(live) /\ d \in Online(live)
    BY <1>2 DEF TeleportToPlayer
  <2>2. live[d] \in Players
    BY <2>1, OnlinePlayers DEF TypeOK, PlayerMaps
  <2>3. location \in Locations /\ location.area = live[d].area
          /\ location.cell = live[d].cell
    BY <2>2 DEF Location, Locations, Players
  <2>4. StandsOnGround => location.cell \in Walkable[location.area]
    BY <2>1, <2>3 DEF StandsOnGround
  <2>5. Becomes(c, At(live[c], location)) /\ OnlyTheWorldMoves
    BY <1>2 DEF TeleportToPlayer
  <2> HIDE DEF location
  <2>6. QED
    BY <2>1, <2>3, <2>4, <2>5 DEF Relocates
<1>3. QED
  BY <1>1, <1>2

LEMMA StepShapes ==
  ASSUME TypeOK, [Next]_vars
  PROVE  Shapes
<1>1. CASE JoinRequest
  BY <1>1 DEF JoinRequest, Shapes
<1>2. ASSUME NEW t \in Tokens, owner[t] # Nobody, SessionRequest(owner[t], t)
      PROVE  Shapes
  <2> DEFINE c == owner[t]
  <2>1. c \in Characters
    BY <1>2 DEF TypeOK
  <2>2. CASE Leave(c, t)
    BY <2>2 DEF Leave, Authenticated, Shapes
  <2>3. CASE \E target \in Cells \cup {OffMap} : Move(c, t, target)
    BY <2>1, <2>3, MoveShape DEF Shapes
  <2>4. CASE Attack(c, t)
    <3>1. c \in Online(live) /\ Fights(c)
      BY <2>4 DEF Attack, Authenticated, Fights
    <3>2. QED
      BY <3>1 DEF Shapes
  <2>5. CASE Pickup(c, t)
    <3>1. live[c].area \in Areas
      BY <2>1, <2>5, OnlinePlayers DEF Pickup, Authenticated, TypeOK, PlayerMaps
    <3>2. QED
      BY <2>5, <3>1 DEF Pickup, Shapes
  <2>6. CASE \E a \in Areas : RestorePickup(c, t, a)
    BY <2>6 DEF RestorePickup, Shapes
  <2>7. CASE UseConsumable(c, t) \/ UpdateEquipment(c, t) \/ SpendSkillPoint(c, t)
    <3>1. c \in Online(live) /\ StatsChange(c, Stats)
      BY <2>7 DEF UseConsumable, UpdateEquipment, SpendSkillPoint, Authenticated, StatsChange
    <3>2. QED
      BY <3>1 DEF Shapes
  <2>8. CASE Chat(c, t)
    BY <2>8 DEF Chat, Shapes
  <2>9. QED
    BY <1>2, <2>2, <2>3, <2>4, <2>5, <2>6, <2>7, <2>8 DEF SessionRequest
<1>3. ASSUME NEW c \in Characters, AdminRequest(c)
      PROVE  Shapes
  <2>1. CASE Kick(c)
    BY <2>1 DEF Kick, Shapes
  <2>2. CASE GrantExperience(c) \/ GrantLevels(c) \/ SetPlayerRole(c)
    BY <2>2 DEF GrantExperience, GrantLevels, SetPlayerRole, Shapes
  <2>3. CASE \E a \in Areas : TeleportToArea(c, a)
    BY <2>3, TeleportShapes DEF Shapes
  <2>4. CASE \E d \in Characters : TeleportToPlayer(c, d)
    BY <2>4, TeleportShapes DEF Shapes
  <2>5. QED
    BY <1>3, <2>1, <2>2, <2>3, <2>4 DEF AdminRequest
<1>4. ASSUME NEW a \in Areas, DefeatEnemy(a)
      PROVE  Shapes
  BY <1>4 DEF DefeatEnemy, Shapes
<1>5. CASE ServerMessage \/ EnemyTick \/ BroadcastTick \/ Close \/ Stop
  BY <1>5 DEF ServerMessage, Shapes
<1>6. CASE \E c \in Characters : ReceiveSnapshot(c) \/ ReceiveChat(c)
  BY <1>6 DEF Shapes
<1>7. CASE UNCHANGED vars
  BY <1>7 DEF Shapes
<1>8. QED
  BY <1>1, <1>2, <1>3, <1>4, <1>5, <1>6, <1>7 DEF Next

-----------------------------------------------------------------------------
(* Type correctness. *)

LEMMA NewPlayerType ==
  ASSUME TypeOK, NEW t \in Tokens, NEW location \in Locations, NEW stats \in Stats
  PROVE  /\ NewPlayer(t, location, stats) \in Players
         /\ NewPlayer(t, location, stats).token = t
         /\ NewPlayer(t, location, stats).area = location.area
         /\ NewPlayer(t, location, stats).cell = location.cell
         /\ NewPlayer(t, location, stats).chats = history
BY DEF NewPlayer, Players, TypeOK, Locations

LEMMA CloseChannelsType ==
  ASSUME TypeOK, NEW ts
  PROVE  CloseChannels(ts) \in [Tokens -> Nat]
<1>1. \A t \in Tokens : closed[t] + (IF t \in ts THEN 1 ELSE 0) \in Nat
  BY DEF TypeOK
<1>2. QED
  BY <1>1 DEF CloseChannels

LEMMA RememberedType ==
  ASSUME NEW messages \in Seq(Messages)
  PROVE  /\ Remembered(messages) \in Seq(Messages)
         /\ Len(Remembered(messages)) <= ChatHistoryLimit
<1>1. CASE Len(messages) > ChatHistoryLimit
  <2> DEFINE first == Len(messages) - ChatHistoryLimit + 1
  <2>1. first \in 1 .. Len(messages) + 1
    BY <1>1, BoundsAssumption
  <2>2. SubSeq(messages, first, Len(messages)) \in Seq(Messages)
    BY <2>1
  <2>3. Len(SubSeq(messages, first, Len(messages))) = ChatHistoryLimit
    BY <2>1, BoundsAssumption
  <2>4. QED
    BY <1>1, <2>2, <2>3, BoundsAssumption DEF Remembered
<1>2. CASE Len(messages) <= ChatHistoryLimit
  BY <1>2, BoundsAssumption DEF Remembered
<1>3. QED
  BY <1>1, <1>2, BoundsAssumption

LEMMA PublishType ==
  ASSUME TypeOK, NEW players \in PlayerMaps, NEW sc \in [Areas -> Scenes], NEW areas,
         Publish(players, sc, areas)
  PROVE  /\ live' \in PlayerMaps
         /\ scene' \in [Areas -> Scenes]
         /\ pending' \in SUBSET Areas
BY BroadcastType DEF Publish, TypeOK

LEMMA BroadcastChatType ==
  ASSUME TypeOK, BroadcastChat
  PROVE  TypeOK'
<1>1. sent + 1 \in Messages
  BY BoundsAssumption DEF BroadcastChat, TypeOK, Messages
<1>2. history' \in Seq(Messages)
  <2>1. Recorded(sent + 1) \in Seq(Messages)
    BY <1>1 DEF TypeOK, Recorded
  <2>2. QED
    BY <2>1, RememberedType DEF BroadcastChat
<1>3. ASSUME NEW c \in Characters, c \in Online(live)
      PROVE  Deliver(live[c], sent + 1) \in Players
  <2>1. live[c] \in Players
    BY <1>3, OnlinePlayers DEF TypeOK, PlayerMaps
  <2>2. Append(live[c].chats, sent + 1) \in Seq(Messages)
    BY <1>1, <2>1 DEF Players
  <2>3. QED
    BY <2>1, <2>2 DEF Deliver, Players
<1>4. live' \in PlayerMaps
  BY <1>3 DEF BroadcastChat, TypeOK, PlayerMaps
<1>5. QED
  BY <1>1, <1>2, <1>4, BoundsAssumption DEF BroadcastChat, TypeOK, PlayerMaps, Messages

LEMMA EnemyTickType ==
  ASSUME TypeOK, EnemyTick
  PROVE  TypeOK'
<1>1. PICK hurt \in SUBSET Online(live) :
        \E dead \in SUBSET hurt, stats \in [hurt -> Stats], sc \in [Areas -> Scenes] :
          EnemiesAct(hurt, dead, stats, sc)
  BY DEF EnemyTick
<1>1a. PICK dead \in SUBSET hurt, stats \in [hurt -> Stats], sc \in [Areas -> Scenes] :
         EnemiesAct(hurt, dead, stats, sc)
  BY <1>1
<1>2. \A c \in Online(live) : c \in Characters /\ live[c] \in Players /\ live[c].area \in Areas
  BY OnlinePlayers DEF Online, TypeOK, PlayerMaps
<1>3. ASSUME NEW c \in hurt
      PROVE  /\ [live[c] EXCEPT !.stats = stats[c]] \in Players
             /\ At([live[c] EXCEPT !.stats = stats[c]], DefaultSpawn) \in Players
  <2>1. [live[c] EXCEPT !.stats = stats[c]] \in Players
    BY <1>2 DEF Players
  <2>2. QED
    BY <2>1, AtType, DefaultSpawnAssumption
<1>4. live' \in PlayerMaps
  BY <1>1a, <1>3 DEF TypeOK, PlayerMaps, EnemiesAct, Wounded
<1>5. pending' \in SUBSET Areas
  <2>1. DefaultSpawn.area \in Areas
    BY AreasAssumption, DefaultSpawnAssumption DEF Locations
  <2>2. RespawnAreas(dead) \subseteq Areas
    BY <1>2, <2>1 DEF RespawnAreas
  <2>3. QED
    BY <1>1a, <1>2, <2>2 DEF ActiveAreas, EnemiesAct, TypeOK
<1>6. QED
  BY <1>1a, <1>4, <1>5 DEF EnemyTick, EnemiesAct, TypeOK, PlayerMaps

LEMMA TypeStep ==
  ASSUME TypeOK, Shapes
  PROVE  TypeOK'
<1> USE DEF OnlyTheWorldMoves
<1>0. live \in PlayerMaps
  BY DEF TypeOK, PlayerMaps
<1>1. ASSUME NEW c \in Characters, NEW t \in Tokens, NEW saved \in SavedLocations,
             NEW stats \in Stats, Join(c, t, saved, stats)
      PROVE  TypeOK'
  <2> DEFINE players == [live EXCEPT ![c] = NewPlayer(t, Place(saved), stats)]
  <2>1. players \in PlayerMaps
    BY <1>0, PlaceType, NewPlayerType DEF PlayerMaps
  <2>2. live' = Broadcast(players, scene, ChangedByJoin(c, saved, Place(saved)))
    BY <1>1 DEF Join
  <2> HIDE DEF players
  <2>3. live' \in PlayerMaps
    BY <2>1, <2>2, BroadcastType DEF TypeOK
  <2>4. closed' \in [Tokens -> Nat]
    BY <1>1, CloseChannelsType DEF Join
  <2>5. QED
    BY <1>1, <2>3, <2>4 DEF Join, TypeOK, PlayerMaps
<1>2. ASSUME NEW c \in Online(live), EndSession(c)
      PROVE  TypeOK'
  <2>1. [live EXCEPT ![c] = Offline] \in PlayerMaps
    BY <1>0 DEF PlayerMaps
  <2>2. QED
    BY <1>2, <2>1, PublishType, CloseChannelsType DEF EndSession, TypeOK, PlayerMaps
<1>3. ASSUME NEW c \in Online(live), NEW player \in Players,
             Becomes(c, player), OnlyTheWorldMoves
      PROVE  TypeOK'
  <2>1. [live EXCEPT ![c] = player] \in PlayerMaps
    BY <1>0 DEF PlayerMaps
  <2>2. QED
    BY <1>3, <2>1, PublishType DEF Becomes, TypeOK, PlayerMaps
<1>4. ASSUME NEW c \in Online(live), Relocates(c)
      PROVE  TypeOK'
  <2>1. PICK location \in Locations :
          Becomes(c, At(live[c], location)) /\ OnlyTheWorldMoves
    BY <1>4 DEF Relocates
  <2>2. live[c] \in Players
    BY <1>0, OnlinePlayers DEF Online
  <2>3. QED
    BY <1>3, <2>1, <2>2, AtType
<1>5. ASSUME NEW c \in Online(live), Fights(c)
      PROVE  TypeOK'
  <2>1. PICK stats \in Stats, sc \in Scenes :
          Publish([live EXCEPT ![c].stats = stats],
                  [scene EXCEPT ![live[c].area] = sc], {live[c].area})
    BY <1>5 DEF Fights
  <2>2. live[c] \in Players /\ c \in Characters
    BY <1>0, OnlinePlayers DEF Online
  <2>3. [live EXCEPT ![c].stats = stats] \in PlayerMaps
    BY <1>0, <2>2 DEF PlayerMaps, Players
  <2>4. [scene EXCEPT ![live[c].area] = sc] \in [Areas -> Scenes]
    BY DEF TypeOK
  <2>5. QED
    BY <1>5, <2>1, <2>3, <2>4, PublishType DEF Fights, TypeOK, PlayerMaps
<1>6. ASSUME NEW c \in Online(live), StatsChange(c, Stats)
      PROVE  TypeOK'
  <2>1. PICK stats \in Stats : Becomes(c, [live[c] EXCEPT !.stats = stats])
    BY <1>6 DEF StatsChange
  <2>2. live[c] \in Players
    BY <1>0, OnlinePlayers DEF Online
  <2>3. [live[c] EXCEPT !.stats = stats] \in Players
    BY <2>2 DEF Players
  <2>4. QED
    BY <1>3, <1>6, <2>1, <2>3 DEF StatsChange
<1>7. ASSUME NEW a \in Areas, SceneChanges(a)
      PROVE  TypeOK'
  <2>1. PICK sc \in Scenes : Publish(live, [scene EXCEPT ![a] = sc], {a})
    BY <1>7 DEF SceneChanges
  <2>2. [scene EXCEPT ![a] = sc] \in [Areas -> Scenes]
    BY DEF TypeOK
  <2>3. QED
    BY <1>0, <1>7, <2>1, <2>2, PublishType DEF SceneChanges, TypeOK, PlayerMaps
<1>8. CASE BroadcastTick
  BY <1>0, <1>8, PublishType DEF BroadcastTick, TypeOK, PlayerMaps
<1>9. CASE Close
  BY <1>9 DEF Close, TypeOK
<1>10. CASE Stop
  BY <1>10, CloseChannelsType DEF Stop, TypeOK
<1>11. ASSUME NEW c \in Characters, ReceiveSnapshot(c)
       PROVE  TypeOK'
  <2>1. live[c] \in Players
    BY <1>0, <1>11, OnlinePlayers DEF ReceiveSnapshot
  <2>2. [live EXCEPT ![c].unread = FALSE] \in PlayerMaps
    BY <1>0, <2>1 DEF PlayerMaps, Players
  <2>3. QED
    BY <1>11, <2>2 DEF ReceiveSnapshot, TypeOK, PlayerMaps
<1>12. ASSUME NEW c \in Characters, ReceiveChat(c)
       PROVE  TypeOK'
  <2>1. live[c] \in Players
    BY <1>0, <1>12, OnlinePlayers DEF ReceiveChat
  <2>2. Tail(live[c].chats) \in Seq(Messages)
    BY <1>12, <2>1 DEF ReceiveChat, Players
  <2>3. [live EXCEPT ![c].chats = Tail(@)] \in PlayerMaps
    BY <1>0, <2>1, <2>2 DEF PlayerMaps, Players
  <2>4. QED
    BY <1>12, <2>3 DEF ReceiveChat, TypeOK, PlayerMaps
<1>13. CASE UNCHANGED vars
  BY <1>13 DEF vars, TypeOK
<1>14. QED
  BY <1>1, <1>2, <1>4, <1>5, <1>6, <1>7, <1>8, <1>9, <1>10, <1>11, <1>12, <1>13,
     BroadcastChatType, EnemyTickType DEF Shapes

LEMMA TypeInit == Init => TypeOK
<1> SUFFICES ASSUME Init
             PROVE  TypeOK
  OBVIOUS
<1>1. history \in Seq(Messages) /\ sent \in 0 .. MaxMessages
  BY BoundsAssumption DEF Init
<1>2. live \in [Characters -> Players \cup {Offline}]
  BY DEF Init
<1>3. QED
  BY <1>1, <1>2 DEF Init, TypeOK

(* Every reachable state of the world is well typed.                       *)
THEOREM TypeCorrect == Spec => []TypeOK
<1>1. Init => TypeOK
  BY TypeInit
<1>2. TypeOK /\ [Next]_vars => TypeOK'
  BY StepShapes, TypeStep
<1>3. QED
  BY <1>1, <1>2, PTL DEF Spec

-----------------------------------------------------------------------------
(* Sessions and their channels. *)

(* Besides the property: the token of a live player was issued to it.      *)
LiveTokensAreOwn ==
  \A c \in Online(live) : owner[live[c].token] = c

SessionInv == TypeOK /\ ChannelsMatchSessions /\ LiveTokensAreOwn

SameSessions ==
  /\ \A c \in Characters : live'[c].token = live[c].token
  /\ UNCHANGED <<owner, closed, running>>

LEMMA BroadcastTokens ==
  ASSUME NEW players \in PlayerMaps, NEW sc \in [Areas -> Scenes], NEW areas,
         NEW c \in Characters
  PROVE  Broadcast(players, sc, areas)[c].token = players[c].token
<1>1. CASE c \in Online(players)
  BY <1>1, BroadcastKeepsViews DEF PlayerMaps
<1>2. CASE c \notin Online(players)
  BY <1>2 DEF Broadcast
<1>3. QED
  BY <1>1, <1>2

(* Only a join, an end of session and the stop of the loop touch sessions. *)
LEMMA SessionShapes ==
  ASSUME TypeOK, Shapes
  PROVE  \/ \E c \in Characters, t \in Tokens, saved \in SavedLocations, stats \in Stats :
              Join(c, t, saved, stats)
         \/ \E c \in Online(live) : EndSession(c)
         \/ Stop
         \/ SameSessions
<1> USE DEF OnlyTheWorldMoves
<1>0. live \in PlayerMaps /\ scene \in [Areas -> Scenes]
  BY DEF TypeOK, PlayerMaps
<1>1. ASSUME NEW players \in PlayerMaps, NEW sc \in [Areas -> Scenes], NEW areas,
             Publish(players, sc, areas), \A c \in Characters : players[c].token = live[c].token,
             UNCHANGED <<owner, closed, running>>
      PROVE  SameSessions
  BY <1>1, BroadcastTokens DEF Publish, SameSessions
<1>2. ASSUME NEW c \in Online(live), NEW player \in Players, player.token = live[c].token,
             Becomes(c, player), OnlyTheWorldMoves
      PROVE  SameSessions
  <2> DEFINE players == [live EXCEPT ![c] = player]
  <2>1. players \in PlayerMaps /\ \A d \in Characters : players[d].token = live[d].token
    BY <1>0, <1>2 DEF PlayerMaps
  <2>2. Publish(players, scene, {live[c].area, player.area})
    BY <1>2 DEF Becomes
  <2> HIDE DEF players
  <2>3. QED
    BY <1>0, <1>1, <1>2, <2>1, <2>2
<1>3. ASSUME NEW c \in Online(live), Relocates(c)
      PROVE  SameSessions
  <2>1. PICK location \in Locations :
          Becomes(c, At(live[c], location)) /\ OnlyTheWorldMoves
    BY <1>3 DEF Relocates
  <2>2. live[c] \in Players
    BY <1>0, OnlinePlayers DEF Online
  <2>3. QED
    BY <1>2, <2>1, <2>2, AtType
<1>4. ASSUME NEW c \in Online(live), Fights(c)
      PROVE  SameSessions
  <2>1. PICK stats \in Stats, sc \in Scenes :
          Publish([live EXCEPT ![c].stats = stats],
                  [scene EXCEPT ![live[c].area] = sc], {live[c].area})
    BY <1>4 DEF Fights
  <2>2. live[c] \in Players /\ c \in Characters
    BY <1>0, OnlinePlayers DEF Online
  <2> DEFINE players == [live EXCEPT ![c].stats = stats]
  <2>3. players \in PlayerMaps /\ \A d \in Characters : players[d].token = live[d].token
    BY <1>0, <2>2 DEF PlayerMaps, Players
  <2>4. [scene EXCEPT ![live[c].area] = sc] \in [Areas -> Scenes]
    BY <1>0
  <2> HIDE DEF players
  <2>5. Publish(players, [scene EXCEPT ![live[c].area] = sc], {live[c].area})
    BY <2>1 DEF players
  <2>6. QED
    BY <1>1, <1>4, <2>3, <2>4, <2>5 DEF Fights
<1>5. ASSUME NEW c \in Online(live), StatsChange(c, Stats)
      PROVE  SameSessions
  <2>1. PICK stats \in Stats : Becomes(c, [live[c] EXCEPT !.stats = stats])
    BY <1>5 DEF StatsChange
  <2>2. live[c] \in Players
    BY <1>0, OnlinePlayers DEF Online
  <2>3. [live[c] EXCEPT !.stats = stats] \in Players
          /\ [live[c] EXCEPT !.stats = stats].token = live[c].token
    BY <2>2 DEF Players
  <2>4. QED
    BY <1>2, <1>5, <2>1, <2>3 DEF StatsChange
<1>6. ASSUME NEW a \in Areas, SceneChanges(a)
      PROVE  SameSessions
  <2>1. PICK sc \in Scenes : Publish(live, [scene EXCEPT ![a] = sc], {a})
    BY <1>6 DEF SceneChanges
  <2>2. [scene EXCEPT ![a] = sc] \in [Areas -> Scenes]
    BY <1>0
  <2>3. QED
    BY <1>0, <1>1, <1>6, <2>1, <2>2 DEF SceneChanges
<1>7. CASE BroadcastChat
  <2>1. ASSUME NEW c \in Characters, c \in Online(live)
        PROVE  Deliver(live[c], sent + 1).token = live[c].token
    <3>1. live[c] \in Players
      BY <1>0, <2>1, OnlinePlayers
    <3>2. QED
      BY <3>1 DEF Deliver, Players
  <2>2. QED
    BY <1>7, <2>1 DEF BroadcastChat, SameSessions
<1>8. CASE EnemyTick
  <2>1. PICK hurt \in SUBSET Online(live) :
          \E dead \in SUBSET hurt, stats \in [hurt -> Stats], sc \in [Areas -> Scenes] :
            EnemiesAct(hurt, dead, stats, sc)
    BY <1>8 DEF EnemyTick
  <2>2. PICK dead \in SUBSET hurt, stats \in [hurt -> Stats], sc \in [Areas -> Scenes] :
          EnemiesAct(hurt, dead, stats, sc)
    BY <2>1
  <2>3. ASSUME NEW c \in hurt
        PROVE  /\ [live[c] EXCEPT !.stats = stats[c]].token = live[c].token
               /\ At([live[c] EXCEPT !.stats = stats[c]], DefaultSpawn).token = live[c].token
    <3>1. live[c] \in Players
      BY <1>0, OnlinePlayers DEF Online
    <3>2. [live[c] EXCEPT !.stats = stats[c]] \in Players
            /\ [live[c] EXCEPT !.stats = stats[c]].token = live[c].token
      BY <3>1 DEF Players
    <3>3. QED
      BY <3>2, AtType, DefaultSpawnAssumption
  <2>4. QED
    BY <1>8, <2>2, <2>3 DEF EnemyTick, EnemiesAct, Wounded, SameSessions
<1>9. CASE BroadcastTick
  BY <1>0, <1>1, <1>9 DEF BroadcastTick
<1>10. CASE Close
  BY <1>10 DEF Close, SameSessions
<1>11. ASSUME NEW c \in Characters, ReceiveSnapshot(c) \/ ReceiveChat(c)
       PROVE  SameSessions
  <2>1. live[c] \in Players
    BY <1>0, <1>11, OnlinePlayers DEF ReceiveSnapshot, ReceiveChat
  <2>2. \/ live' = [live EXCEPT ![c] = [live[c] EXCEPT !.unread = FALSE]]
        \/ live' = [live EXCEPT ![c] = [live[c] EXCEPT !.chats = Tail(@)]]
    BY <1>11 DEF ReceiveSnapshot, ReceiveChat
  <2>3. /\ [live[c] EXCEPT !.unread = FALSE].token = live[c].token
        /\ [live[c] EXCEPT !.chats = Tail(@)].token = live[c].token
    BY <2>1 DEF Players
  <2>4. \A d \in Characters : live'[d].token = live[d].token
    BY <1>0, <2>2, <2>3 DEF PlayerMaps
  <2>5. UNCHANGED <<owner, closed, running>>
    BY <1>11 DEF ReceiveSnapshot, ReceiveChat
  <2>6. QED
    BY <2>4, <2>5 DEF SameSessions
<1>12. CASE UNCHANGED vars
  BY <1>12 DEF vars, SameSessions
<1>13. QED
  BY <1>3, <1>4, <1>5, <1>6, <1>7, <1>8, <1>9, <1>10, <1>11, <1>12 DEF Shapes

(* What a join and an end of session do to tokens.                         *)
LEMMA JoinEffect ==
  ASSUME TypeOK, NEW c \in Characters, NEW t \in Tokens, NEW saved \in SavedLocations,
         NEW stats \in Stats, Join(c, t, saved, stats)
  PROVE  /\ live'[c].token = t
         /\ \A d \in Characters \ {c} : live'[d].token = live[d].token
<1> DEFINE players == [live EXCEPT ![c] = NewPlayer(t, Place(saved), stats)]
<1>1. /\ players \in PlayerMaps
      /\ players[c].token = t
      /\ \A d \in Characters \ {c} : players[d].token = live[d].token
  BY PlaceType, NewPlayerType DEF PlayerMaps, TypeOK
<1>2. live' = Broadcast(players, scene, ChangedByJoin(c, saved, Place(saved)))
  BY DEF Join
<1>3. scene \in [Areas -> Scenes]
  BY DEF TypeOK
<1> HIDE DEF players
<1>4. QED
  BY <1>1, <1>2, <1>3, BroadcastTokens

LEMMA EndSessionEffect ==
  ASSUME TypeOK, NEW c \in Online(live), EndSession(c)
  PROVE  /\ live'[c].token = 0
         /\ \A d \in Characters \ {c} : live'[d].token = live[d].token
<1> DEFINE players == [live EXCEPT ![c] = Offline]
<1>1. /\ players \in PlayerMaps
      /\ players[c].token = 0
      /\ \A d \in Characters \ {c} : players[d].token = live[d].token
  BY DEF PlayerMaps, TypeOK, Offline, Online
<1>2. live' = Broadcast(players, scene, {live[c].area})
  BY DEF EndSession, Publish
<1>3. scene \in [Areas -> Scenes] /\ c \in Characters
  BY DEF TypeOK, Online
<1> HIDE DEF players
<1>4. QED
  BY <1>1, <1>2, <1>3, BroadcastTokens

(* Two characters never share a token, and a live token is a real one.     *)
LEMMA LiveTokens ==
  ASSUME TypeOK, LiveTokensAreOwn
  PROVE  /\ \A c \in Online(live) : live[c].token \in Tokens
         /\ \A c \in Characters : c \in Online(live) <=> live[c].token # 0
         /\ \A c, d \in Online(live) : live[c].token = live[d].token => c = d
         /\ \A c \in Characters, t \in Tokens : live[c].token = t => c \in Online(live)
<1>0. live \in PlayerMaps
  BY DEF TypeOK, PlayerMaps
<1>1. \A c \in Characters :
        /\ c \in Online(live) <=> live[c].token # 0
        /\ c \in Online(live) => live[c].token \in Tokens
  BY <1>0, OnlinePlayers DEF Players
<1>2. \A t \in Tokens : t # 0
  BY BoundsAssumption DEF Tokens
<1>3. QED
  BY <1>1, <1>2 DEF LiveTokensAreOwn, Online

LEMMA SessionStep ==
  ASSUME SessionInv, Shapes
  PROVE  ChannelsMatchSessions' /\ LiveTokensAreOwn'
<1> USE DEF SessionInv
<1>0. TypeOK'
  BY TypeStep
<1>1. \A c \in Characters : c \in Online(live)' <=> live'[c].token # 0
  <2>1. (live \in PlayerMaps)'
    BY <1>0 DEF TypeOK, PlayerMaps
  <2>2. QED
    BY <2>1, OnlinePlayers
<1>2. \A t \in Tokens : t # 0
  BY BoundsAssumption DEF Tokens
<1>3. ASSUME NEW c \in Characters, NEW t \in Tokens, NEW saved \in SavedLocations,
             NEW stats \in Stats, Join(c, t, saved, stats)
      PROVE  ChannelsMatchSessions' /\ LiveTokensAreOwn'
  <2>1. /\ owner[t] = Nobody
        /\ owner' = [owner EXCEPT ![t] = c]
        /\ closed' = CloseChannels(ClosedByJoin(c))
        /\ running /\ running'
    BY <1>3 DEF Join, FreshToken
  <2>2. /\ live'[c].token = t
        /\ \A d \in Characters \ {c} : live'[d].token = live[d].token
    BY <1>3, JoinEffect
  <2>3. c # Nobody
    BY BoundsAssumption
  <2>4. LiveTokensAreOwn'
    <3>1. ASSUME NEW d \in Characters, live'[d].token # 0
          PROVE  owner'[live'[d].token] = d
      <4>1. CASE d = c
        BY <2>1, <2>2, <4>1 DEF TypeOK
      <4>2. CASE d # c
        <5>1. d \in Online(live) /\ live'[d].token = live[d].token
          BY <2>2, <3>1, <4>2, LiveTokens
        <5>2. owner[live[d].token] = d /\ live[d].token \in Tokens
          BY <5>1, LiveTokens DEF LiveTokensAreOwn
        <5>3. live[d].token # t
          BY <2>1, <5>2, BoundsAssumption
        <5>4. QED
          BY <2>1, <5>1, <5>2, <5>3 DEF TypeOK
      <4>3. QED
        BY <4>1, <4>2
    <3>2. QED
      BY <1>1, <3>1 DEF LiveTokensAreOwn, Online
  <2>5. \A u \in Tokens : u \in ClosedByJoin(c) => owner[u] = c /\ closed[u] = 0 /\ live[c].token = u
    BY <2>1, <2>3, LiveTokens DEF ClosedByJoin, LiveTokensAreOwn, ChannelsMatchSessions
  <2>6. ASSUME NEW u \in Tokens
        PROVE  /\ closed'[u] <= 1
               /\ owner'[u] # Nobody => (closed'[u] = 0 <=> live'[owner'[u]].token = u)
               /\ owner'[u] = Nobody => closed'[u] = 0
    <3>1. closed'[u] = closed[u] + IF u \in ClosedByJoin(c) THEN 1 ELSE 0
      BY <2>1 DEF CloseChannels
    <3>2. closed[u] \in Nat /\ closed[u] <= 1
      BY DEF TypeOK, ChannelsMatchSessions
    <3>3. CASE u = t
      <4>1. u \notin ClosedByJoin(c) /\ closed[u] = 0 /\ owner'[u] = c
        BY <2>1, <2>3, <2>5, <3>3 DEF TypeOK, ChannelsMatchSessions
      <4>2. QED
        BY <2>2, <2>3, <3>1, <3>3, <4>1
    <3>4. CASE u # t /\ u \in ClosedByJoin(c)
      <4>1. closed'[u] = 1 /\ owner'[u] = c /\ live'[c].token = t
        BY <2>1, <2>2, <2>5, <3>1, <3>4 DEF TypeOK
      <4>2. QED
        BY <2>3, <3>4, <4>1
    <3>5. CASE u # t /\ u \notin ClosedByJoin(c)
      <4>1. closed'[u] = closed[u] /\ owner'[u] = owner[u]
        BY <2>1, <3>1, <3>2, <3>5 DEF TypeOK
      <4>2. ASSUME owner[u] # Nobody
            PROVE  live'[owner[u]].token = u <=> live[owner[u]].token = u
        <5>1. owner[u] \in Characters
          BY <4>2 DEF TypeOK
        <5>2. CASE owner[u] = c
          <6>1. live[c].token # u
            BY <3>5, LiveTokens DEF ClosedByJoin
          <6>2. QED
            BY <2>2, <3>5, <5>2, <6>1
        <5>3. CASE owner[u] # c
          BY <2>2, <5>1, <5>3
        <5>4. QED
          BY <5>2, <5>3
      <4>3. QED
        BY <2>1, <3>2, <4>1, <4>2 DEF ChannelsMatchSessions
    <3>6. QED
      BY <3>3, <3>4, <3>5
  <2>7. QED
    BY <2>4, <2>6 DEF ChannelsMatchSessions
<1>4. ASSUME NEW c \in Online(live), EndSession(c)
      PROVE  ChannelsMatchSessions' /\ LiveTokensAreOwn'
  <2>1. /\ live'[c].token = 0
        /\ \A d \in Characters \ {c} : live'[d].token = live[d].token
    BY <1>4, EndSessionEffect
  <2>2. /\ owner' = owner /\ running' = running /\ running
        /\ closed' = CloseChannels({live[c].token})
    BY <1>4 DEF EndSession
  <2>3. c \in Characters /\ live[c].token \in Tokens /\ owner[live[c].token] = c
    BY LiveTokens DEF Online, LiveTokensAreOwn
  <2>4. c # Nobody
    BY <2>3, BoundsAssumption
  <2>5. LiveTokensAreOwn'
    BY <1>1, <2>1, <2>2, LiveTokens DEF LiveTokensAreOwn, Online
  <2>6. ASSUME NEW u \in Tokens
        PROVE  /\ closed'[u] <= 1
               /\ owner[u] # Nobody => (closed'[u] = 0 <=> live'[owner[u]].token = u)
               /\ owner[u] = Nobody => closed'[u] = 0
    <3>1. closed'[u] = closed[u] + IF u = live[c].token THEN 1 ELSE 0
      BY <2>2 DEF CloseChannels
    <3>2. closed[u] \in Nat /\ closed[u] <= 1
      BY DEF TypeOK, ChannelsMatchSessions
    <3>3. CASE u = live[c].token
      <4>1. closed[u] = 0 /\ owner[u] = c
        BY <2>2, <2>3, <2>4, <3>3 DEF ChannelsMatchSessions
      <4>2. QED
        BY <1>2, <2>1, <2>4, <3>1, <3>3, <4>1
    <3>4. CASE u # live[c].token
      <4>1. closed'[u] = closed[u]
        BY <3>1, <3>2, <3>4
      <4>2. ASSUME owner[u] # Nobody
            PROVE  live'[owner[u]].token = u <=> live[owner[u]].token = u
        BY <1>2, <2>1, <3>4, <4>2 DEF TypeOK
      <4>3. QED
        BY <2>2, <3>2, <4>1, <4>2 DEF ChannelsMatchSessions
    <3>5. QED
      BY <3>3, <3>4
  <2>7. QED
    BY <2>2, <2>5, <2>6 DEF ChannelsMatchSessions
<1>5. CASE Stop
  <2>1. /\ live' = live /\ owner' = owner /\ running /\ running' = FALSE
        /\ closed' = CloseChannels(ClosedAtStop)
    BY <1>5 DEF Stop
  <2>2. ASSUME NEW u \in Tokens
        PROVE  /\ closed'[u] <= 1
               /\ owner[u] = Nobody => closed'[u] = 0
    <3>1. closed'[u] = closed[u] + IF u \in ClosedAtStop THEN 1 ELSE 0
      BY <2>1 DEF CloseChannels
    <3>2. closed[u] \in Nat /\ closed[u] <= 1
      BY DEF TypeOK, ChannelsMatchSessions
    <3>3. u \in ClosedAtStop => owner[u] # Nobody /\ closed[u] = 0
      <4>1. SUFFICES ASSUME NEW c \in Online(live), u = live[c].token
                     PROVE  owner[u] # Nobody /\ closed[u] = 0
        BY DEF ClosedAtStop
      <4>2. owner[u] = c /\ c \in Characters
        BY <4>1 DEF LiveTokensAreOwn, Online
      <4>3. QED
        BY <2>1, <4>1, <4>2, BoundsAssumption DEF ChannelsMatchSessions
    <3>4. QED
      BY <3>1, <3>2, <3>3 DEF ChannelsMatchSessions
  <2>3. QED
    BY <2>1, <2>2 DEF ChannelsMatchSessions, LiveTokensAreOwn, Online
<1>6. CASE SameSessions
  <2>1. \A c \in Characters : c \in Online(live)' <=> c \in Online(live)
    BY <1>1, <1>6, LiveTokens DEF SameSessions
  <2>2. LiveTokensAreOwn'
    BY <1>6, <2>1 DEF SameSessions, LiveTokensAreOwn, Online
  <2>3. \A u \in Tokens : owner[u] # Nobody => live'[owner[u]].token = live[owner[u]].token
    BY <1>6 DEF SameSessions, TypeOK
  <2>4. QED
    BY <1>6, <2>2, <2>3 DEF SameSessions, ChannelsMatchSessions
<1>7. QED
  BY <1>3, <1>4, <1>5, <1>6, SessionShapes

LEMMA SessionInvariance == Spec => []SessionInv
<1>1. Init => SessionInv
  <2>1. Init => ChannelsMatchSessions /\ LiveTokensAreOwn
    BY DEF Init, ChannelsMatchSessions, LiveTokensAreOwn, Online
  <2>2. Init => TypeOK
    BY TypeInit
  <2>3. QED
    BY <2>1, <2>2 DEF SessionInv
<1>2. SessionInv /\ [Next]_vars => SessionInv'
  BY StepShapes, TypeStep, SessionStep DEF SessionInv
<1>3. QED
  BY <1>1, <1>2, PTL DEF Spec

(* No channel is used after it is closed, closed twice or left open: for   *)
(* every number of characters and sessions.                                *)
THEOREM ChannelsAlwaysMatchSessions == Spec => []ChannelsMatchSessions
BY SessionInvariance, PTL DEF SessionInv

-----------------------------------------------------------------------------
(* The newest snapshot is current. *)

(* Who is shown what, and how their area is now.                           *)
Shown(players, sc, c) == players[c].newest = Snapshot(players, sc, c)

(* An area nobody entered, left or changed in looks as before.             *)
Untouched(players, sc, a) ==
  /\ sc[a] = scene[a]
  /\ \A c \in Characters :
       /\ c \in Online(live) /\ live[c].area = a => players[c] = live[c]
       /\ c \in Online(players) /\ players[c].area = a => players[c] = live[c]

LEMMA UntouchedLooksTheSame ==
  ASSUME NEW players, NEW sc, NEW c \in Online(players),
         Untouched(players, sc, players[c].area)
  PROVE  /\ c \in Online(live)
         /\ players[c] = live[c]
         /\ Snapshot(players, sc, c) = Snapshot(live, scene, c)
<1> DEFINE a == players[c].area
<1>1. c \in Online(live) /\ players[c] = live[c]
  BY DEF Untouched, Online
<1>2. InArea(players, a) = InArea(live, a)
  BY DEF Untouched, InArea, Online
<1>3. \A d \in InArea(live, a) : View(d, players[d]) = View(d, live[d])
  BY DEF Untouched, InArea, Online
<1>4. {View(d, players[d]) : d \in InArea(players, a)}
        = {View(d, live[d]) : d \in InArea(live, a)}
  BY <1>2, <1>3
<1>5. Snapshot(players, sc, c) = Snapshot(live, scene, c)
  BY <1>1, <1>4 DEF Snapshot, Untouched
<1>6. QED
  BY <1>1, <1>5

(* Broadcasting the touched areas keeps everyone up to date, as long as    *)
(* only broadcast areas stop waiting for the ticker.                       *)
LEMMA BroadcastShows ==
  ASSUME NewestSnapshotIsCurrent,
         NEW players \in PlayerMaps, NEW sc \in [Areas -> Scenes], NEW areas,
         live' = Broadcast(players, sc, areas), scene' = sc,
         pending \ areas \subseteq pending',
         \A a \in Areas \ areas : Untouched(players, sc, a)
  PROVE  NewestSnapshotIsCurrent'
<1>1. /\ Online(live') = Online(players)
      /\ \A c \in Online(players) :
           /\ live'[c].area = players[c].area
           /\ Snapshot(live', sc, c) = Snapshot(players, sc, c)
  BY BroadcastKeepsViews DEF PlayerMaps
<1>2. ASSUME NEW c \in Online(players)
      PROVE  Shown(live', scene', c) \/ live'[c].area \in pending'
  <2>1. c \in Characters /\ players[c] \in Players /\ players[c].area \in Areas
    BY OnlinePlayers DEF Online
  <2>2. CASE players[c].area \in areas
    <3>1. live'[c] = Push(players[c], Snapshot(players, sc, c))
      BY <2>1, <2>2 DEF Broadcast
    <3>2. live'[c].newest = Snapshot(players, sc, c)
      BY <2>1, <3>1 DEF Push, Players
    <3>3. QED
      BY <1>1, <3>2 DEF Shown
  <2>3. CASE players[c].area \notin areas
    <3>1. /\ c \in Online(live)
          /\ players[c] = live[c]
          /\ Snapshot(players, sc, c) = Snapshot(live, scene, c)
      BY <2>1, <2>3, UntouchedLooksTheSame
    <3>2. live'[c] = live[c]
      BY <2>1, <2>3, <3>1 DEF Broadcast
    <3>3. live[c].newest = Snapshot(live, scene, c) \/ live[c].area \in pending
      BY <3>1 DEF NewestSnapshotIsCurrent
    <3>4. QED
      BY <1>1, <2>3, <3>1, <3>2, <3>3 DEF Shown
  <2>4. QED
    BY <2>2, <2>3
<1>3. QED
  BY <1>1, <1>2 DEF NewestSnapshotIsCurrent, Shown, Online

(* Nothing anybody can see changes, and no snapshot is replaced.           *)
LEMMA SameViewsShown ==
  ASSUME NewestSnapshotIsCurrent, UNCHANGED <<scene, pending>>,
         Online(live') = Online(live),
         \A c \in Online(live) :
           /\ live'[c].area = live[c].area
           /\ live'[c].cell = live[c].cell
           /\ live'[c].stats = live[c].stats
           /\ live'[c].newest = live[c].newest
  PROVE  NewestSnapshotIsCurrent'
<1>1. \A a : InArea(live', a) = InArea(live, a)
  BY DEF InArea
<1>2. \A d \in Online(live) : View(d, live'[d]) = View(d, live[d])
  BY DEF View
<1>3. \A a : {View(d, live'[d]) : d \in InArea(live', a)}
           = {View(d, live[d]) : d \in InArea(live, a)}
  BY <1>1, <1>2 DEF InArea
<1>4. \A c \in Online(live) : Snapshot(live', scene', c) = Snapshot(live, scene, c)
  BY <1>3 DEF Snapshot
<1>5. QED
  BY <1>4 DEF NewestSnapshotIsCurrent

LEMMA EnemyTickShows ==
  ASSUME TypeOK, NewestSnapshotIsCurrent, EnemyTick
  PROVE  NewestSnapshotIsCurrent'
<1>0. live \in PlayerMaps
  BY DEF TypeOK, PlayerMaps
<1>1. PICK hurt \in SUBSET Online(live) :
        \E dead \in SUBSET hurt, stats \in [hurt -> Stats], sc \in [Areas -> Scenes] :
          EnemiesAct(hurt, dead, stats, sc)
  BY DEF EnemyTick
<1>2. PICK dead \in SUBSET hurt, stats \in [hurt -> Stats], sc \in [Areas -> Scenes] :
        EnemiesAct(hurt, dead, stats, sc)
  BY <1>1
<1>3. \A c \in Characters \ hurt : live'[c] = live[c]
  BY <1>2 DEF EnemiesAct, Wounded
<1>4. ASSUME NEW c \in hurt
      PROVE  /\ c \in Characters
             /\ c \in Online(live)
             /\ live'[c] \in Players
             /\ live[c].area \in pending'
             /\ live'[c].area \in pending'
  <2>1. c \in Characters /\ c \in Online(live) /\ live[c] \in Players
    BY <1>0, OnlinePlayers DEF Online
  <2> DEFINE player == [live[c] EXCEPT !.stats = stats[c]]
  <2>2. player \in Players /\ player.area = live[c].area
    BY <2>1 DEF Players
  <2>3. live[c].area \in pending'
    BY <1>2 DEF EnemiesAct
  <2>4. CASE c \in dead
    <3>1. live'[c] = At(player, DefaultSpawn)
      BY <1>2, <2>1, <2>4 DEF EnemiesAct, Wounded
    <3>2. DefaultSpawn.area \in pending'
      BY <1>2, <2>4 DEF EnemiesAct, RespawnAreas
    <3> HIDE DEF player
    <3>3. DefaultSpawn \in Locations
      BY DefaultSpawnAssumption
    <3>4. At(player, DefaultSpawn) \in Players
            /\ At(player, DefaultSpawn).area = DefaultSpawn.area
      BY <2>2, <3>3, AtType
    <3>5. QED
      BY <2>1, <2>3, <3>1, <3>2, <3>4
  <2>5. CASE c \notin dead
    <3>1. live'[c] = player
      BY <1>2, <2>1, <2>5 DEF EnemiesAct, Wounded
    <3> HIDE DEF player
    <3>2. QED
      BY <2>1, <2>2, <2>3, <3>1
  <2>6. QED
    BY <2>4, <2>5
<1>5. pending \subseteq pending' /\ scene' = sc
        /\ \A a \in ActiveAreas : sc[a] # scene[a] => a \in pending'
  BY <1>2 DEF EnemiesAct
<1>6. ASSUME NEW c \in Characters, c \in Online(live'), live'[c].area \notin pending'
      PROVE  live'[c].newest = Snapshot(live', scene', c)
  <2>1. c \notin hurt /\ live'[c] = live[c] /\ c \in Online(live)
    BY <1>3, <1>4, <1>6 DEF Online
  <2> DEFINE a == live[c].area
  <2>2. a \in Areas /\ a \in ActiveAreas
    BY <1>0, <2>1, OnlinePlayers DEF ActiveAreas
  <2>3. scene'[a] = scene[a]
    BY <1>5, <1>6, <2>1, <2>2
  <2>4. \A d \in Characters :
          /\ d \in Online(live) /\ live[d].area = a => d \notin hurt
          /\ d \in Online(live') /\ live'[d].area = a => d \notin hurt
    BY <1>4, <1>6, <2>1
  <2>5. Untouched(live', scene', a)
    BY <1>3, <2>3, <2>4 DEF Untouched
  <2>6. Snapshot(live', scene', c) = Snapshot(live, scene, c)
    BY <1>6, <2>1, <2>5, UntouchedLooksTheSame
  <2>7. live[c].area \notin pending
    BY <1>5, <1>6, <2>1
  <2>8. QED
    BY <2>1, <2>6, <2>7 DEF NewestSnapshotIsCurrent
<1>7. QED
  BY <1>6 DEF NewestSnapshotIsCurrent, Online

LEMMA ViewStep ==
  ASSUME TypeOK, NewestSnapshotIsCurrent, Shapes
  PROVE  NewestSnapshotIsCurrent'
<1> USE DEF OnlyTheWorldMoves
<1>0. live \in PlayerMaps /\ scene \in [Areas -> Scenes]
  BY DEF TypeOK, PlayerMaps
<1>1. ASSUME NEW c \in Characters, NEW t \in Tokens, NEW saved \in SavedLocations,
             NEW stats \in Stats, Join(c, t, saved, stats)
      PROVE  NewestSnapshotIsCurrent'
  <2> DEFINE location == Place(saved)
             players == [live EXCEPT ![c] = NewPlayer(t, location, stats)]
             areas == ChangedByJoin(c, saved, location)
  <2>1. players \in PlayerMaps
    BY <1>0, PlaceType, NewPlayerType DEF PlayerMaps
  <2>2. live' = Broadcast(players, scene, areas) /\ scene' = scene /\ pending' = pending
    BY <1>1 DEF Join
  <2>3. players[c].area \in areas
    BY <1>0, PlaceType, NewPlayerType DEF PlayerMaps, ChangedByJoin
  <2>4. c \in Online(live) => live[c].area \in areas
    BY DEF ChangedByJoin
  <2>5. \A d \in Characters \ {c} : players[d] = live[d]
    BY <1>0 DEF PlayerMaps
  <2> HIDE DEF players, areas
  <2>6. \A a \in Areas \ areas : Untouched(players, scene, a)
    BY <2>3, <2>4, <2>5 DEF Untouched
  <2>7. QED
    BY <1>0, <2>1, <2>2, <2>6, BroadcastShows
<1>2. ASSUME NEW players \in PlayerMaps, NEW sc \in [Areas -> Scenes], NEW areas,
             Publish(players, sc, areas),
             \A a \in Areas \ areas : Untouched(players, sc, a)
      PROVE  NewestSnapshotIsCurrent'
  BY <1>2, BroadcastShows DEF Publish
<1>3. ASSUME NEW c \in Online(live), EndSession(c)
      PROVE  NewestSnapshotIsCurrent'
  <2> DEFINE players == [live EXCEPT ![c] = Offline]
  <2>1. players \in PlayerMaps /\ c \notin Online(players)
          /\ \A d \in Characters \ {c} : players[d] = live[d]
    BY <1>0 DEF PlayerMaps, Online
  <2>2. Publish(players, scene, {live[c].area})
    BY <1>3 DEF EndSession
  <2> HIDE DEF players
  <2>3. \A a \in Areas \ {live[c].area} : Untouched(players, scene, a)
    BY <2>1 DEF Untouched
  <2>4. QED
    BY <1>0, <1>2, <2>1, <2>2, <2>3
<1>4. ASSUME NEW c \in Online(live), NEW player \in Players, Becomes(c, player)
      PROVE  NewestSnapshotIsCurrent'
  <2> DEFINE players == [live EXCEPT ![c] = player]
             areas == {live[c].area, player.area}
  <2>1. players \in PlayerMaps /\ players[c] = player
          /\ \A d \in Characters \ {c} : players[d] = live[d]
    BY <1>0 DEF PlayerMaps, Online
  <2>2. Publish(players, scene, areas)
    BY <1>4 DEF Becomes
  <2> HIDE DEF players
  <2>3. \A a \in Areas \ areas : Untouched(players, scene, a)
    BY <2>1 DEF Untouched
  <2>4. QED
    BY <1>0, <1>2, <2>1, <2>2, <2>3
<1>5. ASSUME NEW c \in Online(live), Relocates(c)
      PROVE  NewestSnapshotIsCurrent'
  <2>1. PICK location \in Locations : Becomes(c, At(live[c], location))
    BY <1>5 DEF Relocates
  <2>2. live[c] \in Players
    BY <1>0, OnlinePlayers DEF Online
  <2>3. QED
    BY <1>4, <2>1, <2>2, AtType
<1>6. ASSUME NEW c \in Online(live), StatsChange(c, Stats)
      PROVE  NewestSnapshotIsCurrent'
  <2>1. PICK stats \in Stats : Becomes(c, [live[c] EXCEPT !.stats = stats])
    BY <1>6 DEF StatsChange
  <2>2. live[c] \in Players
    BY <1>0, OnlinePlayers DEF Online
  <2>3. [live[c] EXCEPT !.stats = stats] \in Players
    BY <2>2 DEF Players
  <2>4. QED
    BY <1>4, <2>1, <2>3
<1>7. ASSUME NEW c \in Online(live), Fights(c)
      PROVE  NewestSnapshotIsCurrent'
  <2> DEFINE a == live[c].area
  <2>1. PICK stats \in Stats, sc \in Scenes :
          Publish([live EXCEPT ![c].stats = stats], [scene EXCEPT ![a] = sc], {a})
    BY <1>7 DEF Fights
  <2> DEFINE players == [live EXCEPT ![c].stats = stats]
             after == [scene EXCEPT ![a] = sc]
  <2>2. live[c] \in Players /\ c \in Characters
    BY <1>0, OnlinePlayers DEF Online
  <2>3. /\ players \in PlayerMaps
        /\ players[c].area = a
        /\ \A d \in Characters \ {c} : players[d] = live[d]
    BY <1>0, <2>2 DEF PlayerMaps, Players
  <2>4. after \in [Areas -> Scenes] /\ \A b \in Areas \ {a} : after[b] = scene[b]
    BY <1>0
  <2> HIDE DEF players, after
  <2>5. \A b \in Areas \ {a} : Untouched(players, after, b)
    BY <2>3, <2>4 DEF Untouched
  <2>6. Publish(players, after, {a})
    BY <2>1 DEF players, after
  <2>7. QED
    BY <1>2, <2>3, <2>4, <2>5, <2>6
<1>8. ASSUME NEW a \in Areas, SceneChanges(a)
      PROVE  NewestSnapshotIsCurrent'
  <2>1. PICK sc \in Scenes : Publish(live, [scene EXCEPT ![a] = sc], {a})
    BY <1>8 DEF SceneChanges
  <2> DEFINE after == [scene EXCEPT ![a] = sc]
  <2>2. after \in [Areas -> Scenes] /\ \A b \in Areas \ {a} : after[b] = scene[b]
    BY <1>0
  <2> HIDE DEF after
  <2>3. \A b \in Areas \ {a} : Untouched(live, after, b)
    BY <2>2 DEF Untouched
  <2>4. Publish(live, after, {a})
    BY <2>1 DEF after
  <2>5. QED
    BY <1>0, <1>2, <2>2, <2>3, <2>4
<1>9. CASE BroadcastTick
  <2>1. Publish(live, scene, pending)
    BY <1>9 DEF BroadcastTick
  <2>2. \A a \in Areas \ pending : Untouched(live, scene, a)
    BY DEF Untouched
  <2>3. QED
    BY <1>0, <1>2, <2>1, <2>2
<1>10. CASE BroadcastChat
  <2>1. ASSUME NEW c \in Characters
        PROVE  /\ c \in Online(live) <=> c \in Online(live')
               /\ c \in Online(live) =>
                    /\ live'[c].area = live[c].area
                    /\ live'[c].cell = live[c].cell
                    /\ live'[c].stats = live[c].stats
                    /\ live'[c].newest = live[c].newest
    <3>1. CASE c \in Online(live)
      <4>1. live[c] \in Players
        BY <1>0, <3>1, OnlinePlayers
      <4>2. live'[c] = Deliver(live[c], sent + 1)
        BY <1>10, <3>1 DEF BroadcastChat
      <4>3. /\ live'[c].area = live[c].area
            /\ live'[c].cell = live[c].cell
            /\ live'[c].stats = live[c].stats
            /\ live'[c].newest = live[c].newest
            /\ live'[c].token = live[c].token
        BY <4>1, <4>2 DEF Deliver, Players
      <4>4. live[c].token # 0
        BY <1>0, <3>1, OnlinePlayers
      <4>5. c \in Online(live')
        BY <4>3, <4>4 DEF Online, Offline
      <4>6. QED
        BY <3>1, <4>3, <4>5
    <3>2. CASE c \notin Online(live)
      BY <1>10, <3>2 DEF BroadcastChat, Online
    <3>3. QED
      BY <3>1, <3>2
  <2>2. Online(live') = Online(live) /\ Online(live) \subseteq Characters
    BY <2>1 DEF Online
  <2>3. UNCHANGED <<scene, pending>>
    BY <1>10 DEF BroadcastChat
  <2>4. QED
    BY <2>1, <2>2, <2>3, SameViewsShown
<1>11. ASSUME NEW c \in Characters, ReceiveSnapshot(c) \/ ReceiveChat(c)
       PROVE  NewestSnapshotIsCurrent'
  <2>1. live[c] \in Players /\ c \in Online(live)
    BY <1>0, <1>11, OnlinePlayers DEF ReceiveSnapshot, ReceiveChat
  <2>2. /\ live'[c].area = live[c].area
        /\ live'[c].cell = live[c].cell
        /\ live'[c].stats = live[c].stats
        /\ live'[c].newest = live[c].newest
        /\ live'[c].token = live[c].token
        /\ \A d \in Characters \ {c} : live'[d] = live[d]
    BY <1>0, <1>11, <2>1 DEF ReceiveSnapshot, ReceiveChat, Players, PlayerMaps
  <2>3. live[c].token # 0
    BY <1>0, <2>1, OnlinePlayers
  <2>4. Online(live') = Online(live)
    BY <2>1, <2>2, <2>3 DEF Online, Offline
  <2>5. UNCHANGED <<scene, pending>>
    BY <1>11 DEF ReceiveSnapshot, ReceiveChat
  <2>6. QED
    BY <2>2, <2>4, <2>5, SameViewsShown DEF Online
<1>12. CASE Close \/ Stop \/ UNCHANGED vars
  <2>1. UNCHANGED <<live, scene, pending>>
    BY <1>12 DEF Close, Stop, vars
  <2>2. QED
    BY <2>1, SameViewsShown
<1>13. QED
  BY <1>1, <1>3, <1>5, <1>6, <1>7, <1>8, <1>9, <1>10, <1>11, <1>12, EnemyTickShows DEF Shapes

(* Every player's newest snapshot shows its area as it is or the area      *)
(* waits for the ticker, whatever the number of players and areas.         *)
THEOREM NewestSnapshotAlwaysCurrent == Spec => []NewestSnapshotIsCurrent
<1>1. Init => NewestSnapshotIsCurrent
  BY DEF Init, NewestSnapshotIsCurrent, Online
<1>2. TypeOK /\ NewestSnapshotIsCurrent /\ [Next]_vars => NewestSnapshotIsCurrent'
  BY StepShapes, ViewStep
<1>3. QED
  BY <1>1, <1>2, TypeCorrect, PTL DEF Spec

-----------------------------------------------------------------------------
(* Nobody stands where nobody can. *)

OnGround(players) == \A c \in Online(players) : players[c].cell \in Walkable[players[c].area]

LEMMA BroadcastKeepsGround ==
  ASSUME NEW players \in PlayerMaps, NEW sc \in [Areas -> Scenes], NEW areas,
         OnGround(players), live' = Broadcast(players, sc, areas)
  PROVE  StandsOnGround'
<1>1. /\ Online(live') = Online(players)
      /\ \A c \in Online(players) : /\ live'[c].area = players[c].area
                                   /\ live'[c].cell = players[c].cell
  BY BroadcastKeepsViews DEF PlayerMaps
<1>2. QED
  BY <1>1 DEF OnGround, StandsOnGround

LEMMA GroundStep ==
  ASSUME TypeOK, StandsOnGround, Shapes
  PROVE  StandsOnGround'
<1>0. live \in PlayerMaps /\ scene \in [Areas -> Scenes] /\ OnGround(live)
  BY DEF TypeOK, PlayerMaps, OnGround, StandsOnGround
<1>1. ASSUME NEW c \in Characters, NEW player \in Players,
             player.cell \in Walkable[player.area]
      PROVE  /\ [live EXCEPT ![c] = player] \in PlayerMaps
             /\ OnGround([live EXCEPT ![c] = player])
  BY <1>0, <1>1 DEF PlayerMaps, OnGround, Online
<1>2. ASSUME NEW c \in Characters, NEW t \in Tokens, NEW saved \in SavedLocations,
             NEW stats \in Stats, Join(c, t, saved, stats)
      PROVE  StandsOnGround'
  <2> DEFINE player == NewPlayer(t, Place(saved), stats)
  <2>1. player \in Players /\ player.cell \in Walkable[player.area]
    BY PlaceType, NewPlayerType
  <2>2. live' = Broadcast([live EXCEPT ![c] = player], scene, ChangedByJoin(c, saved, Place(saved)))
    BY <1>2 DEF Join
  <2> HIDE DEF player
  <2>3. QED
    BY <1>0, <1>1, <2>1, <2>2, BroadcastKeepsGround
<1>3. ASSUME NEW c \in Online(live), EndSession(c)
      PROVE  StandsOnGround'
  <2>1. /\ [live EXCEPT ![c] = Offline] \in PlayerMaps
        /\ OnGround([live EXCEPT ![c] = Offline])
    BY <1>0 DEF PlayerMaps, OnGround, Online
  <2>2. live' = Broadcast([live EXCEPT ![c] = Offline], scene, {live[c].area})
    BY <1>3 DEF EndSession, Publish
  <2>3. QED
    BY <1>0, <2>1, <2>2, BroadcastKeepsGround
<1>4. ASSUME NEW c \in Online(live), NEW player \in Players, Becomes(c, player),
             player.cell \in Walkable[player.area]
      PROVE  StandsOnGround'
  <2>1. live' = Broadcast([live EXCEPT ![c] = player], scene, {live[c].area, player.area})
    BY <1>4 DEF Becomes, Publish
  <2>2. QED
    BY <1>0, <1>1, <1>4, <2>1, BroadcastKeepsGround DEF Online
<1>5. ASSUME NEW c \in Online(live), Relocates(c)
      PROVE  StandsOnGround'
  <2>1. PICK location \in Locations :
          location.cell \in Walkable[location.area] /\ Becomes(c, At(live[c], location))
    BY <1>5 DEF Relocates
  <2>2. live[c] \in Players
    BY <1>0, OnlinePlayers DEF Online
  <2>3. QED
    BY <1>4, <2>1, <2>2, AtType
<1>6. ASSUME NEW c \in Online(live), StatsChange(c, Stats)
      PROVE  StandsOnGround'
  <2>1. PICK stats \in Stats : Becomes(c, [live[c] EXCEPT !.stats = stats])
    BY <1>6 DEF StatsChange
  <2>2. live[c] \in Players /\ live[c].cell \in Walkable[live[c].area]
    BY <1>0, OnlinePlayers DEF Online, StandsOnGround
  <2> DEFINE player == [live[c] EXCEPT !.stats = stats]
  <2>3. player \in Players /\ player.cell = live[c].cell /\ player.area = live[c].area
    BY <2>2 DEF Players
  <2>4. Becomes(c, player)
    BY <2>1
  <2> HIDE DEF player
  <2>5. QED
    BY <1>4, <2>2, <2>3, <2>4
<1>7. ASSUME NEW c \in Online(live), Fights(c)
      PROVE  StandsOnGround'
  <2>1. PICK stats \in Stats, sc \in Scenes :
          Publish([live EXCEPT ![c].stats = stats],
                  [scene EXCEPT ![live[c].area] = sc], {live[c].area})
    BY <1>7 DEF Fights
  <2> DEFINE players == [live EXCEPT ![c].stats = stats]
  <2>2. live[c] \in Players /\ c \in Characters
    BY <1>0, OnlinePlayers DEF Online
  <2>3. players \in PlayerMaps /\ OnGround(players)
    BY <1>0, <2>2 DEF PlayerMaps, Players, OnGround, Online
  <2>4. [scene EXCEPT ![live[c].area] = sc] \in [Areas -> Scenes]
    BY <1>0
  <2>5. live' = Broadcast(players, [scene EXCEPT ![live[c].area] = sc], {live[c].area})
    BY <2>1 DEF Publish
  <2> HIDE DEF players
  <2>6. QED
    BY <2>3, <2>4, <2>5, BroadcastKeepsGround
<1>8. ASSUME NEW a \in Areas, SceneChanges(a)
      PROVE  StandsOnGround'
  <2>1. PICK sc \in Scenes : live' = Broadcast(live, [scene EXCEPT ![a] = sc], {a})
    BY <1>8 DEF SceneChanges, Publish
  <2>2. [scene EXCEPT ![a] = sc] \in [Areas -> Scenes]
    BY <1>0
  <2>3. QED
    BY <1>0, <2>1, <2>2, BroadcastKeepsGround
<1>9. CASE BroadcastTick
  BY <1>0, <1>9, BroadcastKeepsGround DEF BroadcastTick, Publish
<1>10. CASE BroadcastChat
  <2>1. ASSUME NEW c \in Characters, c \in Online(live')
        PROVE  live'[c].cell \in Walkable[live'[c].area]
    <3>1. c \in Online(live)
      BY <1>10, <2>1 DEF BroadcastChat, Online
    <3>2. live[c] \in Players /\ live'[c] = Deliver(live[c], sent + 1)
      BY <1>0, <1>10, <3>1, OnlinePlayers DEF BroadcastChat
    <3>3. live'[c].cell = live[c].cell /\ live'[c].area = live[c].area
      BY <3>2 DEF Deliver, Players
    <3>4. QED
      BY <3>1, <3>3 DEF StandsOnGround
  <2>2. QED
    BY <2>1 DEF StandsOnGround, Online
<1>11. CASE EnemyTick
  <2>1. PICK hurt \in SUBSET Online(live) :
          \E dead \in SUBSET hurt, stats \in [hurt -> Stats], sc \in [Areas -> Scenes] :
            EnemiesAct(hurt, dead, stats, sc)
    BY <1>11 DEF EnemyTick
  <2>2. PICK dead \in SUBSET hurt, stats \in [hurt -> Stats], sc \in [Areas -> Scenes] :
          EnemiesAct(hurt, dead, stats, sc)
    BY <2>1
  <2>3. ASSUME NEW c \in hurt
        PROVE  live'[c].cell \in Walkable[live'[c].area]
    <3>1. c \in Characters /\ live[c] \in Players /\ live[c].cell \in Walkable[live[c].area]
      BY <1>0, OnlinePlayers DEF Online, StandsOnGround
    <3> DEFINE player == [live[c] EXCEPT !.stats = stats[c]]
    <3>2. player \in Players /\ player.cell = live[c].cell /\ player.area = live[c].area
      BY <3>1 DEF Players
    <3>3. /\ c \in dead => live'[c] = At(player, DefaultSpawn)
          /\ c \notin dead => live'[c] = player
      BY <2>2, <3>1 DEF EnemiesAct, Wounded
    <3> HIDE DEF player
    <3>4. DefaultSpawn \in Locations /\ DefaultSpawn.cell \in Walkable[DefaultSpawn.area]
      BY DefaultSpawnAssumption
    <3>5. At(player, DefaultSpawn).cell = DefaultSpawn.cell
            /\ At(player, DefaultSpawn).area = DefaultSpawn.area
      BY <3>2, <3>4, AtType
    <3>6. CASE c \in dead
      BY <3>3, <3>4, <3>5, <3>6
    <3>7. CASE c \notin dead
      BY <3>1, <3>2, <3>3, <3>7
    <3>8. QED
      BY <3>6, <3>7
  <2>4. \A c \in Characters \ hurt : live'[c] = live[c]
    BY <2>2 DEF EnemiesAct, Wounded
  <2>5. QED
    BY <2>3, <2>4 DEF StandsOnGround, Online
<1>12. ASSUME NEW c \in Characters, ReceiveSnapshot(c) \/ ReceiveChat(c)
       PROVE  StandsOnGround'
  <2>1. live[c] \in Players /\ c \in Online(live)
    BY <1>0, <1>12, OnlinePlayers DEF ReceiveSnapshot, ReceiveChat
  <2>2. /\ live'[c].area = live[c].area /\ live'[c].cell = live[c].cell
        /\ \A d \in Characters \ {c} : live'[d] = live[d]
    BY <1>0, <1>12, <2>1 DEF ReceiveSnapshot, ReceiveChat, Players, PlayerMaps
  <2>3. QED
    BY <2>1, <2>2 DEF StandsOnGround, Online
<1>13. CASE Close \/ Stop \/ UNCHANGED vars
  BY <1>13 DEF Close, Stop, vars, StandsOnGround, Online
<1>14. QED
  BY <1>2, <1>3, <1>5, <1>6, <1>7, <1>8, <1>9, <1>10, <1>11, <1>12, <1>13 DEF Shapes

(* Whatever was saved and wherever waypoints lead, players stand on ground. *)
THEOREM AlwaysOnGround == Spec => []StandsOnGround
<1>1. Init => StandsOnGround
  BY DEF Init, StandsOnGround, Online
<1>2. TypeOK /\ StandsOnGround /\ [Next]_vars => StandsOnGround'
  BY StepShapes, GroundStep
<1>3. QED
  BY <1>1, <1>2, TypeCorrect, PTL DEF Spec

-----------------------------------------------------------------------------
(* Chat reaches every client in the order it was said. *)

(* Messages said one after the other, the last of them at most as the one  *)
(* numbered upto.                                                          *)
Told(messages, upto) ==
  /\ messages \in Seq(Messages)
  /\ \A i \in 1 .. Len(messages) : messages[i] <= upto
  /\ \A i \in 1 .. Len(messages) - 1 : messages[i] < messages[i + 1]

LEMMA MessagesAreNumbers ==
  \A messages \in Seq(Messages) : \A i \in 1 .. Len(messages) : messages[i] \in Int
<1>1. \A messages \in Seq(Messages) : \A i \in 1 .. Len(messages) : messages[i] \in Messages
  OBVIOUS
<1> QED
  BY <1>1, BoundsAssumption DEF Messages

LEMMA ToldNext ==
  ASSUME NEW messages, NEW upto \in Nat, Told(messages, upto), upto + 1 \in Messages
  PROVE  Told(Append(messages, upto + 1), upto + 1)
<1> DEFINE more == Append(messages, upto + 1)
<1>1. messages \in Seq(Messages) /\ Len(messages) \in Nat
  BY DEF Told
<1>2. /\ more \in Seq(Messages) /\ Len(more) = Len(messages) + 1
      /\ \A i \in 1 .. Len(messages) : more[i] = messages[i] /\ messages[i] \in Int
      /\ more[Len(messages) + 1] = upto + 1
  <2>1. \A i \in 1 .. Len(messages) : messages[i] \in Int
    BY <1>1, MessagesAreNumbers
  <2> QED
    BY <1>1, <2>1
<1> HIDE DEF more
<1>3. ASSUME NEW i \in 1 .. Len(more) PROVE more[i] <= upto + 1
  <2>1. CASE i = Len(messages) + 1
    BY <1>2, <2>1
  <2>2. CASE i \in 1 .. Len(messages)
    BY <1>2, <2>2 DEF Told
  <2> QED
    BY <1>1, <1>2, <2>1, <2>2
<1>4. ASSUME NEW i \in 1 .. Len(more) - 1 PROVE more[i] < more[i + 1]
  <2>1. CASE i = Len(messages)
    <3>1. messages[i] <= upto /\ messages[i] \in Int /\ more[i] = messages[i]
      BY <1>1, <1>2, <1>4, <2>1 DEF Told
    <3> QED
      BY <1>2, <2>1, <3>1
  <2>2. CASE i \in 1 .. Len(messages) - 1
    <3>1. messages[i] < messages[i + 1]
      BY <2>2 DEF Told
    <3>2. more[i] = messages[i] /\ more[i + 1] = messages[i + 1]
      BY <1>1, <1>2, <2>2
    <3> QED
      BY <3>1, <3>2
  <2> QED
    BY <1>1, <1>2, <2>1, <2>2
<1>5. Told(more, upto + 1)
  BY <1>2, <1>3, <1>4 DEF Told
<1> QED
  BY <1>5 DEF more

LEMMA ToldLater ==
  ASSUME NEW messages, NEW upto \in Nat, Told(messages, upto)
  PROVE  Told(messages, upto + 1)
<1>1. \A i \in 1 .. Len(messages) : messages[i] \in Int /\ messages[i] <= upto
  BY MessagesAreNumbers DEF Told
<1>2. \A i \in 1 .. Len(messages) : messages[i] <= upto + 1
  BY <1>1
<1> QED
  BY <1>2 DEF Told

(* What is left when the oldest messages go.                               *)
LEMMA ToldRest ==
  ASSUME NEW messages, NEW upto \in Nat, Told(messages, upto), NEW first \in 1 .. Len(messages) + 1
  PROVE  Told(SubSeq(messages, first, Len(messages)), upto)
<1> DEFINE rest == SubSeq(messages, first, Len(messages))
<1>1. messages \in Seq(Messages) /\ Len(messages) \in Nat /\ first \in Nat /\ first >= 1
  BY DEF Told
<1>2. /\ rest \in Seq(Messages) /\ Len(rest) = Len(messages) - first + 1
      /\ \A i \in 1 .. Len(rest) : rest[i] = messages[first + i - 1]
  BY <1>1
<1> HIDE DEF rest
<1>3. ASSUME NEW i \in 1 .. Len(rest) PROVE rest[i] <= upto
  <2>1. first + i - 1 \in 1 .. Len(messages)
    BY <1>1, <1>2
  <2> QED
    BY <1>2, <2>1 DEF Told
<1>4. ASSUME NEW i \in 1 .. Len(rest) - 1 PROVE rest[i] < rest[i + 1]
  <2> DEFINE k == first + i - 1
  <2>1. k \in 1 .. Len(messages) - 1 /\ i \in 1 .. Len(rest) /\ i + 1 \in 1 .. Len(rest)
    BY <1>1, <1>2
  <2>2. messages[k] < messages[k + 1]
    BY <2>1 DEF Told
  <2>3. rest[i] = messages[k] /\ rest[i + 1] = messages[first + (i + 1) - 1]
    BY <1>2, <2>1
  <2>4. first + (i + 1) - 1 = k + 1
    BY <1>1, <1>2
  <2> QED
    BY <2>2, <2>3, <2>4
<1>5. Told(rest, upto)
  BY <1>2, <1>3, <1>4 DEF Told
<1> QED
  BY <1>5 DEF rest

LEMMA ToldRemembered ==
  ASSUME NEW messages, NEW upto \in Nat, Told(messages, upto)
  PROVE  Told(Remembered(messages), upto)
<1>1. Len(messages) \in Nat
  BY DEF Told
<1>2. CASE Len(messages) > ChatHistoryLimit
  <2> DEFINE first == Len(messages) - ChatHistoryLimit + 1
  <2>1. first \in 1 .. Len(messages) + 1
    BY <1>1, <1>2, BoundsAssumption
  <2>2. Told(SubSeq(messages, first, Len(messages)), upto)
    BY <2>1, ToldRest
  <2> QED
    BY <1>2, <2>2 DEF Remembered
<1>3. CASE ~(Len(messages) > ChatHistoryLimit)
  BY <1>3 DEF Remembered
<1> QED
  BY <1>2, <1>3

LEMMA ToldTail ==
  ASSUME NEW messages, NEW upto \in Nat, Told(messages, upto), messages # <<>>
  PROVE  Told(Tail(messages), upto)
<1>1. messages \in Seq(Messages) /\ Len(messages) \in Nat /\ Len(messages) # 0
  BY DEF Told
<1>2. Tail(messages) = SubSeq(messages, 2, Len(messages)) /\ 2 \in 1 .. Len(messages) + 1
  BY <1>1
<1> QED
  BY <1>2, ToldRest


SameChats ==
  /\ UNCHANGED <<history, sent>>
  /\ \A c \in Online(live') : c \in Online(live) /\ live'[c].chats = live[c].chats

(* Only a join, a message and a receive touch the chat.                    *)
LEMMA ChatShapes ==
  ASSUME TypeOK, Shapes
  PROVE  \/ \E c \in Characters, t \in Tokens, saved \in SavedLocations, stats \in Stats :
              Join(c, t, saved, stats)
         \/ BroadcastChat
         \/ \E c \in Characters : ReceiveChat(c)
         \/ SameChats
<1> USE DEF OnlyTheWorldMoves
<1>0. live \in PlayerMaps /\ scene \in [Areas -> Scenes]
  BY DEF TypeOK, PlayerMaps
<1>1. ASSUME NEW players \in PlayerMaps, NEW sc \in [Areas -> Scenes], NEW areas,
             Publish(players, sc, areas), UNCHANGED <<history, sent>>,
             \A c \in Online(players) : c \in Online(live) /\ players[c].chats = live[c].chats
      PROVE  SameChats
  <2>1. live' = Broadcast(players, sc, areas)
    BY <1>1 DEF Publish
  <2>2. /\ Online(live') = Online(players)
        /\ \A c \in Online(players) : live'[c].chats = players[c].chats
    BY <2>1, BroadcastKeepsViews DEF PlayerMaps
  <2> QED
    BY <1>1, <2>2 DEF SameChats
<1>2. ASSUME NEW c \in Online(live), NEW player \in Players, player.chats = live[c].chats,
             Becomes(c, player), OnlyTheWorldMoves
      PROVE  SameChats
  <2> DEFINE players == [live EXCEPT ![c] = player]
  <2>1. /\ players \in PlayerMaps
        /\ \A d \in Online(players) : d \in Online(live) /\ players[d].chats = live[d].chats
    BY <1>0, <1>2 DEF PlayerMaps, Online
  <2>2. Publish(players, scene, {live[c].area, player.area})
    BY <1>2 DEF Becomes
  <2> HIDE DEF players
  <2> QED
    BY <1>0, <1>1, <1>2, <2>1, <2>2
<1>3. ASSUME NEW c \in Online(live), EndSession(c)
      PROVE  SameChats
  <2> DEFINE players == [live EXCEPT ![c] = Offline]
  <2>1. /\ players \in PlayerMaps
        /\ \A d \in Online(players) : d \in Online(live) /\ players[d].chats = live[d].chats
    BY <1>0 DEF PlayerMaps, Online
  <2>2. Publish(players, scene, {live[c].area}) /\ UNCHANGED <<history, sent>>
    BY <1>3 DEF EndSession
  <2> HIDE DEF players
  <2> QED
    BY <1>0, <1>1, <2>1, <2>2
<1>4. ASSUME NEW c \in Online(live), Relocates(c)
      PROVE  SameChats
  <2>1. PICK location \in Locations :
          Becomes(c, At(live[c], location)) /\ OnlyTheWorldMoves
    BY <1>4 DEF Relocates
  <2>2. live[c] \in Players
    BY <1>0, OnlinePlayers DEF Online
  <2>3. At(live[c], location) \in Players
    BY <2>2, AtType
  <2>4. At(live[c], location).chats = live[c].chats
    BY <2>2 DEF At, Players
  <2> QED
    BY <1>2, <2>1, <2>3, <2>4
<1>5. ASSUME NEW c \in Online(live), Fights(c)
      PROVE  SameChats
  <2>1. PICK stats \in Stats, sc \in Scenes :
          Publish([live EXCEPT ![c].stats = stats],
                  [scene EXCEPT ![live[c].area] = sc], {live[c].area})
    BY <1>5 DEF Fights
  <2>2. live[c] \in Players /\ c \in Characters /\ c \in Online(live)
    BY <1>0, OnlinePlayers DEF Online
  <2> DEFINE players == [live EXCEPT ![c].stats = stats]
  <2>3. players \in PlayerMaps /\ players[c].chats = live[c].chats
          /\ \A d \in Characters \ {c} : players[d] = live[d]
    BY <1>0, <2>2 DEF PlayerMaps, Players
  <2>4. [scene EXCEPT ![live[c].area] = sc] \in [Areas -> Scenes]
    BY <1>0
  <2>5. Publish(players, [scene EXCEPT ![live[c].area] = sc], {live[c].area})
    BY <2>1
  <2> HIDE DEF players
  <2>6. \A d \in Online(players) : d \in Online(live) /\ players[d].chats = live[d].chats
    BY <2>2, <2>3 DEF Online
  <2>7. UNCHANGED <<history, sent>>
    BY <1>5 DEF Fights
  <2> QED
    BY <1>1, <2>3, <2>4, <2>5, <2>6, <2>7
<1>6. ASSUME NEW c \in Online(live), StatsChange(c, Stats)
      PROVE  SameChats
  <2>1. PICK stats \in Stats : Becomes(c, [live[c] EXCEPT !.stats = stats])
    BY <1>6 DEF StatsChange
  <2>2. live[c] \in Players
    BY <1>0, OnlinePlayers DEF Online
  <2>3. [live[c] EXCEPT !.stats = stats] \in Players
          /\ [live[c] EXCEPT !.stats = stats].chats = live[c].chats
    BY <2>2 DEF Players
  <2> QED
    BY <1>2, <1>6, <2>1, <2>3 DEF StatsChange
<1>7. ASSUME NEW a \in Areas, SceneChanges(a)
      PROVE  SameChats
  <2>1. PICK sc \in Scenes : Publish(live, [scene EXCEPT ![a] = sc], {a})
    BY <1>7 DEF SceneChanges
  <2>2. [scene EXCEPT ![a] = sc] \in [Areas -> Scenes]
    BY <1>0
  <2> QED
    BY <1>0, <1>1, <1>7, <2>1, <2>2 DEF SceneChanges
<1>8. CASE EnemyTick
  <2>1. PICK hurt \in SUBSET Online(live) :
          \E dead \in SUBSET hurt, stats \in [hurt -> Stats], sc \in [Areas -> Scenes] :
            EnemiesAct(hurt, dead, stats, sc)
    BY <1>8 DEF EnemyTick
  <2>2. PICK dead \in SUBSET hurt, stats \in [hurt -> Stats], sc \in [Areas -> Scenes] :
          EnemiesAct(hurt, dead, stats, sc)
    BY <2>1
  <2>3. ASSUME NEW c \in hurt
        PROVE  /\ c \in Online(live)
               /\ live'[c].chats = live[c].chats
    <3>1. live[c] \in Players /\ c \in Online(live) /\ c \in Characters
      BY <1>0, OnlinePlayers DEF Online
    <3> DEFINE player == [live[c] EXCEPT !.stats = stats[c]]
    <3>2. player \in Players /\ player.chats = live[c].chats
      BY <3>1 DEF Players
    <3>3. /\ c \in dead => live'[c] = At(player, DefaultSpawn)
          /\ c \notin dead => live'[c] = player
      BY <2>2, <3>1 DEF EnemiesAct, Wounded
    <3> HIDE DEF player
    <3>4. At(player, DefaultSpawn).chats = player.chats
      BY <3>2 DEF At, Players
    <3> QED
      BY <3>1, <3>2, <3>3, <3>4
  <2>4. \A c \in Characters \ hurt : live'[c] = live[c]
    BY <2>2 DEF EnemiesAct, Wounded
  <2>5. \A c \in Online(live') : c \in Online(live) /\ live'[c].chats = live[c].chats
    BY <2>3, <2>4 DEF Online
  <2> QED
    BY <1>8, <2>5 DEF EnemyTick, SameChats
<1>9. CASE BroadcastTick
  BY <1>0, <1>1, <1>9 DEF BroadcastTick
<1>10. CASE Close \/ Stop \/ UNCHANGED vars
  <2>1. UNCHANGED <<live, history, sent>>
    BY <1>10 DEF Close, Stop, vars
  <2> QED
    BY <2>1 DEF SameChats
<1>11. ASSUME NEW c \in Characters, ReceiveSnapshot(c)
       PROVE  SameChats
  <2>1. live[c] \in Players /\ c \in Online(live)
    BY <1>0, <1>11, OnlinePlayers DEF ReceiveSnapshot
  <2>2. /\ live'[c].chats = live[c].chats
        /\ \A d \in Characters \ {c} : live'[d] = live[d]
    BY <1>0, <1>11, <2>1 DEF ReceiveSnapshot, Players, PlayerMaps
  <2>3. \A d \in Online(live') : d \in Online(live) /\ live'[d].chats = live[d].chats
    BY <2>1, <2>2 DEF Online
  <2> QED
    BY <1>11, <2>3 DEF ReceiveSnapshot, SameChats
<1> QED
  BY <1>3, <1>4, <1>5, <1>6, <1>7, <1>8, <1>9, <1>10, <1>11 DEF Shapes

(* The history and what waits for each client tell what was said in order, *)
(* nothing that is still to be said: a message is newer than what any      *)
(* client has, on whichever path it gets it.                               *)
ChatInv ==
  /\ Told(history, sent)
  /\ \A c \in Online(live) : Told(live[c].chats, sent)

LEMMA ChatStep ==
  ASSUME TypeOK, ChatInv, Shapes
  PROVE  ChatInv'
<1>0. live \in PlayerMaps /\ scene \in [Areas -> Scenes] /\ sent \in Nat
  BY BoundsAssumption DEF TypeOK, PlayerMaps
<1>1. ASSUME NEW c \in Characters, NEW t \in Tokens, NEW saved \in SavedLocations,
             NEW stats \in Stats, Join(c, t, saved, stats)
      PROVE  ChatInv'
  <2> DEFINE player == NewPlayer(t, Place(saved), stats)
             players == [live EXCEPT ![c] = player]
             areas == ChangedByJoin(c, saved, Place(saved))
  <2>1. player \in Players /\ player.chats = history
    BY PlaceType, NewPlayerType
  <2>2. live' = Broadcast(players, scene, areas) /\ UNCHANGED <<history, sent>>
    BY <1>1 DEF Join
  <2> HIDE DEF player, areas
  <2>3. /\ players \in PlayerMaps /\ players[c] = player
        /\ \A d \in Characters \ {c} : players[d] = live[d]
    BY <1>0, <2>1 DEF PlayerMaps
  <2> HIDE DEF players
  <2>4. /\ Online(live') = Online(players)
        /\ \A d \in Online(players) : live'[d].chats = players[d].chats
    BY <1>0, <2>2, <2>3, BroadcastKeepsViews DEF PlayerMaps
  <2>5. \A d \in Online(players) : Told(players[d].chats, sent)
    BY <2>1, <2>3 DEF ChatInv, Online
  <2> QED
    BY <2>2, <2>4, <2>5 DEF ChatInv
<1>2. CASE BroadcastChat
  <2>1. sent' = sent + 1 /\ sent + 1 \in Messages /\ sent < MaxMessages
    BY <1>2, <1>0, BoundsAssumption DEF BroadcastChat, Messages, TypeOK
  <2>2. Told(history', sent')
    <3>1. Told(Recorded(sent + 1), sent + 1)
      BY <1>0, <2>1, ToldNext DEF ChatInv, Recorded
    <3>2. sent + 1 \in Nat
      BY <1>0
    <3>3. Told(Remembered(Recorded(sent + 1)), sent + 1)
      BY <3>1, <3>2, ToldRemembered
    <3> QED
      BY <1>2, <2>1, <3>3 DEF BroadcastChat
  <2>3. ASSUME NEW c \in Online(live')
        PROVE  Told(live'[c].chats, sent')
    <3>1. c \in Online(live) /\ live'[c] = Deliver(live[c], sent + 1)
      BY <1>2 DEF BroadcastChat, Online
    <3>2. live[c] \in Players
      BY <1>0, <3>1, OnlinePlayers DEF Online
    <3>3. Told(live[c].chats, sent)
      BY <3>1 DEF ChatInv
    <3>4. Deliver(live[c], sent + 1).chats \in {Append(live[c].chats, sent + 1), live[c].chats}
      BY <3>2 DEF Deliver, Players
    <3>5. Told(Append(live[c].chats, sent + 1), sent + 1) /\ Told(live[c].chats, sent + 1)
      BY <1>0, <2>1, <3>3, ToldNext, ToldLater
    <3> QED
      BY <2>1, <3>1, <3>4, <3>5
  <2> QED
    BY <2>2, <2>3 DEF ChatInv
<1>3. ASSUME NEW c \in Characters, ReceiveChat(c)
      PROVE  ChatInv'
  <2>1. live[c] \in Players /\ c \in Online(live) /\ live[c].chats # <<>>
    BY <1>0, <1>3, OnlinePlayers DEF ReceiveChat
  <2>2. /\ live'[c].chats = Tail(live[c].chats)
        /\ \A d \in Characters \ {c} : live'[d] = live[d]
        /\ UNCHANGED <<history, sent>>
    BY <1>0, <1>3, <2>1 DEF ReceiveChat, Players, PlayerMaps
  <2>3. Told(Tail(live[c].chats), sent)
    BY <1>0, <2>1, ToldTail DEF ChatInv
  <2> QED
    BY <2>2, <2>3 DEF ChatInv, Online
<1>4. CASE SameChats
  BY <1>4 DEF ChatInv, SameChats
<1> QED
  BY <1>1, <1>2, <1>3, <1>4, ChatShapes

(* Whoever joins, reads late or loses messages reads the others in order,  *)
(* whatever the limits of the history and of the channels.                 *)
THEOREM ChatAlwaysInOrder == Spec => []ChatInOrder
<1>1. Init => ChatInv
  BY DEF Init, ChatInv, Told, Online
<1>2. TypeOK /\ ChatInv /\ [Next]_vars => ChatInv'
  BY StepShapes, ChatStep
<1>3. ChatInv => ChatInOrder
  BY DEF ChatInv, Told, ChatInOrder
<1>4. QED
  BY <1>1, <1>2, <1>3, TypeCorrect, PTL DEF Spec

-----------------------------------------------------------------------------
(* The loop never waits for room. *)

HistoryBounded == Len(history) <= ChatHistoryLimit

(* The history a joining player is handed always fits its channel.         *)
THEOREM LoopCannotWait == Spec => []LoopNeverWaits
<1>1. Init => HistoryBounded
  BY BoundsAssumption DEF Init, HistoryBounded
<1>2. ASSUME TypeOK, HistoryBounded, [Next]_vars
      PROVE  HistoryBounded'
  <2>1. CASE BroadcastChat
    <3>1. sent + 1 \in Messages
      BY <1>2, <2>1, BoundsAssumption DEF BroadcastChat, TypeOK, Messages
    <3>2. Recorded(sent + 1) \in Seq(Messages)
      BY <1>2, <3>1 DEF TypeOK, Recorded
    <3>3. QED
      BY <2>1, <3>2, RememberedType DEF BroadcastChat, HistoryBounded
  <2>2. CASE history' = history
    BY <1>2, <2>2 DEF HistoryBounded
  <2>3. BroadcastChat \/ history' = history
    <3>1. Shapes
      BY <1>2, StepShapes
    <3>2. QED
      BY <3>1 DEF Shapes, Join, EndSession, Relocates, Fights, StatsChange, SceneChanges,
                  EnemyTick, BroadcastTick, Close, Stop, ReceiveSnapshot, ReceiveChat,
                  OnlyTheWorldMoves, vars
  <2>4. QED
    BY <2>1, <2>2, <2>3
<1>3. TypeOK /\ HistoryBounded => LoopNeverWaits
  BY BoundsAssumption DEF TypeOK, HistoryBounded, LoopNeverWaits
<1>4. QED
  BY <1>1, <1>2, <1>3, TypeCorrect, PTL DEF Spec

-----------------------------------------------------------------------------
(* Refinement. *)

LEMMA PresenceStep ==
  ASSUME SessionInv, SessionInv', Shapes
  PROVE  [P!Next]_(P!vars)
<1> USE DEF SessionInv
<1>0. \A c \in Characters : live[c].token # 0 <=> c \in Online(live)
  BY LiveTokens
<1>00. \A t \in Tokens : t # 0
  BY BoundsAssumption DEF Tokens
<1>1. ASSUME NEW c \in Characters, NEW t \in Tokens, NEW saved \in SavedLocations,
             NEW stats \in Stats, Join(c, t, saved, stats)
      PROVE  P!Enter(c, t)
  <2>1. /\ owner[t] = Nobody /\ running /\ running' = running
        /\ closed' = CloseChannels(ClosedByJoin(c))
    BY <1>1 DEF Join, FreshToken
  <2>2. /\ live'[c].token = t
        /\ \A d \in Characters \ {c} : live'[d].token = live[d].token
    BY <1>1, JoinEffect
  <2>3. t \notin ended
    BY <2>1 DEF ended, ChannelsMatchSessions
  <2>4. \A d \in Characters : live[d].token # t
    BY <2>1, LiveTokens, BoundsAssumption DEF LiveTokensAreOwn, Online
  <2>5. t \notin P!InUse
    BY <2>1, <2>4 DEF P!InUse, present
  <2>6. present' = [present EXCEPT ![c] = t]
    BY <2>1, <2>2 DEF present
  <2>7. ended' = ended \cup ({present[c]} \ {P!None})
    <3>1. \A u \in Tokens : u \in ended' <=> u \in ended \/ u \in ClosedByJoin(c)
      BY <2>1 DEF ended, CloseChannels, TypeOK
    <3>2. \A u : u \in ClosedByJoin(c) <=> u \in {present[c]} \ {P!None}
      BY <1>0, <2>1 DEF ClosedByJoin, present, P!None
    <3>3. ClosedByJoin(c) \subseteq Tokens
      BY LiveTokens DEF ClosedByJoin
    <3>4. QED
      BY <3>1, <3>2, <3>3 DEF ended
  <2>8. QED
    BY <2>1, <2>3, <2>5, <2>6, <2>7 DEF P!Enter
<1>2. ASSUME NEW c \in Online(live), EndSession(c)
      PROVE  c \in Characters /\ P!Exit(c)
  <2>1. /\ running /\ running' = running /\ closed' = CloseChannels({live[c].token})
        /\ c \in Characters
    BY <1>2 DEF EndSession, Online
  <2>2. /\ live'[c].token = 0
        /\ \A d \in Characters \ {c} : live'[d].token = live[d].token
    BY <1>2, EndSessionEffect
  <2>3. present[c] = live[c].token /\ live[c].token \in Tokens
    BY <2>1, LiveTokens DEF present
  <2>4. present' = [present EXCEPT ![c] = P!None]
    BY <2>1, <2>2 DEF present, P!None
  <2>5. ended' = ended \cup {present[c]}
    BY <2>1, <2>3 DEF ended, CloseChannels, TypeOK
  <2>6. QED
    BY <1>00, <2>1, <2>3, <2>4, <2>5 DEF P!Exit, P!None
<1>3. ASSUME Stop
      PROVE  P!Shutdown
  <2>1. /\ running /\ running' = FALSE /\ closed' = CloseChannels(ClosedAtStop)
    BY <1>3 DEF Stop
  <2>2. present' = [c \in Characters |-> P!None]
    BY <2>1 DEF present, P!None
  <2>3. ClosedAtStop = P!InUse
    <3>1. \A c \in Characters : present[c] = live[c].token
      BY <2>1 DEF present
    <3>2. QED
      BY <1>0, <3>1 DEF ClosedAtStop, P!InUse, P!None, Online
  <2>4. ClosedAtStop \subseteq Tokens
    BY LiveTokens DEF ClosedAtStop
  <2>5. \A u \in Tokens : u \in ended' <=> u \in ended \/ u \in ClosedAtStop
    BY <2>1 DEF ended, CloseChannels, TypeOK
  <2>6. ended' = ended \cup P!InUse
    BY <2>3, <2>4, <2>5 DEF ended
  <2>7. QED
    BY <2>1, <2>2, <2>6 DEF P!Shutdown
<1>4. ASSUME SameSessions
      PROVE  UNCHANGED P!vars
  BY <1>4 DEF SameSessions, P!vars, present, ended
<1>5. QED
  BY <1>1, <1>2, <1>3, <1>4, SessionShapes DEF P!Next

(* The world is a session registry: at most one session for a character,   *)
(* a newer one ends the older, an ended one never comes back.              *)
THEOREM WorldImplementsPresence == Spec => ImplementsPresence
<1>1. Init => P!Init
  BY DEF Init, P!Init, P!None, present, ended, Offline
<1>2. SessionInv /\ SessionInv' /\ [Next]_vars => [P!Next]_(P!vars)
  BY StepShapes, PresenceStep DEF SessionInv
<1>3. QED
  BY <1>1, <1>2, SessionInvariance, PTL DEF Spec, ImplementsPresence, P!Spec

=============================================================================
