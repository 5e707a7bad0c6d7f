------------------------------- MODULE Enemies -------------------------------
(***************************************************************************)
(* What the world goroutine does about enemies: enemySystem, combatSystem  *)
(* and lootSystem (src/src/world), under the players it shares them with.  *)
(* The handlers are those World.tla abstracts to "the scene of an area     *)
(* changes" and "players are hurt"; here the enemies are there one by one, *)
(* with the books their spawns keep and the items they leave.              *)
(*                                                                         *)
(* One action is one iteration of the world's loop.  In a tick every enemy *)
(* of an area with players acts once, in the order a Go map is iterated:   *)
(* any order.  Time is abstracted: a resting enemy may or may not be ready *)
(* again when a tick comes, and a respawn timer runs out at some moment.   *)
(***************************************************************************)
EXTENDS Integers, FiniteSets, Functions

CONSTANTS
  Players,
  Items,          \* what an enemy may leave behind
  Areas,
  Points,         \* [x : .., y : ..]: the points of every map
  Walkable,       \* [Areas -> SUBSET Points]
  NPCPoints,      \* [Areas -> SUBSET Points]
  DefaultSpawn,   \* [area, at]: where players respawn
  Spawns,         \* the enemy spawns of all areas
  SpawnArea,      \* [Spawns -> Areas]
  Territory,      \* [Spawns -> SUBSET Points]: the rectangle of a spawn
  MaxEnemies,     \* [Spawns -> Nat]
  EnemyHealth,
  EnemyDamage,
  Defense,        \* [Players -> Nat]: skill and equipment
  MaxHealth,      \* of a player
  AttackDamage,   \* of a player
  AttackRange, PickupRange, AggroRange,
  MaxKills        \* bound: enemies ever defeated

Locations == [area : Areas, at : Points]

Offline == [health |-> 0]

Nowhere == [area |-> "nowhere"]

SpawnPoints(k) == Territory[k] \cap Walkable[SpawnArea[k]]

(* buildArea refuses spawns without room or without enemies.               *)
ASSUME SpawnsAssumption ==
  /\ Walkable \in [Areas -> SUBSET Points]
  /\ NPCPoints \in [Areas -> SUBSET Points]
  /\ DefaultSpawn \in Locations
  /\ DefaultSpawn.at \in Walkable[DefaultSpawn.area]
  /\ IsFiniteSet(Spawns)
  /\ SpawnArea \in [Spawns -> Areas]
  /\ Territory \in [Spawns -> SUBSET Points]
  /\ MaxEnemies \in [Spawns -> Nat \ {0}]
  /\ \A k \in Spawns : SpawnPoints(k) # {}

(* Content loading reads finitely many definitions, with positive numbers. *)
ASSUME CombatAssumption ==
  /\ IsFiniteSet(Items)
  /\ EnemyHealth \in Nat \ {0}
  /\ EnemyDamage \in Nat
  /\ Defense \in [Players -> Nat]
  /\ MaxHealth \in Nat \ {0}
  /\ AttackDamage \in Nat \ {0}
  /\ {AttackRange, PickupRange, AggroRange, MaxKills} \subseteq Nat

VARIABLES
  players,   \* [Players -> location and health, or Offline]
  enemies,   \* [live IDs -> spawn, at, health, resting]: enemySystem.live
  count,     \* [Spawns -> Nat]: spawnState.count
  timer,     \* [Spawns -> {"none", "running", "due"}]: spawnState.nextSpawn
  nextID,    \* enemySystem.nextID
  ground,    \* [IDs -> location]: lootSystem.live
  nextDrop,  \* lootSystem.nextID
  held,      \* items picked up, until their session has stored them or ends
  pending    \* runtimeState.pendingAreas

vars == <<players, enemies, count, timer, nextID, ground, nextDrop, held, pending>>

-----------------------------------------------------------------------------
(* Geometry. *)

Abs(n) == IF n < 0 THEN -n ELSE n

Sign(n) == IF n < 0 THEN -1 ELSE IF n > 0 THEN 1 ELSE 0

Larger(m, n) == IF m > n THEN m ELSE n

Distance(p, q) == Larger(Abs(p.x - q.x), Abs(p.y - q.y))

Plus(p, d) == [x |-> p.x + d.x, y |-> p.y + d.y]

Directions ==
  {d \in [x : -1 .. 1, y : -1 .. 1] : d.x = 0 \/ d.y = 0}

(* Along the longer axis first; when that is blocked, along the other one. *)
ChaseDirection(from, to) ==
  LET dx == to.x - from.x
      dy == to.y - from.y
  IN  IF Abs(dx) >= Abs(dy) /\ dx # 0 THEN [x |-> Sign(dx), y |-> 0]
                                      ELSE [x |-> 0, y |-> Sign(dy)]

FallbackDirection(from, to) ==
  LET dx == to.x - from.x
      dy == to.y - from.y
  IN  IF Abs(dx) >= Abs(dy) THEN [x |-> 0, y |-> Sign(dy)]
                            ELSE [x |-> Sign(dx), y |-> 0]

OnlineIn(ps) == {p \in Players : ps[p] # Offline}

Online == OnlineIn(players)

AreasWithPlayers(ps) == {ps[p].area : p \in OnlineIn(ps)}

Brood(es, k) == {id \in DOMAIN es : es[id].spawn = k}

AreaOf(enemy) == SpawnArea[enemy.spawn]

CanMoveToAnyGround(k, point) == point \in Walkable[SpawnArea[k]]

CanMoveTo(k, point) ==
  point \in (Territory[k] \cap Walkable[SpawnArea[k]]) \ NPCPoints[SpawnArea[k]]

Newborn(k, point) ==
  [spawn |-> k, at |-> point, health |-> EnemyHealth, resting |-> FALSE]

-----------------------------------------------------------------------------
(* One enemy acts.  A tick in progress is a record of the players so far,  *)
(* where the enemies are, which of them rest, who respawned in this tick   *)
(* and which areas changed; each operator gives the ticks an enemy may     *)
(* turn it into.                                                           *)

Begun ==
  [players |-> players,
   at |-> [id \in DOMAIN enemies |-> enemies[id].at],
   resting |-> {id \in DOMAIN enemies : enemies[id].resting},
   respawned |-> {},
   changed |-> {}]

Changing(tick, areas) == [tick EXCEPT !.changed = @ \cup areas]

(* Whom an enemy hunts: the nearest players it is aware of, one of several *)
(* at the same distance.                                                   *)
Aware(tick, id) ==
  {p \in OnlineIn(tick.players) :
     /\ EnemyDamage > 0
     /\ tick.players[p].area = AreaOf(enemies[id])
     /\ tick.players[p].health > 0
     /\ Distance(tick.players[p].at, tick.at[id]) <= AggroRange}

Nearest(tick, id, among) ==
  {p \in among : \A q \in among :
     Distance(tick.players[p].at, tick.at[id]) <= Distance(tick.players[q].at, tick.at[id])}

TargetsEvenRespawned(tick, id) == Nearest(tick, id, Aware(tick, id))

Targets(tick, id) == Nearest(tick, id, Aware(tick, id) \ tick.respawned)

MovesTo(tick, id, point) ==
  IF point = tick.at[id] THEN tick
  ELSE Changing([tick EXCEPT !.at[id] = point], {AreaOf(enemies[id])})

Wanders(tick, id) ==
  {tick} \cup
  {MovesTo(tick, id, Plus(tick.at[id], d)) :
     d \in {d \in Directions : CanMoveTo(enemies[id].spawn, Plus(tick.at[id], d))}}

Chases(tick, id, p) ==
  LET here == tick.at[id]
      prey == tick.players[p].at
      ahead == Plus(here, ChaseDirection(here, prey))
      aside == Plus(here, FallbackDirection(here, prey))
  IN  IF CanMoveTo(enemies[id].spawn, ahead) THEN MovesTo(tick, id, ahead)
      ELSE IF CanMoveTo(enemies[id].spawn, aside) THEN MovesTo(tick, id, aside)
      ELSE tick

HealthAfterUnchecked(p, health) == health - EnemyDamage

(* Armour may absorb a blow, and health never falls below nothing.         *)
HealthAfter(p, health) ==
  Larger(health - Larger(EnemyDamage - Defense[p], 0), 0)

AreasOfDeathOnlyHere(area) == {area}

AreasOfDeath(area) == {area, DefaultSpawn.area}

Respawned == [area |-> DefaultSpawn.area, at |-> DefaultSpawn.at, health |-> MaxHealth]

Strikes(tick, id, p) ==
  LET area == AreaOf(enemies[id])
      health == HealthAfter(p, tick.players[p].health)
      struck == [tick EXCEPT !.resting = @ \cup {id}]
  IN  IF health = 0
        THEN Changing([struck EXCEPT !.players[p] = Respawned,
                                     !.respawned = @ \cup {p}], AreasOfDeath(area))
      ELSE IF health # tick.players[p].health
        THEN Changing([struck EXCEPT !.players[p].health = health], {area})
      ELSE struck

(* An enemy that still rests stays where it is.                            *)
Attacks(tick, id, p) ==
  {Strikes(tick, id, p)} \cup (IF id \in tick.resting THEN {tick} ELSE {})

Acts(tick, id) ==
  IF AreaOf(enemies[id]) \notin AreasWithPlayers(players) THEN {tick}
  ELSE IF Targets(tick, id) = {} THEN Wanders(tick, id)
  ELSE UNION {IF Distance(tick.players[p].at, tick.at[id]) <= 1
                THEN Attacks(tick, id, p)
                ELSE {Chases(tick, id, p)} : p \in Targets(tick, id)}

(* Every live enemy acts once, in any order: the ticks in which exactly    *)
(* those of ids have acted.                                                *)
Acted[ids \in SUBSET DOMAIN enemies] ==
  IF ids = {} THEN {Begun}
  ELSE UNION {UNION {Acts(tick, id) : tick \in Acted[ids \ {id}]} : id \in ids}

AfterActing(tick) ==
  [id \in DOMAIN enemies |->
     [enemies[id] EXCEPT !.at = tick.at[id], !.resting = id \in tick.resting]]

-----------------------------------------------------------------------------
(* Spawns. *)

DueOneShort(k) == count[k] + 1 < MaxEnemies[k] /\ timer[k] = "due"

Due(k) == count[k] < MaxEnemies[k] /\ timer[k] = "due"

TimerAfterSpawnNever(k) == "none"

(* The timer starts again until the spawn is full.                         *)
TimerAfterSpawn(k) == IF count[k] + 1 < MaxEnemies[k] THEN "running" ELSE "none"

(* Spawns with an expired timer get one enemy each, with the next IDs in   *)
(* any order.                                                              *)
NewbornsOf(due, places, ids) ==
  [id \in {ids[k] : k \in due} |->
     LET k == CHOOSE k \in due : ids[k] = id IN Newborn(k, places[k])]

Joined(f, g) ==
  [x \in DOMAIN f \cup DOMAIN g |-> IF x \in DOMAIN f THEN f[x] ELSE g[x]]

Refill(tick) ==
  LET due == {k \in Spawns : Due(k)}
  IN  \E places \in [due -> Points], ids \in [due -> nextID + 1 .. nextID + Cardinality(due)] :
        /\ \A k \in due : places[k] \in SpawnPoints(k)
        /\ \A k, l \in due : ids[k] = ids[l] => k = l
        /\ enemies' = Joined(AfterActing(tick), NewbornsOf(due, places, ids))
        /\ nextID' = nextID + Cardinality(due)
        /\ count' = [k \in Spawns |-> IF k \in due THEN count[k] + 1 ELSE count[k]]
        /\ timer' = [k \in Spawns |-> IF k \in due THEN TimerAfterSpawn(k) ELSE timer[k]]
        /\ pending' = pending \cup tick.changed
             \cup ({SpawnArea[k] : k \in due} \cap AreasWithPlayers(players))

(* Nothing happens in a world without players.                             *)
Tick ==
  /\ Online # {}
  /\ \E tick \in Acted[DOMAIN enemies] :
       /\ players' = tick.players
       /\ Refill(tick)
  /\ UNCHANGED <<ground, nextDrop, held>>

(* The moment a running respawn timer has passed.                          *)
Elapse(k) ==
  /\ timer[k] = "running"
  /\ timer' = [timer EXCEPT ![k] = "due"]
  /\ UNCHANGED <<players, enemies, count, nextID, ground, nextDrop, held, pending>>

BroadcastTick ==
  /\ pending # {}
  /\ pending' = {}
  /\ UNCHANGED <<players, enemies, count, timer, nextID, ground, nextDrop, held>>

-----------------------------------------------------------------------------
(* What players do. *)

Within(p, area, point, range) ==
  players[p].area = area /\ Distance(players[p].at, point) <= range

KillsOfOnce(k, killed) == IF \E id \in killed : enemies[id].spawn = k THEN 1 ELSE 0

KillsOf(k, killed) == Cardinality(killed \cap Brood(enemies, k))

(* The first loss of a full spawn starts its timer; later ones leave it.   *)
TimerAfterLoss(k) == IF timer[k] = "none" THEN "running" ELSE timer[k]

Kills == nextID - Cardinality(DOMAIN enemies)

(* Defeated enemies are removed and may leave items where they stood; the  *)
(* others keep what the blow left them.                                    *)
Defeat(killed, survivors) ==
  /\ Kills + Cardinality(killed) <= MaxKills
  /\ enemies' = survivors
  /\ count' = [k \in Spawns |-> count[k] - KillsOf(k, killed)]
  /\ timer' = [k \in Spawns |->
                 IF KillsOf(k, killed) > 0 THEN TimerAfterLoss(k) ELSE timer[k]]
  /\ \E dropped \in SUBSET (killed \X Items) :
       \E ids \in [dropped -> nextDrop + 1 .. nextDrop + Cardinality(dropped)] :
         /\ \A d, e \in dropped : ids[d] = ids[e] => d = e
         /\ ground' = Joined(ground, [id \in {ids[d] : d \in dropped} |->
              LET d == CHOOSE d \in dropped : ids[d] = id
              IN  [item |-> d[2], area |-> AreaOf(enemies[d[1]]), at |-> enemies[d[1]].at]])
         /\ nextDrop' = nextDrop + Cardinality(dropped)

HeldByOthers(p) == {h \in held : h.by # p}

(* A join takes the place of a session that is still there.                *)
Enter(p, location) ==
  /\ players' = [players EXCEPT ![p] =
       [area |-> location.area, at |-> location.at, health |-> MaxHealth]]
  /\ held' = HeldByOthers(p)
  /\ UNCHANGED <<enemies, count, timer, nextID, ground, nextDrop, pending>>

Exit(p) ==
  /\ p \in Online
  /\ players' = [players EXCEPT ![p] = Offline]
  /\ held' = HeldByOthers(p)
  /\ pending' = pending \ {players[p].area}
  /\ UNCHANGED <<enemies, count, timer, nextID, ground, nextDrop>>

(* A step, a waypoint or a teleport.                                       *)
Relocate(p, location) ==
  /\ p \in Online
  /\ players' = [players EXCEPT ![p].area = location.area, ![p].at = location.at]
  /\ pending' = pending \ {players[p].area, location.area}
  /\ UNCHANGED <<enemies, count, timer, nextID, ground, nextDrop, held>>

Heal(p) ==
  /\ p \in Online
  /\ players[p].health < MaxHealth
  /\ \E health \in players[p].health + 1 .. MaxHealth :
       players' = [players EXCEPT ![p].health = health]
  /\ pending' = pending \ {players[p].area}
  /\ UNCHANGED <<enemies, count, timer, nextID, ground, nextDrop, held>>

(* An attack strikes every enemy around the player.                        *)
Attack(p) ==
  LET hit == {id \in DOMAIN enemies :
                Within(p, AreaOf(enemies[id]), enemies[id].at, AttackRange)}
      killed == {id \in hit : enemies[id].health <= AttackDamage}
  IN  /\ p \in Online
      /\ hit # {}
      /\ Defeat(killed, [id \in DOMAIN enemies \ killed |->
           IF id \in hit THEN [enemies[id] EXCEPT !.health = @ - AttackDamage]
                         ELSE enemies[id]])
      /\ pending' = pending \ {players[p].area}
      /\ UNCHANGED <<players, nextID, held>>

DefeatEnemy(id) ==
  /\ id \in DOMAIN enemies
  /\ Defeat({id}, [other \in DOMAIN enemies \ {id} |-> enemies[other]])
  /\ pending' = pending \ {AreaOf(enemies[id])}
  /\ UNCHANGED <<players, nextID, held>>

(* The item leaves the ground; its session stores it, or returns it when   *)
(* that failed.                                                            *)
Pickup(p, id) ==
  /\ p \in Online
  /\ id \in DOMAIN ground
  /\ Within(p, ground[id].area, ground[id].at, PickupRange)
  /\ held' = held \cup {[by |-> p, id |-> id, drop |-> ground[id]]}
  /\ ground' = [other \in DOMAIN ground \ {id} |-> ground[other]]
  /\ pending' = pending \ {players[p].area}
  /\ UNCHANGED <<players, enemies, count, timer, nextID, nextDrop>>

Store(h) ==
  /\ held' = held \ {h}
  /\ UNCHANGED <<players, enemies, count, timer, nextID, ground, nextDrop, pending>>

Restore(h) ==
  /\ h.id \notin DOMAIN ground
  /\ ground' = Joined(ground, [id \in {h.id} |-> h.drop])
  /\ held' = held \ {h}
  /\ pending' = pending \ {h.drop.area}
  /\ UNCHANGED <<players, enemies, count, timer, nextID, nextDrop>>

-----------------------------------------------------------------------------
Population == SumFunctionOnSet(MaxEnemies, Spawns)

(* populate: every spawn is full.                                          *)
Init ==
  /\ players = [p \in Players |-> Offline]
  /\ count = MaxEnemies
  /\ timer = [k \in Spawns |-> "none"]
  /\ nextID = Population
  /\ enemies \in {f \in [1 .. nextID -> {Newborn(k, point) : k \in Spawns, point \in Points}] :
       /\ \A id \in 1 .. nextID : f[id].at \in SpawnPoints(f[id].spawn)
       /\ \A k \in Spawns :
            Cardinality(Brood(f, k)) = MaxEnemies[k]}
  /\ ground = [id \in {} |-> Nowhere]
  /\ nextDrop = 0
  /\ held = {}
  /\ pending = {}

Ground == {location \in Locations : location.at \in Walkable[location.area]}

PlayerRequest(p) ==
  \/ \E location \in Ground : Enter(p, location) \/ Relocate(p, location)
  \/ Exit(p)
  \/ Heal(p)
  \/ Attack(p)
  \/ \E id \in DOMAIN ground : Pickup(p, id)

Next ==
  \/ \E p \in Players : PlayerRequest(p)
  \/ \E id \in DOMAIN enemies : DefeatEnemy(id)
  \/ \E h \in held : Store(h) \/ Restore(h)
  \/ \E k \in Spawns : Elapse(k)
  \/ Tick
  \/ BroadcastTick

(* The enemy ticker keeps its tick until the loop takes it, and time       *)
(* passes.                                                                 *)
Fairness == WF_vars(Tick) /\ \A k \in Spawns : WF_vars(Elapse(k))

Spec == Init /\ [][Next]_vars /\ Fairness

-----------------------------------------------------------------------------
(* Properties. *)

(* Every variable holds a value of its kind: health between nothing and    *)
(* full, enemies of this world, IDs handed out so far.                     *)
TypeOK ==
  /\ players \in [Players -> {Offline} \cup [area : Areas, at : Points, health : 0 .. MaxHealth]]
  /\ DOMAIN enemies \subseteq 1 .. nextID
  /\ \A id \in DOMAIN enemies : enemies[id] \in
       [spawn : Spawns, at : Points, health : 1 .. EnemyHealth, resting : BOOLEAN]
  /\ count \in [Spawns -> Nat]
  /\ timer \in [Spawns -> {"none", "running", "due"}]
  /\ DOMAIN ground \cup {h.id : h \in held} \subseteq 1 .. nextDrop
  /\ pending \subseteq Areas

(* The books of a spawn agree with the enemies that are really there, and  *)
(* no spawn ever keeps more than max_enemies (enemySystem.populate, tick   *)
(* and remove, over any sequence of defeats and respawns).                 *)
SpawnBooksBalance ==
  \A k \in Spawns :
    /\ count[k] = Cardinality(Brood(enemies, k))
    /\ count[k] <= MaxEnemies[k]

(* A spawn that lost an enemy always has a respawn timer, and a full one   *)
(* never has: no defeat, however many fall while a timer already runs,     *)
(* leaves a spawn empty for good (enemySystem.remove and tick).            *)
RespawnIsNeverForgotten ==
  \A k \in Spawns : count[k] < MaxEnemies[k] <=> timer[k] # "none"

(* Enemies never leave the rectangle of their spawn or the ground, whoever *)
(* lures them (enemySystem.spawn, updateAreas, Enemy.canMoveTo).           *)
EnemiesStayHome ==
  \A id \in DOMAIN enemies : enemies[id].at \in SpawnPoints(enemies[id].spawn)

(* No handler ever leaves a player in the world without health, however    *)
(* many enemies strike in one tick: who falls has respawned by its end.    *)
PlayersStandAlive ==
  \A p \in Online : players[p].health > 0

(* Who falls in a tick is spared for the rest of it, even with enemies at  *)
(* the default spawn, and starts again with full health.                   *)
TheFallenAreSpared ==
  [][\A p \in Online \cap OnlineIn(players') :
       \/ [area |-> players[p].area, at |-> players[p].at] =
          [area |-> players'[p].area, at |-> players'[p].at]
       \/ players'[p].health = MaxHealth
       \/ ~Tick]_vars

Scene(ps, es, a) ==
  [players |-> {<<p, ps[p]>> : p \in {p \in OnlineIn(ps) : ps[p].area = a}},
   enemies |-> {<<id, es[id].at, es[id].health>> :
                  id \in {id \in DOMAIN es : AreaOf(es[id]) = a}}]

(* Whatever someone could see change in a tick, the area it changed in is  *)
(* noted for the broadcast ticker: what World.EnemyTick takes for granted. *)
TicksNoteWhatTheyChange ==
  [][\/ \A a \in AreasWithPlayers(players') :
          Scene(players, enemies, a) = Scene(players', enemies', a) \/ a \in pending'
     \/ ~Tick]_vars

(* Defeated enemies are replaced until the cap is restored, once there are *)
(* players to see it and nobody fights any more.                           *)
SpawnsRefill ==
  <>[](Online # {}) => <>[](\A k \in Spawns : count[k] = MaxEnemies[k])

=============================================================================
