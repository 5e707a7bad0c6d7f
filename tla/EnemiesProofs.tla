---------------------------- MODULE EnemiesProofs ----------------------------
(***************************************************************************)
(* Enemies, for any spawns, maps, players and numbers of enemies: the      *)
(* books of the spawns, then what a whole tick does.                       *)
(*                                                                         *)
(* Neither property of the books is inductive alone: removing an enemy     *)
(* keeps the equivalence of RespawnIsNeverForgotten only because the spawn *)
(* counts no more than its maximum and at least the enemies that fell,     *)
(* which is what SpawnBooksBalance says; and a newborn adds exactly one to *)
(* the brood only because no live enemy already has its ID.                *)
(*                                                                         *)
(* A tick is followed enemy by enemy: Sound is kept by whatever one enemy  *)
(* does, and holds of every tick in Acted by induction over the enemies    *)
(* that have acted.                                                        *)
(***************************************************************************)
EXTENDS Enemies, Sums

(* What the books rest on: IDs handed out once, and the spawns' timers.    *)
IDsInUse ==
  /\ nextID \in Nat
  /\ DOMAIN enemies \subseteq 1 .. nextID
  /\ \A id \in DOMAIN enemies : "spawn" \in DOMAIN enemies[id]

BooksInv ==
  /\ IDsInUse
  /\ count \in [Spawns -> Int]
  /\ timer \in [Spawns -> {"none", "running", "due"}]
  /\ SpawnBooksBalance
  /\ RespawnIsNeverForgotten

books == <<enemies, count, timer, nextID>>

(* A brood is finite, so its cardinality is a number.                      *)
LEMMA BroodFinite ==
  ASSUME IDsInUse, NEW k
  PROVE  /\ IsFiniteSet(DOMAIN enemies)
         /\ IsFiniteSet(Brood(enemies, k))
         /\ Cardinality(Brood(enemies, k)) \in Nat
<1>1. IsFiniteSet(1 .. nextID)
  BY FS_Interval DEF IDsInUse
<1>2. IsFiniteSet(DOMAIN enemies)
  BY <1>1, FS_Subset DEF IDsInUse
<1>3. Brood(enemies, k) \subseteq DOMAIN enemies
  BY DEF Brood
<1> QED
  BY <1>2, <1>3, FS_Subset, FS_CardinalityType

(* Losing the enemies of killed makes a brood smaller by as many.          *)
LEMMA BroodAfterLoss ==
  ASSUME IDsInUse, NEW k, NEW killed \in SUBSET DOMAIN enemies, NEW es,
         DOMAIN es = DOMAIN enemies \ killed,
         \A id \in DOMAIN es : es[id].spawn = enemies[id].spawn
  PROVE  /\ KillsOf(k, killed) \in Nat
         /\ KillsOf(k, killed) <= Cardinality(Brood(enemies, k))
         /\ Cardinality(Brood(es, k)) = Cardinality(Brood(enemies, k)) - KillsOf(k, killed)
<1> DEFINE lost == killed \cap Brood(enemies, k)
<1>1. IsFiniteSet(Brood(enemies, k))
  BY BroodFinite
<1>2. lost \subseteq Brood(enemies, k)
  OBVIOUS
<1>3. Brood(es, k) = Brood(enemies, k) \ lost
  BY DEF Brood
<1>4. /\ IsFiniteSet(lost)
      /\ Cardinality(lost) <= Cardinality(Brood(enemies, k))
  BY <1>1, <1>2, FS_Subset
<1>5. Cardinality(lost) \in Nat
  BY <1>4, FS_CardinalityType
<1>6. Cardinality(Brood(enemies, k) \ lost)
        = Cardinality(Brood(enemies, k)) - Cardinality(Brood(enemies, k) \cap lost)
  BY <1>1, FS_Difference
<1>7. Brood(enemies, k) \cap lost = lost
  BY <1>2
<1> QED
  BY <1>3, <1>4, <1>5, <1>6, <1>7 DEF KillsOf

(* Defeats keep the books.                                                 *)
LEMMA DefeatKeepsBooks ==
  ASSUME BooksInv, NEW killed \in SUBSET DOMAIN enemies, NEW survivors,
         DOMAIN survivors = DOMAIN enemies \ killed,
         \A id \in DOMAIN survivors : survivors[id].spawn = enemies[id].spawn,
         \A id \in DOMAIN survivors : "spawn" \in DOMAIN survivors[id],
         Defeat(killed, survivors), nextID' = nextID
  PROVE  BooksInv'
<1>1. /\ enemies' = survivors
      /\ count' = [k \in Spawns |-> count[k] - KillsOf(k, killed)]
      /\ timer' = [k \in Spawns |->
                     IF KillsOf(k, killed) > 0 THEN TimerAfterLoss(k) ELSE timer[k]]
  BY DEF Defeat
<1>2. IDsInUse'
  BY <1>1 DEF IDsInUse, BooksInv
<1>3. ASSUME NEW k \in Spawns
      PROVE  /\ KillsOf(k, killed) \in Nat
             /\ count[k] \in Nat
             /\ KillsOf(k, killed) <= count[k]
             /\ count[k] <= MaxEnemies[k]
             /\ Cardinality(Brood(enemies', k)) = count[k] - KillsOf(k, killed)
  <2>1. count[k] = Cardinality(Brood(enemies, k)) /\ count[k] <= MaxEnemies[k]
    BY DEF BooksInv, SpawnBooksBalance
  <2>2. Cardinality(Brood(enemies, k)) \in Nat
    BY BroodFinite DEF BooksInv
  <2>3. /\ KillsOf(k, killed) \in Nat
        /\ KillsOf(k, killed) <= Cardinality(Brood(enemies, k))
        /\ Cardinality(Brood(survivors, k))
             = Cardinality(Brood(enemies, k)) - KillsOf(k, killed)
    BY BroodAfterLoss DEF BooksInv
  <2> QED
    BY <1>1, <2>1, <2>2, <2>3
<1>4. count' \in [Spawns -> Int]
  BY <1>1, <1>3
<1>5. timer' \in [Spawns -> {"none", "running", "due"}]
  BY <1>1 DEF BooksInv, TimerAfterLoss
<1>6. SpawnBooksBalance'
  <2> SUFFICES ASSUME NEW k \in Spawns
               PROVE  /\ count'[k] = Cardinality(Brood(enemies', k))
                      /\ count'[k] <= MaxEnemies[k]
    BY DEF SpawnBooksBalance, Brood
  <2>1. MaxEnemies[k] \in Nat
    BY SpawnsAssumption
  <2> QED
    BY <1>1, <1>3, <2>1
<1>7. RespawnIsNeverForgotten'
  <2> SUFFICES ASSUME NEW k \in Spawns
               PROVE  count'[k] < MaxEnemies[k] <=> timer'[k] # "none"
    BY DEF RespawnIsNeverForgotten
  <2>1. MaxEnemies[k] \in Nat
    BY SpawnsAssumption
  <2>2. count[k] < MaxEnemies[k] <=> timer[k] # "none"
    BY DEF BooksInv, RespawnIsNeverForgotten
  <2>3. count'[k] = count[k] - KillsOf(k, killed)
    BY <1>1
  <2>4. CASE KillsOf(k, killed) > 0
    <3>1. timer'[k] # "none"
      BY <1>1, <2>4 DEF TimerAfterLoss
    <3>2. count'[k] < MaxEnemies[k]
      BY <1>3, <2>1, <2>3, <2>4
    <3> QED
      BY <3>1, <3>2
  <2>5. CASE ~(KillsOf(k, killed) > 0)
    <3>1. timer'[k] = timer[k]
      BY <1>1, <2>5
    <3>2. count'[k] = count[k]
      BY <1>3, <2>3, <2>5
    <3> QED
      BY <2>2, <3>1, <3>2
  <2> QED
    BY <2>4, <2>5
<1> QED
  BY <1>2, <1>4, <1>5, <1>6, <1>7 DEF BooksInv

(* A spawn that is due gets exactly one newborn, the others get none.      *)
LEMMA BroodAfterRefill ==
  ASSUME IDsInUse, NEW due \in SUBSET Spawns, NEW survivors,
         DOMAIN survivors = DOMAIN enemies,
         \A id \in DOMAIN enemies : survivors[id].spawn = enemies[id].spawn,
         NEW places, NEW n \in Nat, NEW ids \in [due -> nextID + 1 .. nextID + n],
         \A k, l \in due : ids[k] = ids[l] => k = l,
         NEW k \in Spawns
  PROVE  Cardinality(Brood(Joined(survivors, NewbornsOf(due, places, ids)), k))
           = IF k \in due THEN Cardinality(Brood(enemies, k)) + 1
                          ELSE Cardinality(Brood(enemies, k))
<1> DEFINE new == NewbornsOf(due, places, ids)
           es == Joined(survivors, new)
<1>1. DOMAIN new = {ids[l] : l \in due}
  BY DEF NewbornsOf
<1>2. ASSUME NEW l \in due
      PROVE  new[ids[l]].spawn = l
  <2>1. (CHOOSE m \in due : ids[m] = ids[l]) = l
    OBVIOUS
  <2> QED
    BY <2>1 DEF NewbornsOf, Newborn
<1>3. ASSUME NEW l \in due
      PROVE  ids[l] \notin DOMAIN enemies
  BY DEF IDsInUse
<1>4. DOMAIN es = DOMAIN enemies \cup {ids[l] : l \in due}
  BY <1>1 DEF Joined
<1>5. ASSUME NEW id \in DOMAIN enemies
      PROVE  es[id].spawn = enemies[id].spawn
  BY DEF Joined
<1>6. ASSUME NEW l \in due
      PROVE  es[ids[l]].spawn = l
  BY <1>1, <1>2, <1>3 DEF Joined
<1> HIDE DEF es, new
<1>7. CASE k \in due
  <2>1. Brood(es, k) = Brood(enemies, k) \cup {ids[k]}
    BY <1>4, <1>5, <1>6, <1>7 DEF Brood
  <2>2. ids[k] \notin Brood(enemies, k)
    BY <1>3, <1>7 DEF Brood
  <2>3. IsFiniteSet(Brood(enemies, k))
    BY BroodFinite
  <2> QED
    BY <1>7, <2>1, <2>2, <2>3, FS_AddElement DEF es, new
<1>8. CASE k \notin due
  <2>1. Brood(es, k) = Brood(enemies, k)
    BY <1>4, <1>5, <1>6, <1>8 DEF Brood
  <2> QED
    BY <1>8, <2>1 DEF es, new
<1> QED
  BY <1>7, <1>8

(* A tick keeps the books, whatever the enemies did in it.                 *)
LEMMA RefillKeepsBooks ==
  ASSUME BooksInv, NEW tick, Refill(tick)
  PROVE  BooksInv'
<1> DEFINE due == {k \in Spawns : Due(k)}
<1>1. PICK places \in [due -> Points], ids \in [due -> nextID + 1 .. nextID + Cardinality(due)] :
        /\ \A k, l \in due : ids[k] = ids[l] => k = l
        /\ enemies' = Joined(AfterActing(tick), NewbornsOf(due, places, ids))
        /\ nextID' = nextID + Cardinality(due)
        /\ count' = [k \in Spawns |-> IF k \in due THEN count[k] + 1 ELSE count[k]]
        /\ timer' = [k \in Spawns |-> IF k \in due THEN TimerAfterSpawn(k) ELSE timer[k]]
  BY DEF Refill
<1>2. due \in SUBSET Spawns /\ Cardinality(due) \in Nat
  BY SpawnsAssumption, FS_Subset, FS_CardinalityType
<1>3. /\ DOMAIN AfterActing(tick) = DOMAIN enemies
      /\ \A id \in DOMAIN enemies :
           /\ "spawn" \in DOMAIN AfterActing(tick)[id]
           /\ AfterActing(tick)[id].spawn = enemies[id].spawn
  BY DEF AfterActing, BooksInv, IDsInUse
<1>4. IDsInUse'
  <2>1. nextID' \in Nat
    BY <1>1, <1>2 DEF BooksInv, IDsInUse
  <2>2. DOMAIN enemies' = DOMAIN enemies \cup {ids[k] : k \in due}
    BY <1>1, <1>3 DEF Joined, NewbornsOf
  <2>3. DOMAIN enemies' \subseteq 1 .. nextID'
    <3> DEFINE n == Cardinality(due)
    <3>1. n \in Nat /\ nextID \in Nat /\ nextID' = nextID + n
      BY <1>1, <1>2 DEF BooksInv, IDsInUse
    <3>2. DOMAIN enemies \subseteq 1 .. nextID
      BY DEF BooksInv, IDsInUse
    <3>3. {ids[k] : k \in due} \subseteq nextID + 1 .. nextID + n
      BY <1>1
    <3> HIDE DEF due, n
    <3> QED
      BY <2>2, <3>1, <3>2, <3>3
  <2>4. ASSUME NEW id \in DOMAIN enemies'
        PROVE  "spawn" \in DOMAIN enemies'[id]
    BY <1>1, <1>3, <2>2 DEF Joined, NewbornsOf, Newborn
  <2> QED
    BY <2>1, <2>3, <2>4 DEF IDsInUse
<1>5. count' \in [Spawns -> Int]
  BY <1>1 DEF BooksInv
<1>6. timer' \in [Spawns -> {"none", "running", "due"}]
  BY <1>1 DEF BooksInv, TimerAfterSpawn
<1>7. ASSUME NEW k \in Spawns
      PROVE  /\ count[k] \in Int /\ MaxEnemies[k] \in Nat
             /\ count[k] = Cardinality(Brood(enemies, k))
             /\ count[k] <= MaxEnemies[k]
             /\ count[k] < MaxEnemies[k] <=> timer[k] # "none"
             /\ Due(k) => count[k] < MaxEnemies[k]
  BY SpawnsAssumption DEF BooksInv, SpawnBooksBalance, RespawnIsNeverForgotten, Due
<1>8. SpawnBooksBalance'
  <2> SUFFICES ASSUME NEW k \in Spawns
               PROVE  /\ count'[k] = Cardinality(Brood(enemies', k))
                      /\ count'[k] <= MaxEnemies[k]
    BY DEF SpawnBooksBalance, Brood
  <2>1. Cardinality(Brood(enemies', k))
          = IF k \in due THEN Cardinality(Brood(enemies, k)) + 1
                         ELSE Cardinality(Brood(enemies, k))
    <3> HIDE DEF due
    <3> QED
      BY <1>1, <1>2, <1>3, BroodAfterRefill DEF BooksInv
  <2> QED
    BY <1>1, <1>7, <2>1
<1>9. RespawnIsNeverForgotten'
  <2> SUFFICES ASSUME NEW k \in Spawns
               PROVE  count'[k] < MaxEnemies[k] <=> timer'[k] # "none"
    BY DEF RespawnIsNeverForgotten
  <2> QED
    BY <1>1, <1>7 DEF TimerAfterSpawn
<1> QED
  BY <1>4, <1>5, <1>6, <1>8, <1>9 DEF BooksInv

-----------------------------------------------------------------------------
LEMMA InitBooks == Init => BooksInv
<1> SUFFICES ASSUME Init PROVE BooksInv
  OBVIOUS
<1>1. nextID \in Nat
  <2>1. IsFiniteSet(Spawns) /\ \A k \in Spawns : MaxEnemies[k] \in Nat
    BY SpawnsAssumption
  <2> QED BY <2>1, SumOfNaturals DEF Init, Population
<1>2. /\ enemies \in [1 .. nextID -> {Newborn(k, point) : k \in Spawns, point \in Points}]
      /\ \A k \in Spawns : Cardinality(Brood(enemies, k)) = MaxEnemies[k]
  BY DEF Init
<1>3. IDsInUse
  BY <1>1, <1>2 DEF IDsInUse, Newborn
<1>4. \A k \in Spawns : MaxEnemies[k] \in Nat
  BY SpawnsAssumption
<1> QED
  BY <1>2, <1>3, <1>4, SpawnsAssumption
  DEF Init, BooksInv, SpawnBooksBalance, RespawnIsNeverForgotten

LEMMA UnchangedKeepsBooks ==
  ASSUME BooksInv, UNCHANGED books
  PROVE  BooksInv'
BY DEF BooksInv, books, IDsInUse, SpawnBooksBalance, RespawnIsNeverForgotten, Brood

LEMMA StepKeepsBooks == BooksInv /\ [Next]_vars => BooksInv'
<1> SUFFICES ASSUME BooksInv, [Next]_vars
             PROVE  BooksInv'
  OBVIOUS
<1>1. ASSUME NEW p \in Players, PlayerRequest(p)
      PROVE  BooksInv'
  <2>1. CASE Attack(p)
    <3> DEFINE hit == {id \in DOMAIN enemies :
                         Within(p, AreaOf(enemies[id]), enemies[id].at, AttackRange)}
               killed == {id \in hit : enemies[id].health <= AttackDamage}
               survivors == [id \in DOMAIN enemies \ killed |->
                 IF id \in hit THEN [enemies[id] EXCEPT !.health = @ - AttackDamage]
                               ELSE enemies[id]]
    <3>1. Defeat(killed, survivors) /\ nextID' = nextID
      BY <2>1 DEF Attack
    <3>2. killed \in SUBSET DOMAIN enemies
      OBVIOUS
    <3>3. /\ DOMAIN survivors = DOMAIN enemies \ killed
          /\ \A id \in DOMAIN survivors : survivors[id].spawn = enemies[id].spawn
          /\ \A id \in DOMAIN survivors : "spawn" \in DOMAIN survivors[id]
      BY DEF BooksInv, IDsInUse
    <3> HIDE DEF killed, survivors
    <3> QED
      BY <3>1, <3>2, <3>3, DefeatKeepsBooks
  <2>2. CASE ~Attack(p)
    <3>1. UNCHANGED books
      BY <1>1, <2>2 DEF PlayerRequest, Enter, Exit, Relocate, Heal, Pickup, books
    <3> QED
      BY <3>1, UnchangedKeepsBooks
  <2> QED
    BY <2>1, <2>2
<1>2. ASSUME NEW id \in DOMAIN enemies, DefeatEnemy(id)
      PROVE  BooksInv'
  <2> DEFINE survivors == [other \in DOMAIN enemies \ {id} |-> enemies[other]]
  <2>1. Defeat({id}, survivors) /\ nextID' = nextID
    BY <1>2 DEF DefeatEnemy
  <2>2. /\ DOMAIN survivors = DOMAIN enemies \ {id}
        /\ \A x \in DOMAIN survivors : survivors[x].spawn = enemies[x].spawn
        /\ \A x \in DOMAIN survivors : "spawn" \in DOMAIN survivors[x]
    BY DEF BooksInv, IDsInUse
  <2> HIDE DEF survivors
  <2> QED
    BY <2>1, <2>2, DefeatKeepsBooks
<1>3. ASSUME NEW h \in held, Store(h) \/ Restore(h)
      PROVE  BooksInv'
  BY <1>3, UnchangedKeepsBooks DEF Store, Restore, books
<1>4. ASSUME NEW k \in Spawns, Elapse(k)
      PROVE  BooksInv'
  <2>1. UNCHANGED <<enemies, count, nextID>> /\ timer[k] = "running"
        /\ timer' = [timer EXCEPT ![k] = "due"]
    BY <1>4 DEF Elapse
  <2> QED
    BY <2>1 DEF BooksInv, IDsInUse, SpawnBooksBalance, RespawnIsNeverForgotten, Brood
<1>5. CASE Tick
  BY <1>5, RefillKeepsBooks DEF Tick
<1>6. CASE BroadcastTick
  BY <1>6, UnchangedKeepsBooks DEF BroadcastTick, books
<1>7. CASE UNCHANGED vars
  BY <1>7, UnchangedKeepsBooks DEF vars, books
<1> QED
  BY <1>1, <1>2, <1>3, <1>4, <1>5, <1>6, <1>7 DEF Next

(* The spawns' books agree with the enemies that are there, for every      *)
(* number of spawns and enemies (enemySystem.populate, tick, remove).      *)
THEOREM BooksAlwaysBalance == Spec => []SpawnBooksBalance
<1>1. BooksInv => SpawnBooksBalance
  BY DEF BooksInv
<1> QED
  BY InitBooks, StepKeepsBooks, <1>1, PTL DEF Spec

(* No spawn that lost an enemy is ever without a respawn timer, and no     *)
(* full one has one (enemySystem.remove, tick).                            *)
THEOREM RespawnNeverForgotten == Spec => []RespawnIsNeverForgotten
<1>1. BooksInv => RespawnIsNeverForgotten
  BY DEF BooksInv
<1> QED
  BY InitBooks, StepKeepsBooks, <1>1, PTL DEF Spec

-----------------------------------------------------------------------------
(* What one enemy does.  A tick in progress is sound when its players      *)
(* stand alive, its enemies are at home, and it has noted what differs     *)
(* from the world in which it began.                                       *)
Alive == [area : Areas, at : Points, health : 1 .. MaxHealth]

Ticks ==
  [players : [Players -> {Offline} \cup Alive],
   at : [DOMAIN enemies -> Points],
   resting : SUBSET DOMAIN enemies,
   respawned : SUBSET Players,
   changed : SUBSET Areas]

AtHome(tick) ==
  \A id \in DOMAIN enemies : tick.at[id] \in SpawnPoints(enemies[id].spawn)

MovesNoted(tick) ==
  \A id \in DOMAIN enemies :
    tick.at[id] # enemies[id].at => AreaOf(enemies[id]) \in tick.changed

Stays(tick, p) ==
  /\ p \notin tick.respawned
  /\ tick.players[p].area = players[p].area
  /\ tick.players[p].at = players[p].at

Falls(tick, p) == p \in tick.respawned /\ tick.players[p] = Respawned

WoundsNoted(tick) ==
  \A p \in Players :
    \/ tick.players[p] = players[p]
    \/ /\ players[p] # Offline /\ tick.players[p] # Offline
       /\ {players[p].area, tick.players[p].area} \subseteq tick.changed
       /\ Falls(tick, p) \/ Stays(tick, p)

Sound(tick) ==
  /\ tick \in Ticks
  /\ AtHome(tick)
  /\ MovesNoted(tick)
  /\ WoundsNoted(tick)

(* Enemies as the code keeps them: of a spawn, on its ground, not dead.    *)
Beasts ==
  [spawn : Spawns, at : Points, health : 1 .. EnemyHealth, resting : BOOLEAN]

EnemiesKept ==
  /\ players \in [Players -> {Offline} \cup Alive]
  /\ \A id \in DOMAIN enemies : enemies[id] \in Beasts
  /\ EnemiesStayHome

LEMMA BegunIsSound ==
  ASSUME EnemiesKept
  PROVE  Sound(Begun)
<1>1. Begun \in Ticks
  BY DEF Begun, Ticks, EnemiesKept, Beasts
<1>2. AtHome(Begun) /\ MovesNoted(Begun) /\ WoundsNoted(Begun)
  BY DEF AtHome, MovesNoted, WoundsNoted, Begun, EnemiesKept, EnemiesStayHome
<1> QED BY <1>1, <1>2 DEF Sound

(* An enemy is always somewhere it may be.                                 *)
LEMMA MovesAreSound ==
  ASSUME EnemiesKept, NEW tick, Sound(tick), NEW id \in DOMAIN enemies, NEW point,
         CanMoveTo(enemies[id].spawn, point)
  PROVE  Sound(MovesTo(tick, id, point))
<1> DEFINE t == MovesTo(tick, id, point)
           area == AreaOf(enemies[id])
<1>1. /\ tick \in Ticks /\ AtHome(tick) /\ MovesNoted(tick) /\ WoundsNoted(tick)
      /\ enemies[id] \in Beasts
  BY DEF Sound, EnemiesKept
<1>2. point \in SpawnPoints(enemies[id].spawn) /\ point \in Points /\ area \in Areas
  BY <1>1, SpawnsAssumption DEF CanMoveTo, SpawnPoints, AreaOf, Beasts
<1>3. CASE point = tick.at[id]
  BY <1>3 DEF MovesTo
<1>4. CASE point # tick.at[id]
  <2>1. t = [tick EXCEPT !.at = [tick.at EXCEPT ![id] = point], !.changed = tick.changed \cup {area}]
    BY <1>1, <1>4 DEF MovesTo, Changing, Ticks
  <2> HIDE DEF t, area
  <2>2. /\ t.players = tick.players /\ t.respawned = tick.respawned
        /\ t.at = [tick.at EXCEPT ![id] = point]
        /\ t.changed = tick.changed \cup {area}
    BY <1>1, <2>1 DEF Ticks
  <2>3. t \in Ticks
    BY <1>1, <1>2, <2>1 DEF Ticks
  <2>4. \A x \in DOMAIN enemies : t.at[x] = IF x = id THEN point ELSE tick.at[x]
    BY <1>1, <2>2 DEF Ticks
  <2>5. AtHome(t)
    BY <1>1, <1>2, <2>4 DEF AtHome
  <2>6. MovesNoted(t)
    BY <1>1, <2>2, <2>4 DEF MovesNoted, area
  <2>7. WoundsNoted(t)
    BY <1>1, <2>2 DEF WoundsNoted, Stays, Falls
  <2> QED BY <2>3, <2>5, <2>6, <2>7 DEF Sound, t
<1> QED BY <1>3, <1>4

LEMMA Targeted ==
  ASSUME NEW tick, Sound(tick), NEW id \in DOMAIN enemies, NEW p \in Targets(tick, id)
  PROVE  /\ p \in Players \ tick.respawned
         /\ tick.players[p] \in Alive
         /\ tick.players[p].area = AreaOf(enemies[id])
<1>1. /\ p \in Players \ tick.respawned
      /\ tick.players[p] # Offline
      /\ tick.players[p].area = AreaOf(enemies[id])
  BY DEF Targets, Nearest, Aware, OnlineIn
<1>2. tick.players \in [Players -> {Offline} \cup Alive]
  BY DEF Sound, Ticks
<1> QED BY <1>1, <1>2

LEMMA RespawnedAlive == Respawned \in Alive
BY SpawnsAssumption, CombatAssumption DEF Respawned, Alive, Locations

LEMMA BlowsHurt ==
  ASSUME NEW p \in Players, NEW health \in 1 .. MaxHealth
  PROVE  HealthAfter(p, health) \in 0 .. MaxHealth
<1>1. MaxHealth \in Nat /\ EnemyDamage \in Nat /\ Defense[p] \in Nat
  BY CombatAssumption
<1>2. Larger(EnemyDamage - Defense[p], 0) \in Nat
  BY <1>1 DEF Larger
<1> QED BY <1>1, <1>2 DEF HealthAfter, Larger

(* A tick in which one player is different and its area is noted.          *)
LEMMA WoundsAreSound ==
  ASSUME EnemiesKept, NEW tick, Sound(tick), NEW p \in Players \ tick.respawned,
         tick.players[p] \in Alive, NEW body \in Alive, NEW t,
         NEW resting \in SUBSET DOMAIN enemies, NEW areas \in SUBSET Areas,
         tick.players[p].area \in areas,
         \/ /\ body = Respawned /\ DefaultSpawn.area \in areas
            /\ t = [tick EXCEPT !.resting = resting, !.players = [tick.players EXCEPT ![p] = body],
                    !.respawned = tick.respawned \cup {p}, !.changed = tick.changed \cup areas]
         \/ /\ body.area = tick.players[p].area /\ body.at = tick.players[p].at
            /\ t = [tick EXCEPT !.resting = resting, !.players = [tick.players EXCEPT ![p] = body],
                    !.changed = tick.changed \cup areas]
  PROVE  Sound(t)
<1>1. /\ tick \in Ticks /\ AtHome(tick) /\ MovesNoted(tick) /\ WoundsNoted(tick)
      /\ players \in [Players -> {Offline} \cup Alive]
  BY DEF Sound, EnemiesKept
<1>2. /\ t.at = tick.at
      /\ t.players = [tick.players EXCEPT ![p] = body]
      /\ t.changed = tick.changed \cup areas
      /\ \/ t.respawned = tick.respawned
            /\ body.area = tick.players[p].area /\ body.at = tick.players[p].at
         \/ t.respawned = tick.respawned \cup {p} /\ body = Respawned
  BY <1>1 DEF Ticks
<1>3. t \in Ticks
  <2>1. [tick.players EXCEPT ![p] = body] \in [Players -> {Offline} \cup Alive]
    BY <1>1 DEF Ticks
  <2>2. /\ tick.changed \cup areas \in SUBSET Areas
        /\ tick.respawned \cup {p} \in SUBSET Players
    BY <1>1 DEF Ticks
  <2> QED BY <1>1, <2>1, <2>2 DEF Ticks
<1>4. AtHome(t) /\ MovesNoted(t)
  BY <1>1, <1>2 DEF AtHome, MovesNoted
<1>5. \A q \in Players : t.players[q] = IF q = p THEN body ELSE tick.players[q]
  BY <1>1, <1>2 DEF Ticks
<1>6. \A q \in Players : q # p => (q \in t.respawned <=> q \in tick.respawned)
  BY <1>2
<1>7. WoundsNoted(t)
  <2> SUFFICES ASSUME NEW q \in Players
               PROVE  \/ t.players[q] = players[q]
                      \/ /\ players[q] # Offline /\ t.players[q] # Offline
                         /\ {players[q].area, t.players[q].area} \subseteq t.changed
                         /\ Falls(t, q) \/ Stays(t, q)
    BY DEF WoundsNoted
  <2>1. CASE q # p
    BY <1>1, <1>2, <1>5, <1>6, <2>1 DEF WoundsNoted, Stays, Falls
  <2>2. CASE q = p
    <3>1. t.players[p] = body
      BY <1>5
    <3>2. tick.players[p] # Offline /\ body # Offline
      BY DEF Alive, Offline
    <3>3. \/ tick.players[p] = players[p]
          \/ /\ players[p] # Offline
             /\ {players[p].area, tick.players[p].area} \subseteq tick.changed
             /\ Falls(tick, p) \/ Stays(tick, p)
      BY <1>1 DEF WoundsNoted
    <3>4. players[p] # Offline /\ players[p].area \in t.changed
      BY <1>2, <3>2, <3>3
    <3>5. body.area \in t.changed
      BY <1>2, <3>1 DEF Respawned
    <3>6. Falls(t, p) \/ Stays(t, p)
      BY <1>2, <3>1, <3>3 DEF Stays, Falls
    <3> QED BY <2>2, <3>1, <3>2, <3>4, <3>5, <3>6
  <2> QED BY <2>1, <2>2
<1> QED BY <1>3, <1>4, <1>7 DEF Sound


LEMMA StrikesAreSound ==
  ASSUME EnemiesKept, NEW tick, Sound(tick), NEW id \in DOMAIN enemies,
         NEW p \in Targets(tick, id)
  PROVE  Sound(Strikes(tick, id, p))
<1> DEFINE area == AreaOf(enemies[id])
           health == HealthAfter(p, tick.players[p].health)
           struck == [tick EXCEPT !.resting = @ \cup {id}]
           resting == tick.resting \cup {id}
           t == Strikes(tick, id, p)
<1>1. /\ tick \in Ticks /\ AtHome(tick) /\ MovesNoted(tick) /\ WoundsNoted(tick)
      /\ enemies[id] \in Beasts
  BY DEF Sound, EnemiesKept
<1>2. /\ p \in Players \ tick.respawned
      /\ tick.players[p] \in Alive
      /\ tick.players[p].area = area
  BY Targeted
<1>3. resting \in SUBSET DOMAIN enemies
  BY <1>1 DEF Ticks
<1>4. area \in Areas /\ DefaultSpawn.area \in Areas
  BY <1>1, SpawnsAssumption DEF AreaOf, Beasts, Locations
<1>5. health \in 0 .. MaxHealth
  BY <1>2, BlowsHurt DEF Alive
<1>6. struck = [tick EXCEPT !.resting = resting] /\ struck.players = tick.players
      /\ struck.respawned = tick.respawned /\ struck.changed = tick.changed
  BY <1>1 DEF Ticks
<1>7. CASE health = 0
  <2> DEFINE u == [tick EXCEPT !.resting = resting,
                     !.players = [tick.players EXCEPT ![p] = Respawned],
                     !.respawned = tick.respawned \cup {p},
                     !.changed = tick.changed \cup {area, DefaultSpawn.area}]
  <2>1. t = Changing([struck EXCEPT !.players[p] = Respawned, !.respawned = @ \cup {p}],
                     {area, DefaultSpawn.area})
    BY <1>7 DEF Strikes, AreasOfDeath
  <2> DEFINE w == [struck EXCEPT !.players = [tick.players EXCEPT ![p] = Respawned],
                                 !.respawned = tick.respawned \cup {p}]
  <2>5. t = Changing(w, {area, DefaultSpawn.area})
    BY <1>6, <2>1
  <2>6. w = [tick EXCEPT !.resting = resting,
                     !.players = [tick.players EXCEPT ![p] = Respawned],
                     !.respawned = tick.respawned \cup {p}]
    BY <1>6
  <2> HIDE DEF area, health, struck, resting, t, w
  <2>2. t = u
    BY <1>1, <2>5, <2>6 DEF Changing, Ticks
  <2>3. {area, DefaultSpawn.area} \in SUBSET Areas /\ tick.players[p].area \in {area, DefaultSpawn.area}
    BY <1>2, <1>4
  <2>4. Sound(u)
    BY <1>2, <1>3, <2>3, RespawnedAlive, WoundsAreSound
  <2> QED BY <2>2, <2>4 DEF t
<1>8. CASE health # 0 /\ health # tick.players[p].health
  <2> DEFINE body == [tick.players[p] EXCEPT !.health = health]
             u == [tick EXCEPT !.resting = resting,
                     !.players = [tick.players EXCEPT ![p] = body],
                     !.changed = tick.changed \cup {area}]
  <2>1. t = Changing([struck EXCEPT !.players[p].health = health], {area})
    BY <1>8 DEF Strikes
  <2> DEFINE w == [struck EXCEPT !.players = [tick.players EXCEPT ![p] = body]]
  <2>6. t = Changing(w, {area})
    BY <1>6, <2>1
  <2>7. w = [tick EXCEPT !.resting = resting, !.players = [tick.players EXCEPT ![p] = body]]
    BY <1>6
  <2>2. t = u
    <3> HIDE DEF area, health, struck, resting, t, w, body
    <3> QED BY <1>1, <2>6, <2>7 DEF Changing, Ticks
  <2>3. body \in Alive /\ body.area = tick.players[p].area /\ body.at = tick.players[p].at
    BY <1>2, <1>5, <1>8, CombatAssumption DEF Alive
  <2> HIDE DEF area, health, struck, resting, t, body
  <2>4. {area} \in SUBSET Areas /\ tick.players[p].area \in {area}
    BY <1>2, <1>4
  <2>5. Sound(u)
    BY <1>2, <1>3, <2>3, <2>4, WoundsAreSound
  <2> QED BY <2>2, <2>5 DEF t
<1>9. CASE health # 0 /\ health = tick.players[p].health
  <2>1. t = [tick EXCEPT !.resting = resting]
    BY <1>6, <1>9 DEF Strikes
  <2> HIDE DEF t, resting
  <2>2. /\ t.players = tick.players /\ t.at = tick.at /\ t.changed = tick.changed
        /\ t.respawned = tick.respawned
    BY <1>1, <2>1 DEF Ticks
  <2>3. t \in Ticks
    BY <1>1, <1>3, <2>1 DEF Ticks
  <2>4. AtHome(t) /\ MovesNoted(t) /\ WoundsNoted(t)
    BY <1>1, <2>2 DEF AtHome, MovesNoted, WoundsNoted, Falls, Stays
  <2> QED BY <2>3, <2>4 DEF Sound, t
<1> QED BY <1>7, <1>8, <1>9

(* Whatever an enemy does, a sound tick stays sound.                       *)
LEMMA ActsAreSound ==
  ASSUME EnemiesKept, NEW tick, Sound(tick), NEW id \in DOMAIN enemies,
         NEW t \in Acts(tick, id)
  PROVE  Sound(t)
<1>1. CASE t = tick
  BY <1>1
<1>2. CASE t # tick /\ Targets(tick, id) = {}
  <2>1. t \in Wanders(tick, id)
    BY <1>2 DEF Acts
  <2>2. PICK d \in Directions : CanMoveTo(enemies[id].spawn, Plus(tick.at[id], d))
                                /\ t = MovesTo(tick, id, Plus(tick.at[id], d))
    BY <1>2, <2>1 DEF Wanders
  <2> QED BY <2>2, MovesAreSound
<1>3. CASE t # tick /\ Targets(tick, id) # {}
  <2>1. PICK p \in Targets(tick, id) :
          t \in IF Distance(tick.players[p].at, tick.at[id]) <= 1
                  THEN Attacks(tick, id, p) ELSE {Chases(tick, id, p)}
    BY <1>3 DEF Acts
  <2>2. CASE t \in Attacks(tick, id, p)
    <3>1. t = Strikes(tick, id, p)
      BY <1>3, <2>2 DEF Attacks
    <3> QED BY <3>1, StrikesAreSound
  <2>3. CASE t = Chases(tick, id, p)
    <3>1. PICK point : CanMoveTo(enemies[id].spawn, point) /\ t = MovesTo(tick, id, point)
      BY <1>3, <2>3 DEF Chases
    <3> QED BY <3>1, MovesAreSound
  <2> QED BY <2>1, <2>2, <2>3
<1> QED BY <1>1, <1>2, <1>3


(* Acted is what its definition says: a function that calls itself on      *)
(* smaller sets only, of which there are finitely many.                    *)
LEMMA ActedUnfolds ==
  ASSUME IsFiniteSet(DOMAIN enemies)
  PROVE  \A s \in SUBSET DOMAIN enemies :
           Acted[s] = IF s = {} THEN {Begun}
                      ELSE UNION {UNION {Acts(tick, id) : tick \in Acted[s \ {id}]} : id \in s}
<1> DEFINE S == DOMAIN enemies
           After(g, s) == UNION {UNION {Acts(tick, id) : tick \in g[s \ {id}]} : id \in s}
           Upto(n) == {s \in SUBSET S : Cardinality(s) <= n}
           Good(n, g) == g = [s \in Upto(n) |-> IF s = {} THEN {Begun} ELSE After(g, s)]
           T == {n \in Nat : \E g : Good(n, g)}
<1>1. \A s \in SUBSET S : IsFiniteSet(s) /\ Cardinality(s) \in Nat /\ Cardinality(s) <= Cardinality(S)
  BY FS_Subset, FS_CardinalityType
<1>2. \A n \in Nat : \A s \in Upto(n + 1) : \A id \in s : s \ {id} \in Upto(n)
  <2>1. SUFFICES ASSUME NEW n \in Nat, NEW s \in Upto(n + 1), NEW id \in s
                 PROVE  s \ {id} \in Upto(n)
    OBVIOUS
  <2>2. Cardinality(s \ {id}) = Cardinality(s) - 1
    BY <1>1, FS_RemoveElement
  <2> QED BY <1>1, <2>1, <2>2
<1>3. 0 \in T
  <2> DEFINE g == [s \in Upto(0) |-> {Begun}]
  <2>1. \A s \in Upto(0) : s = {}
    BY <1>1, FS_EmptySet
  <2> HIDE DEF Upto
  <2>2. g = [s \in Upto(0) |-> IF s = {} THEN {Begun} ELSE After(g, s)]
    BY <2>1
  <2> QED BY <2>2
<1>4. ASSUME NEW n \in T \cap Nat PROVE n + 1 \in T
  <2>1. PICK g : Good(n, g)
    BY <1>4
  <2> DEFINE h == [s \in Upto(n + 1) |-> IF s = {} THEN {Begun} ELSE After(g, s)]
  <2>2. \A s \in Upto(n) : g[s] = h[s]
    <3>1. Upto(n) \subseteq Upto(n + 1)
      BY <1>1
    <3> HIDE DEF After, Upto
    <3> QED BY <2>1, <3>1
  <2>3. ASSUME NEW s \in Upto(n + 1) PROVE After(g, s) = After(h, s)
    <3>1. \A id \in s : g[s \ {id}] = h[s \ {id}]
      <4> HIDE DEF After, Upto, h
      <4> QED BY <1>2, <1>4, <2>2
    <3> HIDE DEF h
    <3> DEFINE some(id) == UNION {Acts(tick, id) : tick \in g[s \ {id}]}
               other(id) == UNION {Acts(tick, id) : tick \in h[s \ {id}]}
    <3>2. \A id \in s : some(id) = other(id)
      BY <3>1
    <3>3. After(g, s) = UNION {some(id) : id \in s} /\ After(h, s) = UNION {other(id) : id \in s}
      OBVIOUS
    <3>4. {some(id) : id \in s} = {other(id) : id \in s}
      <4> HIDE DEF some, other
      <4> QED BY <3>2
    <3> HIDE DEF After, some, other
    <3> QED BY <3>3, <3>4
  <2>4. Good(n + 1, h)
    <3> HIDE DEF After, Upto
    <3>1. \A s \in Upto(n + 1) : h[s] = IF s = {} THEN {Begun} ELSE After(h, s)
      BY <2>3
    <3>2. h = [s \in Upto(n + 1) |-> IF s = {} THEN {Begun} ELSE After(h, s)]
      BY <3>1
    <3> QED BY <3>2
  <2> HIDE DEF Good, h
  <2> QED BY <1>4, <2>4
<1> HIDE DEF T
<1>5. Cardinality(S) \in T
  BY <1>1, <1>3, <1>4, Induction
<1>6. PICK g : Good(Cardinality(S), g)
  BY <1>5 DEF T
<1>7. Upto(Cardinality(S)) = SUBSET S
  BY <1>1
<1>8. g = [s \in SUBSET DOMAIN enemies |-> IF s = {} THEN {Begun} ELSE
             UNION {UNION {Acts(tick, id) : tick \in g[s \ {id}]} : id \in s}]
  BY <1>6, <1>7
<1>9. Acted = [s \in SUBSET DOMAIN enemies |-> IF s = {} THEN {Begun} ELSE
             UNION {UNION {Acts(tick, id) : tick \in Acted[s \ {id}]} : id \in s}]
  BY <1>8 DEF Acted
<1> QED BY <1>9

LEMMA ActedAreSound ==
  ASSUME EnemiesKept, IsFiniteSet(DOMAIN enemies), NEW tick \in Acted[DOMAIN enemies]
  PROVE  Sound(tick)
<1> DEFINE F == {s \in SUBSET DOMAIN enemies : \A t \in Acted[s] : Sound(t)}
<1>1. {} \in F
  <2>1. Acted[{}] = {Begun}
    BY ActedUnfolds
  <2> QED BY <2>1, BegunIsSound
<1>2. ASSUME NEW s \in SUBSET DOMAIN enemies, \A id \in s : s \ {id} \in F
      PROVE  s \in F
  <2>1. CASE s = {}
    BY <1>1, <2>1
  <2>2. CASE s # {}
    <3>1. ASSUME NEW t \in Acted[s] PROVE Sound(t)
      <4>1. PICK id \in s : t \in UNION {Acts(before, id) : before \in Acted[s \ {id}]}
        <5>1. Acted[s] = UNION {UNION {Acts(before, id) : before \in Acted[s \ {id}]} : id \in s}
          BY <2>2, ActedUnfolds
        <5> QED BY <3>1, <5>1
      <4>2. PICK before \in Acted[s \ {id}] : t \in Acts(before, id)
        BY <4>1
      <4>3. Sound(before)
        BY <1>2, <4>2
      <4> QED BY <4>2, <4>3, ActsAreSound
    <3> QED BY <3>1
  <2> QED BY <2>1, <2>2
<1> HIDE DEF F
<1>3. ASSUME NEW S, S = DOMAIN enemies PROVE S \in F
  <2>1. IsFiniteSet(S) /\ \A s \in SUBSET S : (\A id \in s : s \ {id} \in F) => s \in F
    BY <1>2, <1>3
  <2> QED BY <1>1, <2>1, OneByOne
<1> QED BY <1>3 DEF F

-----------------------------------------------------------------------------
(* The invariant of the whole module: the books, players and enemies as    *)
(* they should be, and drops with IDs handed out.                          *)
Drops == [item : Items, area : Areas, at : Points]

DropsKept ==
  /\ nextDrop \in Nat
  /\ DOMAIN ground \subseteq 1 .. nextDrop
  /\ \A id \in DOMAIN ground : ground[id] \in Drops
  /\ held \subseteq [by : Players, id : 1 .. nextDrop, drop : Drops]

EnemiesInv ==
  /\ BooksInv
  /\ EnemiesKept
  /\ DropsKept
  /\ pending \subseteq Areas

LEMMA InitEnemies == Init => EnemiesInv
<1> SUFFICES ASSUME Init PROVE EnemiesInv
  OBVIOUS
<1>1. BooksInv
  BY InitBooks
<1>2. players \in [Players -> {Offline} \cup Alive]
  BY DEF Init
<1>3. /\ enemies \in [1 .. nextID -> {Newborn(k, point) : k \in Spawns, point \in Points}]
      /\ \A id \in 1 .. nextID : enemies[id].at \in SpawnPoints(enemies[id].spawn)
  BY DEF Init
<1>4. ASSUME NEW id \in DOMAIN enemies
      PROVE  enemies[id] \in Beasts /\ enemies[id].at \in SpawnPoints(enemies[id].spawn)
  <2>1. PICK k \in Spawns, point \in Points : enemies[id] = Newborn(k, point)
    BY <1>3
  <2> QED BY <1>3, <2>1, CombatAssumption DEF Newborn, Beasts
<1>5. DropsKept /\ pending \subseteq Areas
  BY DEF Init, DropsKept
<1> QED BY <1>1, <1>2, <1>4, <1>5 DEF EnemiesInv, EnemiesKept, EnemiesStayHome

(* Only what is there can be touched, and what is touched stays a value of *)
(* its kind.                                                               *)
LEMMA Unhurt ==
  ASSUME EnemiesKept, UNCHANGED enemies, players' \in [Players -> {Offline} \cup Alive]
  PROVE  EnemiesKept'
BY DEF EnemiesKept, EnemiesStayHome, SpawnPoints, Beasts, Alive

LEMMA DefeatKeepsEnemies ==
  ASSUME EnemiesInv, NEW killed \in SUBSET DOMAIN enemies, NEW survivors,
         DOMAIN survivors = DOMAIN enemies \ killed,
         \A id \in DOMAIN survivors : /\ survivors[id] \in Beasts
                                      /\ survivors[id].spawn = enemies[id].spawn
                                      /\ survivors[id].at = enemies[id].at,
         Defeat(killed, survivors), UNCHANGED <<players, nextID, held>>
  PROVE  EnemiesKept' /\ DropsKept'
<1>1. enemies' = survivors
  BY DEF Defeat
<1>2. EnemiesKept'
  <2>1. \A id \in DOMAIN enemies' : enemies'[id] \in Beasts /\ enemies'[id].at \in SpawnPoints(enemies'[id].spawn)
    BY <1>1 DEF EnemiesInv, EnemiesKept, EnemiesStayHome
  <2> QED BY <2>1 DEF EnemiesInv, EnemiesKept, EnemiesStayHome, SpawnPoints, Beasts, Alive
<1>3. PICK dropped \in SUBSET (killed \X Items) :
        \E ids \in [dropped -> nextDrop + 1 .. nextDrop + Cardinality(dropped)] :
          /\ \A d, e \in dropped : ids[d] = ids[e] => d = e
          /\ ground' = Joined(ground, [id \in {ids[d] : d \in dropped} |->
               LET d == CHOOSE d \in dropped : ids[d] = id
               IN  [item |-> d[2], area |-> AreaOf(enemies[d[1]]), at |-> enemies[d[1]].at]])
          /\ nextDrop' = nextDrop + Cardinality(dropped)
  BY DEF Defeat
<1>4. PICK ids \in [dropped -> nextDrop + 1 .. nextDrop + Cardinality(dropped)] :
          /\ ground' = Joined(ground, [id \in {ids[d] : d \in dropped} |->
               LET d == CHOOSE d \in dropped : ids[d] = id
               IN  [item |-> d[2], area |-> AreaOf(enemies[d[1]]), at |-> enemies[d[1]].at]])
          /\ nextDrop' = nextDrop + Cardinality(dropped)
  BY <1>3
<1>5. Cardinality(dropped) \in Nat
  <2>1. IsFiniteSet(DOMAIN enemies)
    BY BroodFinite DEF EnemiesInv, BooksInv
  <2>2. IsFiniteSet(killed) /\ IsFiniteSet(Items)
    BY <2>1, FS_Subset, CombatAssumption
  <2>3. IsFiniteSet(killed \X Items)
    BY <2>2, FS_Product
  <2> QED BY <2>3, FS_Subset, FS_CardinalityType
<1>6. nextDrop \in Nat /\ nextDrop' \in Nat /\ nextDrop <= nextDrop'
  BY <1>4, <1>5 DEF EnemiesInv, DropsKept
<1> DEFINE pick(id) == CHOOSE d \in dropped : ids[d] = id
           loot(id) == [item |-> pick(id)[2], area |-> AreaOf(enemies[pick(id)[1]]),
                        at |-> enemies[pick(id)[1]].at]
           new == {ids[d] : d \in dropped}
<1>7. ground' = Joined(ground, [id \in new |-> loot(id)])
  BY <1>4
<1>8. ASSUME NEW id \in new PROVE loot(id) \in Drops /\ id \in 1 .. nextDrop'
  <2>1. pick(id) \in dropped
    BY <1>8
  <2>2. pick(id)[1] \in DOMAIN enemies /\ pick(id)[2] \in Items
    BY <2>1
  <2>3. enemies[pick(id)[1]] \in Beasts
    BY <2>2 DEF EnemiesInv, EnemiesKept
  <2>4. SpawnArea[enemies[pick(id)[1]].spawn] \in Areas /\ enemies[pick(id)[1]].at \in Points
    BY <2>3, SpawnsAssumption DEF Beasts
  <2>5. loot(id) \in Drops
    BY <2>2, <2>4 DEF Drops, AreaOf
  <2>6. id \in nextDrop + 1 .. nextDrop + Cardinality(dropped)
    BY <1>8
  <2> QED BY <1>4, <1>5, <1>6, <2>5, <2>6
<1> HIDE DEF pick, loot, new
<1>9. DropsKept'
  <2>1. DOMAIN ground' = DOMAIN ground \cup new
    BY <1>7 DEF Joined
  <2>2. \A id \in DOMAIN ground' : ground'[id] = IF id \in DOMAIN ground THEN ground[id] ELSE loot(id)
    BY <1>7 DEF Joined
  <2>3. \A id \in DOMAIN ground : ground[id] \in Drops /\ id \in 1 .. nextDrop'
    BY <1>6 DEF EnemiesInv, DropsKept
  <2>4. \A id \in DOMAIN ground' : ground'[id] \in Drops /\ id \in 1 .. nextDrop'
    BY <1>8, <2>1, <2>2, <2>3
  <2>5. held' \subseteq [by : Players, id : 1 .. nextDrop', drop : Drops]
    <3>1. 1 .. nextDrop \subseteq 1 .. nextDrop'
      BY <1>6
    <3> QED BY <3>1 DEF EnemiesInv, DropsKept
  <2>6. DOMAIN ground' \subseteq 1 .. nextDrop'
    BY <2>4
  <2>7. Drops' = Drops
    BY DEF Drops
  <2> QED BY <1>6, <2>4, <2>5, <2>6, <2>7 DEF DropsKept
<1> QED BY <1>2, <1>9


LEMMA ActedSound ==
  ASSUME EnemiesInv, NEW tick \in Acted[DOMAIN enemies]
  PROVE  Sound(tick)
BY BroodFinite, ActedAreSound DEF EnemiesInv, BooksInv

(* What a tick makes of the enemies: the old ones where they went, and new *)
(* ones in their spawns.                                                   *)
LEMMA TickKeepsEnemies ==
  ASSUME EnemiesInv, NEW tick \in Acted[DOMAIN enemies], players' = tick.players, Refill(tick)
  PROVE  EnemiesKept' /\ pending' \subseteq Areas
<1> DEFINE due == {k \in Spawns : Due(k)}
<1>1. PICK places \in [due -> Points], ids \in [due -> nextID + 1 .. nextID + Cardinality(due)] :
        /\ \A k \in due : places[k] \in SpawnPoints(k)
        /\ \A k, l \in due : ids[k] = ids[l] => k = l
        /\ enemies' = Joined(AfterActing(tick), NewbornsOf(due, places, ids))
        /\ pending' = pending \cup tick.changed
             \cup ({SpawnArea[k] : k \in due} \cap AreasWithPlayers(players))
  BY DEF Refill
<1>2. Sound(tick)
  BY ActedSound
<1>3. tick \in Ticks /\ AtHome(tick)
  BY <1>2 DEF Sound
<1>4. pending' \subseteq Areas
  <2>1. \A k \in Spawns : SpawnArea[k] \in Areas
    BY SpawnsAssumption
  <2>2. tick.changed \subseteq Areas
    BY <1>3 DEF Ticks
  <2> QED BY <1>1, <2>1, <2>2 DEF EnemiesInv
<1>5. players' \in [Players -> {Offline} \cup Alive]
  BY <1>3 DEF Ticks
<1> DEFINE old == AfterActing(tick)
           new == NewbornsOf(due, places, ids)
<1>6. ASSUME NEW id \in DOMAIN old
      PROVE  old[id] \in Beasts /\ old[id].at \in SpawnPoints(old[id].spawn)
  <2>1. enemies[id] \in Beasts /\ id \in DOMAIN enemies
    BY <1>6 DEF AfterActing, EnemiesInv, EnemiesKept
  <2>2. tick.at[id] \in Points /\ tick.at[id] \in SpawnPoints(enemies[id].spawn)
    BY <1>3, <2>1 DEF Ticks, AtHome
  <2>3. old[id] = [enemies[id] EXCEPT !.at = tick.at[id], !.resting = id \in tick.resting]
    BY <2>1 DEF AfterActing
  <2>4. (id \in tick.resting) \in BOOLEAN
    OBVIOUS
  <2>5. old[id] = [spawn |-> enemies[id].spawn, at |-> tick.at[id],
                   health |-> enemies[id].health, resting |-> id \in tick.resting]
    BY <2>1, <2>3 DEF Beasts
  <2> HIDE DEF old
  <2> QED BY <2>1, <2>2, <2>4, <2>5 DEF Beasts
<1>7. ASSUME NEW id \in DOMAIN new
      PROVE  new[id] \in Beasts /\ new[id].at \in SpawnPoints(new[id].spawn)
  <2> DEFINE k == CHOOSE k \in due : ids[k] = id
  <2>1. k \in due /\ new[id] = Newborn(k, places[k])
    BY <1>7 DEF NewbornsOf
  <2> HIDE DEF k, new
  <2>2. places[k] \in Points /\ places[k] \in SpawnPoints(k) /\ k \in Spawns
    BY <1>1, <2>1
  <2> QED BY <2>1, <2>2, CombatAssumption DEF Newborn, Beasts
<1> HIDE DEF old, new
<1>8. \A id \in DOMAIN enemies' : enemies'[id] \in Beasts
                                  /\ enemies'[id].at \in SpawnPoints(enemies'[id].spawn)
  <2>1. enemies' = Joined(old, new)
    BY <1>1 DEF old, new
  <2>2. /\ DOMAIN enemies' = DOMAIN old \cup DOMAIN new
        /\ \A id \in DOMAIN enemies' :
             enemies'[id] = IF id \in DOMAIN old THEN old[id] ELSE new[id]
    BY <2>1 DEF Joined
  <2> QED BY <1>6, <1>7, <2>2
<1> QED BY <1>4, <1>5, <1>8 DEF EnemiesKept, EnemiesStayHome, SpawnPoints, Beasts, Alive

LEMMA StepKeepsEnemies == EnemiesInv /\ [Next]_vars => EnemiesInv'
<1> SUFFICES ASSUME EnemiesInv, [Next]_vars
             PROVE  EnemiesInv'
  OBVIOUS
<1>0. BooksInv'
  BY StepKeepsBooks DEF EnemiesInv
<1>a. /\ Drops' = Drops /\ Alive' = Alive
      /\ players \in [Players -> {Offline} \cup Alive]
      /\ EnemiesKept /\ DropsKept /\ pending \subseteq Areas
  BY DEF Drops, Alive, EnemiesInv, EnemiesKept
<1>b. \A p \in Players : players[p] # Offline => players[p] \in Alive
  BY <1>a
<1>1. ASSUME NEW p \in Players, NEW location \in Ground, Enter(p, location)
      PROVE  EnemiesInv'
  <2>1. [area |-> location.area, at |-> location.at, health |-> MaxHealth] \in Alive
    BY CombatAssumption DEF Ground, Locations, Alive
  <2>2. EnemiesKept'
    BY <1>1, <1>a, <2>1, Unhurt DEF Enter
  <2>3. DropsKept' /\ pending' \subseteq Areas
    BY <1>1, <1>a DEF DropsKept, Enter, HeldByOthers
  <2> QED BY <1>0, <2>2, <2>3 DEF EnemiesInv
<1>2. ASSUME NEW p \in Players, NEW location \in Ground, Relocate(p, location)
      PROVE  EnemiesInv'
  <2>1. players[p] \in Alive
    BY <1>2, <1>b DEF Relocate, Online, OnlineIn
  <2> DEFINE body == [area |-> location.area, at |-> location.at, health |-> players[p].health]
  <2>6. [[players[p] EXCEPT !.area = location.area] EXCEPT !.at = location.at] = body
    <3> DEFINE r == players[p]
    <3>1. PICK x, y, h : r = [area |-> x, at |-> y, health |-> h]
      BY <2>1 DEF Alive
    <3> HIDE DEF r
    <3>3. [r EXCEPT !.area = location.area] = [area |-> location.area, at |-> y, health |-> h]
      BY <3>1
    <3>4. [[area |-> location.area, at |-> y, health |-> h] EXCEPT !.at = location.at]
            = [area |-> location.area, at |-> location.at, health |-> h]
      OBVIOUS
    <3>5. r.health = h
      BY <3>1
    <3>2. [[r EXCEPT !.area = location.area] EXCEPT !.at = location.at]
            = [area |-> location.area, at |-> location.at, health |-> r.health]
      BY <3>3, <3>4, <3>5
    <3> QED BY <3>2 DEF r
  <2>7. players' = [players EXCEPT ![p] =
          [[players[p] EXCEPT !.area = location.area] EXCEPT !.at = location.at]]
    <3> DEFINE f == [players EXCEPT ![p].area = location.area]
               b == [players[p] EXCEPT !.area = location.area]
               c == [b EXCEPT !.at = location.at]
    <3>1. f = [players EXCEPT ![p] = b]
      OBVIOUS
    <3>2. players' = [f EXCEPT ![p].at = location.at]
      BY <1>2 DEF Relocate
    <3>3. DOMAIN players = Players
      BY <1>a
    <3> HIDE DEF b, f
    <3>4. f[p] = b
      BY <3>1, <3>3
    <3>5. [f EXCEPT ![p].at = location.at] = [f EXCEPT ![p] = c]
      BY <3>4
    <3> HIDE DEF c
    <3>6. [f EXCEPT ![p] = c] = [players EXCEPT ![p] = c]
      BY <3>1
    <3> QED BY <3>2, <3>5, <3>6 DEF c, b
  <2>2. players' = [players EXCEPT ![p] = body]
    BY <2>6, <2>7
  <2>3. [area |-> location.area, at |-> location.at, health |-> players[p].health] \in Alive
    BY <2>1 DEF Ground, Locations, Alive
  <2>4. EnemiesKept'
    BY <1>2, <1>a, <2>2, <2>3, Unhurt DEF Relocate
  <2>5. DropsKept' /\ pending' \subseteq Areas
    BY <1>2, <1>a DEF DropsKept, Relocate
  <2> QED BY <1>0, <2>4, <2>5 DEF EnemiesInv
<1>3. ASSUME NEW p \in Players, Exit(p)
      PROVE  EnemiesInv'
  <2>1. EnemiesKept'
    BY <1>3, <1>a, Unhurt DEF Exit
  <2>2. DropsKept' /\ pending' \subseteq Areas
    BY <1>3, <1>a DEF DropsKept, Exit, HeldByOthers
  <2> QED BY <1>0, <2>1, <2>2 DEF EnemiesInv
<1>4. ASSUME NEW p \in Players, Heal(p)
      PROVE  EnemiesInv'
  <2>1. players[p] \in Alive
    BY <1>4, <1>b DEF Heal, Online, OnlineIn
  <2>2. PICK health \in players[p].health + 1 .. MaxHealth :
          players' = [players EXCEPT ![p].health = health]
    BY <1>4 DEF Heal
  <2>3. [players[p] EXCEPT !.health = health] \in Alive
    BY <2>1, CombatAssumption DEF Alive
  <2>4. players' = [players EXCEPT ![p] = [players[p] EXCEPT !.health = health]]
    BY <2>2
  <2>5. EnemiesKept'
    BY <1>4, <1>a, <2>3, <2>4, Unhurt DEF Heal
  <2>6. DropsKept' /\ pending' \subseteq Areas
    BY <1>4, <1>a DEF DropsKept, Heal
  <2> QED BY <1>0, <2>5, <2>6 DEF EnemiesInv
<1>5. ASSUME NEW p \in Players, Attack(p)
      PROVE  EnemiesInv'
  <2> DEFINE hit == {id \in DOMAIN enemies :
                       Within(p, AreaOf(enemies[id]), enemies[id].at, AttackRange)}
             killed == {id \in hit : enemies[id].health <= AttackDamage}
             survivors == [id \in DOMAIN enemies \ killed |->
               IF id \in hit THEN [enemies[id] EXCEPT !.health = @ - AttackDamage]
                             ELSE enemies[id]]
  <2>1. /\ Defeat(killed, survivors) /\ UNCHANGED <<players, nextID, held>>
        /\ pending' = pending \ {players[p].area}
    BY <1>5 DEF Attack
  <2>2. killed \in SUBSET DOMAIN enemies /\ DOMAIN survivors = DOMAIN enemies \ killed
    OBVIOUS
  <2>3. ASSUME NEW id \in DOMAIN survivors
        PROVE  /\ survivors[id] \in Beasts
               /\ survivors[id].spawn = enemies[id].spawn
               /\ survivors[id].at = enemies[id].at
    <3>1. enemies[id] \in Beasts /\ AttackDamage \in Nat \ {0} /\ EnemyHealth \in Nat
      BY <1>a, CombatAssumption DEF EnemiesKept
    <3>2. CASE id \in hit
      <4>1. survivors[id] = [enemies[id] EXCEPT !.health = enemies[id].health - AttackDamage]
        BY <3>2
      <4>2. ~(enemies[id].health <= AttackDamage)
        BY <3>2
      <4> HIDE DEF survivors, hit, killed
      <4> QED BY <3>1, <4>1, <4>2 DEF Beasts
    <3>3. CASE id \notin hit
      <4>1. survivors[id] = enemies[id]
        BY <3>3
      <4> QED BY <3>1, <4>1
    <3> QED BY <3>2, <3>3
  <2> HIDE DEF hit, killed, survivors
  <2>4. EnemiesKept' /\ DropsKept'
    BY <2>1, <2>2, <2>3, DefeatKeepsEnemies
  <2> QED BY <1>0, <1>a, <2>1, <2>4 DEF EnemiesInv
<1>6. ASSUME NEW p \in Players, NEW id \in DOMAIN ground, Pickup(p, id)
      PROVE  EnemiesInv'
  <2>1. EnemiesKept'
    BY <1>6, <1>a, Unhurt DEF Pickup
  <2>2. [by |-> p, id |-> id, drop |-> ground[id]] \in [by : Players, id : 1 .. nextDrop, drop : Drops]
    BY <1>6, <1>a DEF DropsKept
  <2>3. DropsKept' /\ pending' \subseteq Areas
    BY <1>6, <1>a, <2>2 DEF DropsKept, Pickup
  <2> QED BY <1>0, <2>1, <2>3 DEF EnemiesInv
<1>7. ASSUME NEW id \in DOMAIN enemies, DefeatEnemy(id)
      PROVE  EnemiesInv'
  <2> DEFINE survivors == [other \in DOMAIN enemies \ {id} |-> enemies[other]]
  <2>1. /\ Defeat({id}, survivors) /\ UNCHANGED <<players, nextID, held>>
        /\ pending' = pending \ {AreaOf(enemies[id])}
    BY <1>7 DEF DefeatEnemy
  <2>2. /\ DOMAIN survivors = DOMAIN enemies \ {id}
        /\ \A x \in DOMAIN survivors : /\ survivors[x] \in Beasts
                                       /\ survivors[x].spawn = enemies[x].spawn
                                       /\ survivors[x].at = enemies[x].at
    BY <1>a DEF EnemiesKept
  <2> HIDE DEF survivors
  <2>3. EnemiesKept' /\ DropsKept'
    BY <2>1, <2>2, DefeatKeepsEnemies
  <2> QED BY <1>0, <1>a, <2>1, <2>3 DEF EnemiesInv
<1>8. ASSUME NEW h \in held, Store(h)
      PROVE  EnemiesInv'
  <2>1. EnemiesKept'
    BY <1>8, <1>a, Unhurt DEF Store
  <2>2. DropsKept' /\ pending' \subseteq Areas
    BY <1>8, <1>a DEF DropsKept, Store
  <2> QED BY <1>0, <2>1, <2>2 DEF EnemiesInv
<1>9. ASSUME NEW h \in held, Restore(h)
      PROVE  EnemiesInv'
  <2>1. EnemiesKept'
    BY <1>9, <1>a, Unhurt DEF Restore
  <2>2. h \in [by : Players, id : 1 .. nextDrop, drop : Drops]
    BY <1>9, <1>a DEF DropsKept
  <2>3. DOMAIN ground' = DOMAIN ground \cup {h.id}
    BY <1>9 DEF Restore, Joined
  <2>4. \A x \in DOMAIN ground' : ground'[x] = IF x \in DOMAIN ground THEN ground[x] ELSE h.drop
    BY <1>9, <2>3 DEF Restore, Joined
  <2>5. UNCHANGED nextDrop /\ held' \subseteq held /\ pending' \subseteq pending
    BY <1>9 DEF Restore
  <2>6. DropsKept' /\ pending' \subseteq Areas
    BY <1>a, <2>2, <2>3, <2>4, <2>5 DEF DropsKept
  <2> QED BY <1>0, <2>1, <2>6 DEF EnemiesInv
<1>10. ASSUME NEW k \in Spawns, Elapse(k)
       PROVE  EnemiesInv'
  <2>1. EnemiesKept'
    BY <1>10, <1>a, Unhurt DEF Elapse
  <2>2. DropsKept' /\ pending' \subseteq Areas
    BY <1>10, <1>a DEF DropsKept, Elapse
  <2> QED BY <1>0, <2>1, <2>2 DEF EnemiesInv
<1>11. CASE Tick
  <2>1. PICK tick \in Acted[DOMAIN enemies] : players' = tick.players /\ Refill(tick)
    BY <1>11 DEF Tick
  <2>2. EnemiesKept' /\ pending' \subseteq Areas
    BY <2>1, TickKeepsEnemies
  <2>3. DropsKept'
    BY <1>11, <1>a DEF DropsKept, Tick
  <2> QED BY <1>0, <2>2, <2>3 DEF EnemiesInv
<1>12. CASE BroadcastTick
  <2>1. EnemiesKept'
    BY <1>12, <1>a, Unhurt DEF BroadcastTick
  <2>2. DropsKept' /\ pending' \subseteq Areas
    BY <1>12, <1>a DEF DropsKept, BroadcastTick
  <2> QED BY <1>0, <2>1, <2>2 DEF EnemiesInv
<1>13. CASE UNCHANGED vars
  <2>1. EnemiesKept'
    BY <1>13, <1>a, Unhurt DEF vars
  <2>2. DropsKept' /\ pending' \subseteq Areas
    BY <1>13, <1>a DEF DropsKept, vars
  <2> QED BY <1>0, <2>1, <2>2 DEF EnemiesInv
<1> QED
  BY <1>1, <1>2, <1>3, <1>4, <1>5, <1>6, <1>7, <1>8, <1>9, <1>10, <1>11, <1>12, <1>13
  DEF Next, PlayerRequest


(* The invariant the following theorems rest on: books, players, enemies   *)
(* and drops hold together through every handler (world/enemies.go).       *)
THEOREM EnemiesInvariant == Spec => []EnemiesInv
BY InitEnemies, StepKeepsEnemies, PTL DEF Spec

(* Players, enemies, books, drops and noted areas keep their kind through  *)
(* any ticks, fights, defeats, pickups and returns.                        *)
THEOREM TypeCorrect == Spec => []TypeOK
<1>1. ASSUME EnemiesInv PROVE TypeOK
  <2>1. /\ Alive = [area : Areas, at : Points, health : 1 .. MaxHealth]
        /\ players \in [Players -> {Offline} \cup Alive]
    BY <1>1 DEF Alive, EnemiesInv, EnemiesKept
  <2>2. players \in [Players -> {Offline} \cup [area : Areas, at : Points, health : 0 .. MaxHealth]]
    <3>1. Alive \subseteq [area : Areas, at : Points, health : 0 .. MaxHealth]
      BY DEF Alive
    <3> QED BY <2>1, <3>1
  <2>3. /\ DOMAIN enemies \subseteq 1 .. nextID
        /\ \A id \in DOMAIN enemies : enemies[id] \in Beasts
    BY <1>1 DEF EnemiesInv, EnemiesKept, BooksInv, IDsInUse
  <2>4. /\ count \in [Spawns -> Nat]
        /\ timer \in [Spawns -> {"none", "running", "due"}]
    <3>1. \A k \in Spawns : count[k] \in Nat
      BY <1>1, BroodFinite DEF EnemiesInv, BooksInv, SpawnBooksBalance
    <3> QED BY <1>1, <3>1 DEF EnemiesInv, BooksInv
  <2>5. DOMAIN ground \cup {h.id : h \in held} \subseteq 1 .. nextDrop
    BY <1>1 DEF EnemiesInv, DropsKept
  <2>6. pending \subseteq Areas
    BY <1>1 DEF EnemiesInv
  <2> QED BY <2>2, <2>3, <2>4, <2>5, <2>6 DEF TypeOK, Beasts
<1> QED BY <1>1, EnemiesInvariant, PTL

(* Whoever lures them and in whatever order they act, enemies stay in the  *)
(* rectangle of their spawn and on the ground (updateAreas, canMoveTo).    *)
THEOREM EnemiesAlwaysStayHome == Spec => []EnemiesStayHome
<1>1. EnemiesInv => EnemiesStayHome
  BY DEF EnemiesInv, EnemiesKept
<1> QED BY <1>1, EnemiesInvariant, PTL

(* However many enemies strike in one tick, nobody is left in the world    *)
(* without health (combatSystem.attackPlayer, handlePlayerDeath).          *)
THEOREM PlayersAlwaysStandAlive == Spec => []PlayersStandAlive
<1>1. EnemiesInv => PlayersStandAlive
  BY DEF EnemiesInv, EnemiesKept, PlayersStandAlive, Online, OnlineIn, Alive
<1> QED BY <1>1, EnemiesInvariant, PTL

(* Who falls in a tick respawns and is spared for the rest of it: nobody   *)
(* is moved by a tick but with full health.                                *)
THEOREM FallenAlwaysSpared == Spec => TheFallenAreSpared
<1>1. ASSUME EnemiesInv, Tick, NEW p \in Online \cap OnlineIn(players')
      PROVE  \/ [area |-> players[p].area, at |-> players[p].at] =
                [area |-> players'[p].area, at |-> players'[p].at]
             \/ players'[p].health = MaxHealth
  <2>1. PICK tick \in Acted[DOMAIN enemies] : players' = tick.players
    BY <1>1 DEF Tick
  <2>2. WoundsNoted(tick) /\ p \in Players
    BY <1>1, ActedSound DEF Sound, Online, OnlineIn
  <2>3. \/ players'[p] = players[p]
        \/ Falls(tick, p)
        \/ Stays(tick, p)
    BY <2>1, <2>2 DEF WoundsNoted
  <2> QED BY <2>1, <2>3 DEF Falls, Stays, Respawned
<1>2. EnemiesInv /\ [Next]_vars => [\A p \in Online \cap OnlineIn(players') :
       \/ [area |-> players[p].area, at |-> players[p].at] =
          [area |-> players'[p].area, at |-> players'[p].at]
       \/ players'[p].health = MaxHealth
       \/ ~Tick]_vars
  BY <1>1
<1> QED BY <1>2, EnemiesInvariant, PTL DEF Spec, TheFallenAreSpared

(* A tick notes every area in which somebody could see a difference.       *)
THEOREM TicksAlwaysNote == Spec => TicksNoteWhatTheyChange
<1>1. ASSUME EnemiesInv, Tick, NEW a \in AreasWithPlayers(players'), a \notin pending'
      PROVE  Scene(players, enemies, a) = Scene(players', enemies', a)
  <2>1. PICK tick \in Acted[DOMAIN enemies] : players' = tick.players /\ Refill(tick)
    BY <1>1 DEF Tick
  <2> DEFINE due == {k \in Spawns : Due(k)}
  <2>2. PICK places \in [due -> Points], ids \in [due -> nextID + 1 .. nextID + Cardinality(due)] :
        /\ \A k, l \in due : ids[k] = ids[l] => k = l
        /\ enemies' = Joined(AfterActing(tick), NewbornsOf(due, places, ids))
        /\ pending' = pending \cup tick.changed
             \cup ({SpawnArea[k] : k \in due} \cap AreasWithPlayers(players))
    BY <2>1 DEF Refill
  <2>3. MovesNoted(tick) /\ WoundsNoted(tick)
    BY <1>1, ActedSound DEF Sound
  <2>4. a \notin tick.changed
    BY <1>1, <2>2
  <2>5. \A p \in Players : (players[p] # Offline /\ players[p].area = a)
                           \/ (players'[p] # Offline /\ players'[p].area = a)
                           => players'[p] = players[p]
    BY <2>1, <2>3, <2>4 DEF WoundsNoted
  <2>6. a \in AreasWithPlayers(players)
    BY <1>1, <2>5 DEF AreasWithPlayers, OnlineIn
  <2>7. {p \in OnlineIn(players) : players[p].area = a} = {p \in OnlineIn(players') : players'[p].area = a}
    BY <2>5 DEF OnlineIn
  <2>8. {<<p, players[p]>> : p \in {p \in OnlineIn(players) : players[p].area = a}}
          = {<<p, players'[p]>> : p \in {p \in OnlineIn(players') : players'[p].area = a}}
    BY <2>5, <2>7 DEF OnlineIn
  <2> DEFINE new == NewbornsOf(due, places, ids)
             old == AfterActing(tick)
  <2>9. ASSUME NEW id \in DOMAIN new PROVE AreaOf(new[id]) # a
    <3> DEFINE k == CHOOSE k \in due : ids[k] = id
    <3>1. k \in due /\ new[id] = Newborn(k, places[k])
      BY <2>9 DEF NewbornsOf
    <3> HIDE DEF k, new
    <3>2. SpawnArea[k] # a
      BY <1>1, <2>2, <2>6, <3>1
    <3> QED BY <3>1, <3>2 DEF AreaOf, Newborn
  <2>10. /\ DOMAIN old = DOMAIN enemies
         /\ \A id \in DOMAIN enemies : /\ AreaOf(old[id]) = AreaOf(enemies[id])
                                       /\ old[id].health = enemies[id].health
                                       /\ old[id].at = tick.at[id]
    BY <1>1 DEF AfterActing, AreaOf, EnemiesInv, EnemiesKept, Beasts
  <2>11. \A id \in DOMAIN enemies : AreaOf(enemies[id]) = a => tick.at[id] = enemies[id].at
    BY <2>3, <2>4 DEF MovesNoted
  <2> HIDE DEF new, old
  <2>12. /\ DOMAIN enemies' = DOMAIN enemies \cup DOMAIN new
         /\ \A id \in DOMAIN enemies' :
              enemies'[id] = IF id \in DOMAIN enemies THEN old[id] ELSE new[id]
    BY <2>2, <2>10 DEF Joined, old, new
  <2>13. {id \in DOMAIN enemies' : AreaOf(enemies'[id]) = a} = {id \in DOMAIN enemies : AreaOf(enemies[id]) = a}
    BY <2>9, <2>10, <2>12
  <2>14. \A id \in DOMAIN enemies : AreaOf(enemies[id]) = a =>
           enemies'[id].at = enemies[id].at /\ enemies'[id].health = enemies[id].health
    BY <2>10, <2>11, <2>12
  <2>15. {<<id, enemies[id].at, enemies[id].health>> : id \in {id \in DOMAIN enemies : AreaOf(enemies[id]) = a}}
          = {<<id, enemies'[id].at, enemies'[id].health>> : id \in {id \in DOMAIN enemies' : AreaOf(enemies'[id]) = a}}
    BY <2>13, <2>14
  <2> QED BY <2>8, <2>15 DEF Scene
<1>2. EnemiesInv /\ [Next]_vars =>
        [\/ \A a \in AreasWithPlayers(players') :
              Scene(players, enemies, a) = Scene(players', enemies', a) \/ a \in pending'
         \/ ~Tick]_vars
  BY <1>1
<1> QED BY <1>2, EnemiesInvariant, PTL DEF Spec, TicksNoteWhatTheyChange

=============================================================================
