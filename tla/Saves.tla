------------------------------- MODULE Saves -------------------------------
(***************************************************************************)
(* Where a character stands and what it has learned, between the world,    *)
(* the sessions of src/src/ui and the database.                            *)
(*                                                                         *)
(* The world changes a player and publishes it; a session compares each    *)
(* snapshot with its copy (gameModel.character), takes it over and starts  *)
(* a save of what differs.  Results of its own moves and spent points come *)
(* apart from the snapshots, saves are goroutines that may fail and have   *)
(* no order, and staff commands save on their own.                         *)
(***************************************************************************)
EXTENDS Integers, FiniteSets, FiniteSetsExt

CONSTANTS
  Sessions, NoSession,
  Places, Nowhere,      \* cells of the areas; no character_locations row
  Spawn,                \* Areas.DefaultSpawn
  MaxInt,               \* of int, which is two's complement
  MaxExperience,        \* of int64
  Unit,                 \* 100, of 100*level*level
  Rewards,              \* experience an enemy or a command gives
  Levels,               \* levels a command gives
  Scenes,               \* what may happen, and from which row
  MaxSaves              \* bound: saves under way at once

Deeds == {"walk", "die", "fight", "spend", "exp", "lvl", "tp"}

ASSUME NamesAssumption ==
  NoSession \notin Sessions /\ Spawn \in Places /\ Nowhere \notin Places

ASSUME NumbersAssumption ==
  /\ {MaxInt, MaxExperience, Unit} \subseteq Nat \ {0}
  /\ Rewards \subseteq 1 .. MaxExperience
  /\ Levels \subseteq 1 .. MaxInt

ASSUME BoundsAssumption == MaxSaves \in Nat

VARIABLES
  scene,      \* which of Scenes this is; it never changes
  owner,      \* the session whose token the world knows
  player,     \* the world's Player
  pending,    \* the player's area is in pendingAreas
  row,        \* character_locations and character_progress
  phase,      \* [Sessions -> how far it has come]
  copy,       \* [Sessions -> gameModel.character]
  updates,    \* [Sessions -> the updates channel, of capacity 1]
  received,   \* [Sessions -> what waitForSnapshot took from it]
  moving,     \* [Sessions -> movementState.inFlight, and the command]
  spending,   \* [Sessions -> skillsState.spendInFlight, and the command]
  saves,      \* the saves under way
  (* Bounds and history. *)
  changes,    \* what happened to the player, counted
  started,    \* [Kinds -> number of the newest save]
  spoiled,    \* the kinds whose row is not what the newest save wrote
  meddled,    \* [Kinds -> edition of staff's last change the owner has not seen]
  backward    \* sessions that took an older result over a newer snapshot

sessionVars == <<phase, copy, updates, received, moving, spending>>
historyVars == <<started, spoiled, meddled, backward>>
vars == <<scene, owner, player, pending, row, sessionVars, saves, changes, historyVars>>

Kinds == {"position", "progress"}

-----------------------------------------------------------------------------
(* A character, as the world, a session and the rows have it.  `edition'    *)
(* and `whole' are history: which of the world's players this is, and       *)
(* whether its numbers are of one moment and never ran over MaxInt.         *)
(* With no rows it is what toDomain makes of none.                          *)
Newborn ==
  [place |-> Nowhere, level |-> 1, experience |-> 0, points |-> 0, ranks |-> 0,
   edition |-> 0, whole |-> TRUE]

Characters ==
  [place : Places \cup {Nowhere}, level : Int, experience : Nat, points : Int,
   ranks : Int, edition : Nat, whole : BOOLEAN]
None == [edition |-> -1]

Progress(p) == <<p.level, p.experience, p.points, p.ranks>>
Of(kind, p) == IF kind = "position" THEN p.place ELSE Progress(p)

WithPlace(p, from) == [p EXCEPT !.place = from.place]
WithSkills(p, from) ==
  [p EXCEPT !.points = from.points, !.ranks = from.ranks,
            !.whole = @ /\ from.whole /\ p.level = from.level]
WithProgress(p, from) ==
  [WithSkills(p, from) EXCEPT
     !.level = from.level, !.experience = from.experience, !.whole = from.whole]

(* Progression. *)

Wrapped(n) == IF n > MaxInt THEN n - 2 * (MaxInt + 1) ELSE n
AtLeastOne(level) == Max({level, 1})

ExperienceToNextLevel(level) ==
  Min({MaxExperience, Unit * AtLeastOne(level) * AtLeastOne(level)})

LevelUp(p) ==
  [p EXCEPT !.level = Wrapped(@ + 1), !.points = Wrapped(@ + 1),
            !.experience = @ - ExperienceToNextLevel(p.level),
            !.whole = @ /\ p.level < MaxInt]

(* The loop of grantExperience.                                             *)
Risen[p \in Characters] ==
  IF p.experience < ExperienceToNextLevel(p.level) THEN p ELSE Risen[LevelUp(p)]

WithExperience(p, reward) ==
  Risen[[p EXCEPT !.level = AtLeastOne(@),
                  !.experience = Min({MaxExperience, @ + reward})]]

WithLevels(p, levels) ==
  LET level == AtLeastOne(p.level)
      n == Min({levels, MaxInt - level, MaxInt - p.points})
  IN [p EXCEPT !.level = level + n, !.points = @ + n]

WithSkillSpent(p) == [p EXCEPT !.points = @ - 1, !.ranks = Wrapped(@ + 1)]

-----------------------------------------------------------------------------
Playing(s) == phase[s] = "playing"
Authenticated(s) == owner = s

(* Every change of the player is published to its session, at once or when  *)
(* the broadcast ticker finds the area pending.                             *)
MayHappen(deed) ==
  /\ deed \in scene.deeds
  /\ changes < scene.changes
  /\ changes' = changes + 1

Becomes(p) == player' = [p EXCEPT !.edition = player.edition + 1]
Publish == updates' = [updates EXCEPT ![owner] = player']
Published(p) == Becomes(p) /\ Publish /\ pending' = FALSE

(* A save is numbered when it starts, and below one when its session was    *)
(* replaced: only one of the owner's or staff's can be the newest.          *)
Number(kind, mine) ==
  IF mine THEN started[kind] + 1 ELSE Min({1} \cup {save.n : save \in saves}) - 1

(* savePosition and saveProgress keep what they write when they start.      *)
Part(kind, p) ==
  IF kind = "position" THEN WithPlace(Newborn, p) ELSE WithProgress(Newborn, p)

StartSaves(kinds, p, mine) ==
  /\ Cardinality(saves) + Cardinality(kinds) <= MaxSaves
  /\ saves' = saves \cup
       {[kind |-> k, step |-> "read", p |-> Part(k, p), n |-> Number(k, mine)] : k \in kinds}
Count(kinds) == started' = [k \in Kinds |-> IF k \in kinds THEN started[k] + 1 ELSE started[k]]
Mine(s, kinds) == IF Authenticated(s) THEN kinds ELSE {}

-----------------------------------------------------------------------------
(* Coming and going. *)

(* FindByFingerprint                                                        *)
Load(s) ==
  /\ phase[s] = "new"
  /\ Cardinality({r \in Sessions : phase[r] # "new"}) < scene.sessions
  /\ phase' = [phase EXCEPT ![s] = "joining"]
  /\ copy' = [copy EXCEPT ![s] = row]
  /\ UNCHANGED <<scene, owner, player, pending, row, updates, received, moving,
                 spending, saves, changes, historyVars>>

(* joinWorld: the world's player becomes the copy, placed on the ground.    *)
(* What was stored after it was read is spoiled, saves under way are old.   *)
Placed(p) == IF p.place = Nowhere THEN [p EXCEPT !.place = Spawn] ELSE p

Join(s) ==
  /\ phase[s] = "joining"
  /\ phase' = [phase EXCEPT ![s] = "playing"]
  /\ owner' = s
  /\ Becomes(Placed(copy[s]))
  /\ updates' = [updates EXCEPT ![s] = player']
  /\ pending' = FALSE
  /\ Count(Kinds)
  /\ spoiled' = {k \in Kinds : Of(k, row) # Of(k, copy[s])}
  /\ meddled' = [k \in Kinds |-> 0]
  /\ UNCHANGED <<scene, row, copy, received, moving, spending, saves, changes, backward>>

(* Ctrl+C; or the kick, or the end of the updates, of a replaced or kicked  *)
(* session.  What is not handled yet never is.                              *)
Quit(s) ==
  /\ Playing(s)
  /\ phase' = [phase EXCEPT ![s] = "leaving"]
  /\ received' = [received EXCEPT ![s] = None]
  /\ UNCHANGED <<scene, owner, player, pending, row, copy, updates, moving, spending,
                 saves, changes, historyVars>>

Leave(s) ==
  /\ phase[s] = "leaving"
  /\ phase' = [phase EXCEPT ![s] = "gone"]
  /\ owner' = IF Authenticated(s) THEN NoSession ELSE owner
  /\ UNCHANGED <<scene, player, pending, row, copy, updates, received, moving, spending,
                 saves, changes, historyVars>>

-----------------------------------------------------------------------------
(* What happens to the player in the world. *)

Untouched == UNCHANGED <<scene, owner, row, phase, copy, received, started, spoiled, backward>>

(* A defeated enemy's experience.                                           *)
Fight ==
  /\ owner # NoSession
  /\ MayHappen("fight")
  /\ \E reward \in Rewards : Published(WithExperience(player, reward))
  /\ Untouched
  /\ UNCHANGED <<moving, spending, saves, meddled>>

(* A tick of the enemies: playerSystem.respawn, broadcast by the next one.  *)
Die ==
  /\ owner # NoSession
  /\ MayHappen("die")
  /\ Becomes([player EXCEPT !.place = Spawn])
  /\ pending' = TRUE
  /\ Untouched
  /\ UNCHANGED <<updates, moving, spending, saves, meddled>>

BroadcastPending ==
  /\ owner # NoSession /\ pending
  /\ UNCHANGED player
  /\ Publish
  /\ pending' = FALSE
  /\ Untouched
  /\ UNCHANGED <<moving, spending, saves, changes, meddled>>

(* /exp, /lvl and /tp: the world first, then a save of what it answered.    *)
Staff(kind) ==
  /\ StartSaves({kind}, player', TRUE) /\ Count({kind})
  /\ meddled' = [meddled EXCEPT ![kind] = player'.edition]
  /\ UNCHANGED <<scene, owner, row, phase, copy, received, spoiled, backward, moving, spending>>

GiveExperience ==
  /\ owner # NoSession
  /\ MayHappen("exp")
  /\ \E amount \in Rewards : Published(WithExperience(player, amount))
  /\ Staff("progress")

GiveLevels ==
  /\ owner # NoSession
  /\ MayHappen("lvl")
  /\ \E levels \in Levels : Published(WithLevels(player, levels))
  /\ Staff("progress")

Teleport ==
  /\ owner # NoSession
  /\ MayHappen("tp")
  /\ \E place \in Places : Published([player EXCEPT !.place = place])
  /\ Staff("position")

-----------------------------------------------------------------------------
(* The session's own commands: moves and spent points. *)

Idle == [step |-> "idle"]
Asked(from) == [step |-> "asked", from |-> from.place]
Answer(p, changed) == [step |-> "answered", p |-> p, changed |-> changed]
Reply(s, answer) == IF Playing(s) THEN answer ELSE Idle

(* beginMove, and movePlayer with the copy of then.                         *)
Press(s) ==
  /\ Playing(s) /\ moving[s] = Idle
  /\ MayHappen("walk")
  /\ moving' = [moving EXCEPT ![s] = Asked(copy[s])]
  /\ Untouched
  /\ UNCHANGED <<player, pending, updates, spending, saves, meddled>>

(* playerSystem.move: a step, a waypoint, or nothing.                       *)
Move(s) ==
  /\ moving[s].step = "asked"
  /\ \/ /\ Authenticated(s)
        /\ \/ \E place \in Places \ {player.place} : Published([player EXCEPT !.place = place])
           \/ UNCHANGED <<player, updates, pending>>
        /\ moving' = [moving EXCEPT
             ![s] = Reply(s, Answer(player', player'.place # @.from))]
     \/ /\ ~Authenticated(s)
        /\ moving' = [moving EXCEPT ![s] = Reply(s, Answer(None, FALSE))]
        /\ UNCHANGED <<player, updates, pending>>
  /\ Untouched
  /\ UNCHANGED <<spending, saves, changes, meddled>>

Older(p, s) == p.edition < copy[s].edition
Remember(s, p) == backward' = IF Older(p, s) THEN backward \cup {s} ELSE backward

(* playerMovedMsg                                                           *)
PlayerMoved(s) ==
  LET answer == moving[s] IN
  /\ Playing(s) /\ answer.step = "answered"
  /\ moving' = [moving EXCEPT ![s] = Idle]
  /\ IF answer.changed
     THEN /\ copy' = [copy EXCEPT ![s] = WithPlace(@, answer.p)]
          /\ StartSaves({"position"}, copy'[s], Authenticated(s))
          /\ Count(Mine(s, {"position"}))
          /\ Remember(s, answer.p)
     ELSE UNCHANGED <<copy, saves, started, backward>>
  /\ UNCHANGED <<scene, owner, player, pending, row, phase, updates, received, spending,
                 changes, spoiled, meddled>>

(* 1, 2 and 3 in the skills.                                                *)
PressSkill(s) ==
  /\ Playing(s) /\ spending[s] = Idle
  /\ copy[s].points > 0
  /\ MayHappen("spend")
  /\ spending' = [spending EXCEPT ![s] = Asked(copy[s])]
  /\ Untouched
  /\ UNCHANGED <<player, pending, updates, moving, saves, meddled>>

SpendSkillPoint(s) ==
  /\ spending[s].step = "asked"
  /\ \/ /\ Authenticated(s) /\ player.points >= 1
        /\ Published(WithSkillSpent(player))
        /\ spending' = [spending EXCEPT ![s] = Reply(s, Answer(player', TRUE))]
     \/ /\ ~Authenticated(s) \/ player.points < 1
        /\ spending' = [spending EXCEPT ![s] = Reply(s, Answer(None, FALSE))]
        /\ UNCHANGED <<player, updates, pending>>
  /\ Untouched
  /\ UNCHANGED <<moving, saves, changes, meddled>>

(* skillSpentMsg: the points and the ranks, and not the level.              *)
SkillSpent(s) ==
  LET answer == spending[s] IN
  /\ Playing(s) /\ answer.step = "answered"
  /\ spending' = [spending EXCEPT ![s] = Idle]
  /\ IF answer.changed
     THEN /\ copy' = [copy EXCEPT ![s] = WithSkills(@, answer.p)]
          /\ StartSaves({"progress"}, copy'[s], Authenticated(s))
          /\ Count(Mine(s, {"progress"}))
          /\ Remember(s, answer.p)
     ELSE UNCHANGED <<copy, saves, started, backward>>
  /\ UNCHANGED <<scene, owner, player, pending, row, phase, updates, received, moving,
                 changes, spoiled, meddled>>

-----------------------------------------------------------------------------
(* Snapshots. *)

WaitForSnapshot(s) ==
  /\ Playing(s) /\ received[s] = None /\ updates[s] # None
  /\ received' = [received EXCEPT ![s] = updates[s]]
  /\ updates' = [updates EXCEPT ![s] = None]
  /\ UNCHANGED <<scene, owner, player, pending, row, phase, copy, moving, spending,
                 saves, changes, historyVars>>

(* The kinds that locationChanged and progressChanged name.                 *)
ChangedButExperience(s, p) ==
  {k \in Kinds : Of(k, copy[s]) # Of(k, [p EXCEPT !.experience = copy[s].experience])}
Changed(s, p) == {k \in Kinds : Of(k, copy[s]) # Of(k, p)}

WorldSnapshot(s) ==
  LET p == received[s]
      changed == Changed(s, p)
      seen == {k \in Kinds : meddled[k] # 0 /\ p.edition >= meddled[k]}
      undone == {k \in seen \ changed : p.edition > meddled[k]}
  IN
  /\ Playing(s) /\ p # None
  /\ copy' = [copy EXCEPT ![s] = p]
  /\ StartSaves(changed, p, Authenticated(s))
  /\ Count(Mine(s, changed \cup undone))
  /\ received' = [received EXCEPT ![s] = None]
  /\ backward' = backward \ {s}
  /\ meddled' = [k \in Kinds |-> IF k \in Mine(s, seen) THEN 0 ELSE meddled[k]]
  /\ spoiled' = spoiled \cup Mine(s, undone)
  /\ UNCHANGED <<scene, owner, player, pending, row, phase, updates, moving, spending, changes>>

-----------------------------------------------------------------------------
(* The repository. *)

Finish(save) == saves' = saves \ {save}
RowUntouched ==
  UNCHANGED <<scene, owner, player, pending, sessionVars, changes, started, meddled, backward>>

(* What a save that ends leaves the row to be: what the newest of its kind  *)
(* wrote, unless an older one wrote after it or the newest failed.          *)
Newest(save) == save.n = started[save.kind]
Wrote(save) ==
  spoiled' = IF Newest(save) THEN spoiled \ {save.kind} ELSE spoiled \cup {save.kind}

(* UpdateLocation: a statement that finds the row or none, and one that     *)
(* updates it or inserts it.                                                *)
FindLocation(save) ==
  /\ save.kind = "position" /\ save.step = "read"
  /\ saves' = (saves \ {save}) \cup
       {[save EXCEPT !.step = IF row.place = Nowhere THEN "insert" ELSE "update"]}
  /\ RowUntouched
  /\ UNCHANGED <<row, spoiled>>

UpdateLocation(save) ==
  /\ save.step \in {"insert", "update"}
  /\ save.step = "insert" => row.place = Nowhere
  /\ row' = WithPlace(row, save.p)
  /\ Wrote(save)
  /\ Finish(save)
  /\ RowUntouched

(* UpdateProgress: one statement, after a look at the numbers.              *)
ValidProgress(p) == p.level >= 1 /\ p.points >= 0 /\ p.ranks >= 0
WithoutPoints(r, p) ==
  [r EXCEPT !.level = p.level, !.experience = p.experience, !.ranks = p.ranks]
Stored(r, p) == WithProgress(r, p)

UpdateProgress(save) ==
  /\ save.kind = "progress"
  /\ ValidProgress(save.p)
  /\ row' = Stored(row, save.p)
  /\ Wrote(save)
  /\ Finish(save)
  /\ RowUntouched

(* Invalid numbers, a row inserted by another, a context that is over.      *)
Fail(save) ==
  /\ spoiled' = IF Newest(save) THEN spoiled \cup {save.kind} ELSE spoiled
  /\ Finish(save)
  /\ RowUntouched
  /\ UNCHANGED row

-----------------------------------------------------------------------------
(* A level is a point, spent or not; numbers of two moments or beyond       *)
(* MaxInt say nothing.                                                      *)
AddsUp(p) ==
  p.whole => /\ p.level \in 1 .. MaxInt /\ p.points >= 0 /\ p.ranks >= 0
             /\ p.level - 1 = p.points + p.ranks

(* The first row is none or one that was left so.                           *)
ASSUME ScenesAssumption == \A sc \in Scenes : sc.row \in Characters /\ AddsUp(sc.row)

Init ==
  /\ scene \in Scenes
  /\ owner = NoSession
  /\ row = scene.row
  /\ player = row
  /\ pending = FALSE
  /\ phase = [s \in Sessions |-> "new"]
  /\ copy = [s \in Sessions |-> Newborn]
  /\ updates = [s \in Sessions |-> None]
  /\ received = updates
  /\ moving = [s \in Sessions |-> Idle]
  /\ spending = moving
  /\ saves = {}
  /\ changes = 0
  /\ started = [k \in Kinds |-> 0]
  /\ spoiled = {} /\ backward = {}
  /\ meddled = [k \in Kinds |-> 0]

Next ==
  \/ \E s \in Sessions :
       \/ Load(s) \/ Join(s) \/ Quit(s) \/ Leave(s)
       \/ Press(s) \/ Move(s) \/ PlayerMoved(s)
       \/ PressSkill(s) \/ SpendSkillPoint(s) \/ SkillSpent(s)
       \/ WaitForSnapshot(s) \/ WorldSnapshot(s)
  \/ Fight \/ Die \/ BroadcastPending
  \/ GiveExperience \/ GiveLevels \/ Teleport
  \/ \E save \in saves :
       FindLocation(save) \/ UpdateLocation(save) \/ UpdateProgress(save) \/ Fail(save)

Spec == Init /\ [][Next]_vars

-----------------------------------------------------------------------------
(* Properties. *)

(* When everything a session waits for has come, it shows the player as the *)
(* world has it, and the rows hold it: no change of the world is missed     *)
(* however snapshots are merged and saves begin.  But for a result that was *)
(* handled after a newer snapshot, until the next snapshot; and for a kind  *)
(* of which the newest save failed, or an older one came after it, or a     *)
(* staff command was undone before the session saw it, or the join was with *)
(* rows read too early.  (updateWorldSnapshot, savePosition, saveProgress)  *)
Settled(s) ==
  /\ ~pending /\ updates[s] = None /\ received[s] = None
  /\ moving[s] = Idle /\ spending[s] = Idle
  /\ saves = {}

SavedUnlessOvertaken ==
  \A s \in Sessions :
    Playing(s) /\ Authenticated(s) /\ Settled(s) /\ s \notin backward =>
      \A k \in Kinds :
        /\ Of(k, copy[s]) = Of(k, player)
        /\ k \notin spoiled => Of(k, row) = Of(k, player)

(* A level is a point: in the world, in a session's copy and in the row,    *)
(* points and ranks add up to the levels gained and none is negative,       *)
(* whoever gave them and however saves were merged -- but for numbers put   *)
(* together from two moments (a spent point's, with an older level), and    *)
(* past MaxInt.                                                             *)
(* (grantExperience, grantLevels, spendSkillPoint, UpdateProgress)          *)
PointsAddUp ==
  \A p \in {player, row} \cup {copy[s] : s \in Sessions} : AddsUp(p)
=============================================================================
