----------------------------- MODULE SavesProofs -----------------------------
(***************************************************************************)
(* What is saved is what the world has, and levels add up, for any         *)
(* sessions, cells, rewards, sizes of the numbers and saves under way.     *)
(*                                                                         *)
(* The invariant has six parts: numbers that add up wherever a player is   *)
(* (Typed), which of the world's players each of them is (Editions), what  *)
(* a session can have before it plays and after (Calm), that the newest    *)
(* snapshot is on its way (Shown), that the newest save holds what the     *)
(* session shows or what staff did last (Kept), and the order of the saves *)
(* and of what staff did (Numbered).                                       *)
(***************************************************************************)
EXTENDS Saves, Sums

(* Players whose numbers add up.                                           *)
Sound == {p \in Characters : AddsUp(p)}
Cells == Places \cup {Nowhere}
Answers ==
  [step : {"answered"}, p : Sound, changed : BOOLEAN]
    \cup [step : {"answered"}, p : {None}, changed : {FALSE}]
Commands == {Idle} \cup [step : {"asked"}, from : Cells] \cup Answers
Phases == {"new", "joining", "playing", "leaving", "gone"}
Writes ==
  {save \in [kind : Kinds, step : {"read", "insert", "update"}, p : Sound, n : Int] :
     save.step # "read" => save.kind = "position"}

Typed ==
  /\ owner \in Sessions \cup {NoSession}
  /\ pending \in BOOLEAN
  /\ player \in Sound /\ row \in Sound
  /\ phase \in [Sessions -> Phases]
  /\ copy \in [Sessions -> Sound]
  /\ updates \in [Sessions -> Sound \cup {None}]
  /\ received \in [Sessions -> Sound \cup {None}]
  /\ moving \in [Sessions -> Commands] /\ spending \in [Sessions -> Commands]
  /\ saves \subseteq Writes /\ IsFiniteSet(saves)
  /\ started \in [Kinds -> Nat] /\ meddled \in [Kinds -> Nat]

(* A player that is around is no younger than the world's, and the world's *)
(* if it is as young.                                                      *)
Past(p, now) == p.edition <= now.edition /\ (p.edition = now.edition => p = now)
PastAnswer(t, now) == t.step = "answered" /\ t.p # None => Past(t.p, now)

Editions ==
  /\ row.edition <= player.edition
  /\ \A s \in Sessions :
       /\ copy[s].edition <= player.edition
       /\ updates[s] # None => Past(updates[s], player)
       /\ received[s] # None => Past(received[s], player)
       /\ PastAnswer(moving[s], player) /\ PastAnswer(spending[s], player)
  /\ \A k \in Kinds : meddled[k] <= player.edition

(* Before it plays a session is not the world's and nothing is under way;  *)
(* afterwards a join has been counted.                                     *)
Calm ==
  \A s \in Sessions :
    /\ phase[s] \in {"new", "joining"} =>
         /\ owner # s /\ s \notin backward
         /\ received[s] = None /\ updates[s] = None
         /\ moving[s] = Idle /\ spending[s] = Idle
    /\ phase[s] \notin {"new", "joining"} => \A k \in Kinds : started[k] >= 1

(* The world's player is in the channel, or was received, or is shown.     *)
Shown ==
  \A s \in Sessions : owner = s /\ Playing(s) /\ ~pending =>
    /\ updates[s] # None => updates[s] = player
    /\ updates[s] = None /\ received[s] # None => received[s] = player
    /\ updates[s] = None /\ received[s] = None /\ s \notin backward =>
         /\ copy[s].edition = player.edition
         /\ \A k \in Kinds : Of(k, copy[s]) = Of(k, player)

(* The newest save of a kind writes v; or it has, and no older one since.  *)
IsNewest(save, k) == save.kind = k /\ save.n = started[k]
Latest(k, v) ==
  /\ \A save \in saves : IsNewest(save, k) => Of(k, save.p) = v
  /\ k \notin spoiled /\ (\A save \in saves : ~IsNewest(save, k)) => Of(k, row) = v

(* If the session comes to see just what staff did, it sees v.             *)
Announced(k, s, v) ==
  /\ player.edition = meddled[k] => Of(k, player) = v
  /\ updates[s].edition = meddled[k] => Of(k, updates[s]) = v
  /\ received[s].edition = meddled[k] => Of(k, received[s]) = v

KeptOf(k, s) ==
  \/ Latest(k, Of(k, copy[s]))
  \/ meddled[k] # 0 /\ \E v : Latest(k, v) /\ Announced(k, s, v)
Kept == \A s \in Sessions : owner = s /\ Playing(s) => \A k \in Kinds : KeptOf(k, s)

(* No save is numbered past the newest, and a session that has seen what   *)
(* staff did has been told.                                                *)
Numbered ==
  /\ \A save \in saves : save.n <= started[save.kind]
  /\ \A s \in Sessions : owner = s /\ Playing(s) =>
       \A k \in Kinds : meddled[k] # 0 => copy[s].edition < meddled[k]

SavesInv == Typed /\ Editions /\ Calm /\ Shown /\ Kept /\ Numbered
-----------------------------------------------------------------------------
(* Players. *)

LEMMA Numbers ==
  /\ MaxInt \in Int /\ MaxInt >= 1 /\ MaxExperience \in Int /\ MaxExperience >= 1
  /\ Unit \in Int /\ Unit >= 1
  /\ \A r \in Rewards : r \in Int /\ r >= 1
  /\ \A n \in Levels : n \in Int /\ n >= 1
BY NumbersAssumption

LEMMA Fields ==
  ASSUME NEW p \in Characters
  PROVE  /\ p.place \in Cells /\ p.level \in Int /\ p.experience \in Int /\ p.experience >= 0
         /\ p.points \in Int /\ p.ranks \in Int /\ p.edition \in Int /\ p.edition >= 0
         /\ p.whole \in BOOLEAN /\ p # None
<1>1. /\ p.place \in Cells /\ p.level \in Int /\ p.experience \in Nat
      /\ p.points \in Int /\ p.ranks \in Int /\ p.edition \in Nat /\ p.whole \in BOOLEAN
  BY DEF Characters, Cells
<1>2. None.edition = -1
  BY DEF None
<1>3. p # None
  BY <1>1, <1>2
<1> QED BY <1>1, <1>3

LEMMA NoneIsOlder == None.edition = -1
BY DEF None

LEMMA SoundIsCharacter == \A p \in Sound : p \in Characters /\ AddsUp(p)
BY DEF Sound

LEMMA NewbornSound == Newborn \in Sound
<1>1. Newborn \in Characters
  BY DEF Newborn, Characters
<1>2. AddsUp(Newborn)
  BY Numbers DEF Newborn, AddsUp
<1> QED BY <1>1, <1>2 DEF Sound

(* Every edition of a sound player is sound.                               *)
LEMMA EditionSound ==
  ASSUME NEW p \in Sound, NEW n \in Nat
  PROVE  /\ [p EXCEPT !.edition = n] \in Sound
         /\ [p EXCEPT !.edition = n].edition = n
         /\ \A k \in Kinds : Of(k, [p EXCEPT !.edition = n]) = Of(k, p)
<1> DEFINE q == [p EXCEPT !.edition = n]
<1>1. p \in Characters
  BY SoundIsCharacter
<1>2. /\ q \in Characters /\ q.edition = n /\ q.whole = p.whole /\ q.level = p.level
      /\ q.points = p.points /\ q.ranks = p.ranks /\ q.place = p.place
      /\ q.experience = p.experience
  BY <1>1 DEF Characters
<1> HIDE DEF q
<1>3. AddsUp(q)
  BY <1>2, SoundIsCharacter DEF AddsUp
<1>4. q \in Sound
  BY <1>2, <1>3 DEF Sound
<1>5. \A k \in Kinds : Of(k, q) = Of(k, p)
  BY <1>2 DEF Of, Progress
<1> QED BY <1>2, <1>4, <1>5 DEF q

LEMMA PlaceSound ==
  ASSUME NEW p \in Sound, NEW place \in Cells
  PROVE  LET q == [p EXCEPT !.place = place] IN
         /\ q \in Sound /\ q.edition = p.edition /\ q.place = place
         /\ Progress(q) = Progress(p)
<1> DEFINE q == [p EXCEPT !.place = place]
<1>1. p \in Characters
  BY SoundIsCharacter
<1>2. /\ q \in Characters /\ q.edition = p.edition /\ q.whole = p.whole /\ q.level = p.level
      /\ q.points = p.points /\ q.ranks = p.ranks /\ q.place = place
      /\ q.experience = p.experience
  BY <1>1 DEF Characters, Cells
<1> HIDE DEF q
<1>3. AddsUp(q)
  BY <1>2, SoundIsCharacter DEF AddsUp
<1>4. q \in Sound
  BY <1>2, <1>3 DEF Sound
<1>5. Progress(q) = Progress(p)
  BY <1>2 DEF Progress
<1> QED BY <1>2, <1>4, <1>5 DEF q

LEMMA WithPlaceSound ==
  ASSUME NEW p \in Sound, NEW from \in Sound
  PROVE  /\ WithPlace(p, from) \in Sound
         /\ WithPlace(p, from).edition = p.edition
         /\ Of("position", WithPlace(p, from)) = Of("position", from)
         /\ Of("progress", WithPlace(p, from)) = Of("progress", p)
<1>1. from.place \in Cells
  BY SoundIsCharacter, Fields
<1>2. "position" # "progress"
  OBVIOUS
<1> QED BY <1>1, <1>2, PlaceSound DEF WithPlace, Of

LEMMA WithSkillsFields ==
  ASSUME NEW p \in Characters, NEW from \in Characters
  PROVE  LET q == WithSkills(p, from) IN
         /\ q \in Characters /\ q.edition = p.edition /\ q.level = p.level
         /\ q.points = from.points /\ q.ranks = from.ranks /\ q.place = p.place
         /\ q.experience = p.experience
         /\ q.whole = (p.whole /\ from.whole /\ p.level = from.level)
<1> DEFINE q == WithSkills(p, from)
<1>1. q = [p EXCEPT !.points = from.points, !.ranks = from.ranks,
             !.whole = p.whole /\ from.whole /\ p.level = from.level]
  BY DEF WithSkills
<1>2. /\ from.points \in Int /\ from.ranks \in Int
      /\ (p.whole /\ from.whole /\ p.level = from.level) \in BOOLEAN
  BY Fields
<1> QED BY <1>1, <1>2 DEF Characters

LEMMA WithSkillsSound ==
  ASSUME NEW p \in Sound, NEW from \in Sound
  PROVE  /\ WithSkills(p, from) \in Sound
         /\ WithSkills(p, from).edition = p.edition
         /\ Of("position", WithSkills(p, from)) = Of("position", p)
         /\ Of("progress", p) = Of("progress", from) =>
              Of("progress", WithSkills(p, from)) = Of("progress", from)
<1> DEFINE q == WithSkills(p, from)
<1>0. p \in Characters /\ from \in Characters /\ AddsUp(p) /\ AddsUp(from)
  BY SoundIsCharacter
<1>1. /\ q \in Characters /\ q.edition = p.edition /\ q.level = p.level
      /\ q.points = from.points /\ q.ranks = from.ranks /\ q.place = p.place
      /\ q.experience = p.experience
      /\ q.whole = (p.whole /\ from.whole /\ p.level = from.level)
  BY <1>0, WithSkillsFields
<1> HIDE DEF q
<1>2. AddsUp(q)
  BY <1>0, <1>1 DEF AddsUp
<1>3. Of("position", q) = Of("position", p)
  BY <1>1 DEF Of
<1>4. ASSUME Of("progress", p) = Of("progress", from) PROVE Of("progress", q) = Of("progress", from)
  <2>1. Progress(p) = Progress(from)
    BY <1>4 DEF Of
  <2>2. p.level = from.level /\ p.experience = from.experience
    BY <2>1 DEF Progress
  <2>3. Progress(q) = Progress(from)
    BY <1>1, <2>2 DEF Progress
  <2> QED BY <2>3 DEF Of
<1> QED BY <1>1, <1>2, <1>3, <1>4 DEF q, Sound

LEMMA WithProgressSound ==
  ASSUME NEW p \in Sound, NEW from \in Sound
  PROVE  /\ WithProgress(p, from) \in Sound
         /\ WithProgress(p, from).edition = p.edition
         /\ Of("position", WithProgress(p, from)) = Of("position", p)
         /\ Of("progress", WithProgress(p, from)) = Of("progress", from)
<1> DEFINE r == WithSkills(p, from)
           q == WithProgress(p, from)
<1>0. p \in Characters /\ from \in Characters /\ AddsUp(p) /\ AddsUp(from)
  BY SoundIsCharacter
<1>1. /\ r \in Characters /\ r.edition = p.edition
      /\ r.points = from.points /\ r.ranks = from.ranks /\ r.place = p.place
  BY <1>0, WithSkillsFields
<1>2. q = [r EXCEPT !.level = from.level, !.experience = from.experience, !.whole = from.whole]
  BY DEF WithProgress
<1>3. from.level \in Int /\ from.experience \in Nat /\ from.whole \in BOOLEAN
  BY <1>0 DEF Characters
<1> HIDE DEF r, q
<1>4. /\ q \in Characters /\ q.edition = r.edition /\ q.level = from.level
      /\ q.points = r.points /\ q.ranks = r.ranks /\ q.place = r.place
      /\ q.experience = from.experience /\ q.whole = from.whole
  BY <1>1, <1>2, <1>3 DEF Characters
<1>5. AddsUp(q)
  BY <1>0, <1>1, <1>4 DEF AddsUp
<1>6. Of("position", q) = Of("position", p) /\ Of("progress", q) = Of("progress", from)
  BY <1>1, <1>4 DEF Of, Progress
<1> QED BY <1>1, <1>4, <1>5, <1>6 DEF q, Sound

LEMMA PartSound ==
  ASSUME NEW k \in Kinds, NEW p \in Sound
  PROVE  Part(k, p) \in Sound /\ Of(k, Part(k, p)) = Of(k, p)
<1>1. CASE k = "position"
  BY <1>1, NewbornSound, WithPlaceSound DEF Part
<1>2. CASE k = "progress"
  BY <1>2, NewbornSound, WithProgressSound DEF Part
<1> QED BY <1>1, <1>2 DEF Kinds

-----------------------------------------------------------------------------
(* Progression. *)

LEMMA AtLeastOneIs ==
  ASSUME NEW n \in Int
  PROVE  AtLeastOne(n) \in Int /\ AtLeastOne(n) >= 1 /\ (n >= 1 => AtLeastOne(n) = n)
BY MaxOfTwo DEF AtLeastOne

LEMMA NextLevelCosts ==
  ASSUME NEW level \in Int
  PROVE  ExperienceToNextLevel(level) \in Int /\ ExperienceToNextLevel(level) >= 1
<1> DEFINE l == AtLeastOne(level)
           cost == Unit * l * l
<1>1. l \in Int /\ l >= 1
  BY AtLeastOneIs
<1>2. Unit \in Int /\ Unit >= 1 /\ MaxExperience \in Int /\ MaxExperience >= 1
  BY Numbers
<1> HIDE DEF l
<1>3. Unit * l \in Int /\ Unit * l >= 1
  BY <1>1, <1>2
<1>4. cost \in Int /\ cost >= 1
  BY <1>1, <1>3
<1> HIDE DEF cost
<1>5. Min({MaxExperience, cost}) = IF MaxExperience <= cost THEN MaxExperience ELSE cost
  BY <1>2, <1>4, MinOfTwo
<1>6. ExperienceToNextLevel(level) = Min({MaxExperience, cost})
  BY DEF ExperienceToNextLevel, cost, l
<1> QED BY <1>2, <1>4, <1>5, <1>6

(* A level more is a point more, and what it costs less.                   *)
LEMMA LevelUpSound ==
  ASSUME NEW p \in Sound, p.experience >= ExperienceToNextLevel(p.level)
  PROVE  LevelUp(p) \in Sound /\ LevelUp(p).experience < p.experience
<1> DEFINE cost == ExperienceToNextLevel(p.level)
           q == LevelUp(p)
<1>0. p \in Characters /\ AddsUp(p)
  BY SoundIsCharacter
<1>1. /\ p.level \in Int /\ p.points \in Int /\ p.ranks \in Int
      /\ p.experience \in Int /\ p.whole \in BOOLEAN
  BY <1>0, Fields
<1>2. cost \in Int /\ cost >= 1
  BY <1>1, NextLevelCosts
<1>3. MaxInt \in Int /\ MaxInt >= 1
  BY Numbers
<1>4. \A n \in Int : Wrapped(n) \in Int /\ (n <= MaxInt => Wrapped(n) = n)
  BY <1>3 DEF Wrapped
<1>5. q = [p EXCEPT !.level = Wrapped(p.level + 1), !.points = Wrapped(p.points + 1),
                    !.experience = p.experience - cost,
                    !.whole = p.whole /\ p.level < MaxInt]
  BY DEF LevelUp
<1>6. p.experience >= cost
  OBVIOUS
<1> HIDE DEF q, cost
<1>7. p.experience - cost \in Nat /\ p.experience - cost < p.experience
  BY <1>1, <1>2, <1>6
<1>8. Wrapped(p.level + 1) \in Int /\ Wrapped(p.points + 1) \in Int
  BY <1>1, <1>4
<1>9. (p.whole /\ p.level < MaxInt) \in BOOLEAN
  OBVIOUS
<1>10. /\ q \in Characters /\ q.level = Wrapped(p.level + 1) /\ q.points = Wrapped(p.points + 1)
       /\ q.ranks = p.ranks /\ q.experience = p.experience - cost
       /\ q.whole = (p.whole /\ p.level < MaxInt)
  BY <1>0, <1>5, <1>7, <1>8, <1>9 DEF Characters
<1>11. AddsUp(q)
  <2>1. SUFFICES ASSUME p.whole, p.level < MaxInt
                 PROVE  /\ q.level \in 1 .. MaxInt /\ q.points >= 0 /\ q.ranks >= 0
                        /\ q.level - 1 = q.points + q.ranks
    BY <1>10 DEF AddsUp
  <2>2. /\ p.level \in 1 .. MaxInt /\ p.points >= 0 /\ p.ranks >= 0
        /\ p.level - 1 = p.points + p.ranks
    BY <1>0, <2>1 DEF AddsUp
  <2>3. p.level + 1 <= MaxInt /\ p.points + 1 <= MaxInt
    BY <1>1, <1>3, <2>1, <2>2
  <2>4. q.level = p.level + 1 /\ q.points = p.points + 1 /\ q.ranks = p.ranks
    BY <1>1, <1>4, <1>10, <2>3
  <2>5. \A l, pts, r \in Int : l \in 1 .. MaxInt /\ pts >= 0 /\ l - 1 = pts + r /\ l + 1 <= MaxInt =>
          l + 1 \in 1 .. MaxInt /\ pts + 1 >= 0 /\ (l + 1) - 1 = (pts + 1) + r
    BY <1>3
  <2> QED BY <1>1, <2>2, <2>3, <2>4, <2>5
<1> QED BY <1>7, <1>10, <1>11 DEF Sound, q

Satisfied == {p \in Characters : p.experience < ExperienceToNextLevel(p.level)}

LEMMA LevelUpFalls ==
  ASSUME NEW p \in Characters, p \notin Satisfied
  PROVE  LevelUp(p) \in Characters /\ LevelUp(p).experience < p.experience
<1> DEFINE cost == ExperienceToNextLevel(p.level)
           q == LevelUp(p)
<1>1. /\ p.level \in Int /\ p.points \in Int /\ p.experience \in Int /\ p.whole \in BOOLEAN
  BY Fields
<1>2. cost \in Int /\ cost >= 1
  BY <1>1, NextLevelCosts
<1>3. MaxInt \in Int
  BY Numbers
<1>4. \A n \in Int : Wrapped(n) \in Int
  BY <1>3 DEF Wrapped
<1>5. q = [p EXCEPT !.level = Wrapped(p.level + 1), !.points = Wrapped(p.points + 1),
                    !.experience = p.experience - cost,
                    !.whole = p.whole /\ p.level < MaxInt]
  BY DEF LevelUp
<1>6. ~(p.experience < cost)
  BY DEF Satisfied
<1> HIDE DEF q, cost
<1>7. p.experience - cost \in Nat /\ p.experience - cost < p.experience
  BY <1>1, <1>2, <1>6
<1>8. Wrapped(p.level + 1) \in Int /\ Wrapped(p.points + 1) \in Int
  BY <1>1, <1>4
<1>9. (p.whole /\ p.level < MaxInt) \in BOOLEAN
  OBVIOUS
<1>10. q \in Characters /\ q.experience = p.experience - cost
  BY <1>5, <1>7, <1>8, <1>9 DEF Characters
<1> QED BY <1>7, <1>10 DEF q

(* The loop of levels ends, with a player that adds up if it began so.     *)
LEMMA RisenSound == \A p \in Sound : Risen[p] \in Sound
<1> DEFINE m == [p \in Characters |-> p.experience]
           next == [p \in Characters |-> LevelUp(p)]
<1>1. Descends(Characters, m, Satisfied, next)
  <2>1. \A p \in Characters : m[p] \in Nat
    BY DEF Characters
  <2>2. ASSUME NEW p \in Characters \ Satisfied
        PROVE  next[p] \in Characters /\ m[next[p]] < m[p]
    BY LevelUpFalls
  <2> HIDE DEF m, next
  <2> QED BY <2>1, <2>2 DEF Descends
<1>2. PICK r : Recurs(r, Characters, Satisfied, next)
  <2> HIDE DEF m, next
  <2> QED BY <1>1, RecursionExists
<1> DEFINE Loop(f) == f = [p \in Characters |->
                             IF p.experience < ExperienceToNextLevel(p.level) THEN p
                             ELSE f[LevelUp(p)]]
<1>3. \A f : Loop(f) <=> Recurs(f, Characters, Satisfied, next)
  <2>1. SUFFICES ASSUME NEW f PROVE Loop(f) <=> Recurs(f, Characters, Satisfied, next)
    OBVIOUS
  <2>2. \A p \in Characters : p \in Satisfied <=> p.experience < ExperienceToNextLevel(p.level)
    BY DEF Satisfied
  <2>3. \A p \in Characters : next[p] = LevelUp(p)
    OBVIOUS
  <2> HIDE DEF next
  <2>4. [p \in Characters |-> IF p \in Satisfied THEN p ELSE f[next[p]]]
          = [p \in Characters |-> IF p.experience < ExperienceToNextLevel(p.level) THEN p
                                  ELSE f[LevelUp(p)]]
    BY <2>2, <2>3
  <2> QED BY <2>4 DEF Recurs
<1>4. Risen = CHOOSE f : Loop(f)
  BY DEF Risen
<1> HIDE DEF Loop, next, m
<1>5. Loop(Risen)
  BY <1>2, <1>3, <1>4
<1>6. Recurs(Risen, Characters, Satisfied, next)
  BY <1>3, <1>5
<1>7. Sound \subseteq Characters
  BY SoundIsCharacter
<1>8. ASSUME NEW p \in Sound \ Satisfied PROVE next[p] \in Sound
  <2>1. p \in Characters /\ p.experience \in Int /\ ExperienceToNextLevel(p.level) \in Int
    BY SoundIsCharacter, Fields, NextLevelCosts
  <2>2. p.experience >= ExperienceToNextLevel(p.level)
    BY <1>8, <2>1 DEF Satisfied
  <2> QED BY <2>1, <2>2, LevelUpSound DEF next
<1> QED BY <1>1, <1>6, <1>7, <1>8, RecursionKeeps

LEMMA WithExperienceSound ==
  ASSUME NEW p \in Sound, NEW reward \in Rewards
  PROVE  WithExperience(p, reward) \in Sound
<1> DEFINE exp == Min({MaxExperience, p.experience + reward})
           level == AtLeastOne(p.level)
           q == [p EXCEPT !.level = level, !.experience = exp]
<1>0. p \in Characters /\ AddsUp(p)
  BY SoundIsCharacter
<1>1. /\ p.level \in Int /\ p.experience \in Int /\ p.experience >= 0
      /\ reward \in Int /\ reward >= 1 /\ MaxExperience \in Int /\ MaxExperience >= 1
  BY <1>0, Fields, Numbers
<1>2. exp \in Nat
  BY <1>1, MinOfTwo
<1>3. level \in Int /\ (p.level >= 1 => level = p.level)
  BY <1>1, AtLeastOneIs
<1> HIDE DEF exp, level
<1>4. /\ q \in Characters /\ q.level = level /\ q.points = p.points
      /\ q.ranks = p.ranks /\ q.whole = p.whole
  BY <1>0, <1>2, <1>3 DEF Characters
<1>5. q = [p EXCEPT !.level = AtLeastOne(@), !.experience = Min({MaxExperience, @ + reward})]
  BY DEF exp, level
<1> HIDE DEF q
<1>6. AddsUp(q)
  BY <1>0, <1>3, <1>4 DEF AddsUp
<1>7. q \in Sound
  BY <1>4, <1>6 DEF Sound
<1>8. WithExperience(p, reward) = Risen[q]
  BY <1>5 DEF WithExperience
<1> QED BY <1>7, <1>8, RisenSound

LEMMA WithLevelsSound ==
  ASSUME NEW p \in Sound, NEW levels \in Levels
  PROVE  WithLevels(p, levels) \in Sound
<1> DEFINE level == AtLeastOne(p.level)
           T == {levels, MaxInt - level, MaxInt - p.points}
           n == Min(T)
           q == WithLevels(p, levels)
<1>0. p \in Characters /\ AddsUp(p)
  BY SoundIsCharacter
<1>1. p.level \in Int /\ p.points \in Int /\ p.ranks \in Int /\ p.whole \in BOOLEAN
  BY <1>0, Fields
<1>2. levels \in Int /\ levels >= 1 /\ MaxInt \in Int
  BY Numbers
<1>3. level \in Int /\ (p.level >= 1 => level = p.level)
  BY <1>1, AtLeastOneIs
<1> HIDE DEF level
<1>4. n \in T /\ \A k \in T : n <= k
  <2>1. T \subseteq Int /\ T # {}
    BY <1>1, <1>2, <1>3
  <2>2. IsFiniteSet(T)
    <3>1. IsFiniteSet({levels})
      BY FS_Singleton
    <3>2. IsFiniteSet({levels} \cup {MaxInt - level})
      BY <3>1, FS_AddElement
    <3>3. IsFiniteSet(({levels} \cup {MaxInt - level}) \cup {MaxInt - p.points})
      BY <3>2, FS_AddElement
    <3>4. T = ({levels} \cup {MaxInt - level}) \cup {MaxInt - p.points}
      OBVIOUS
    <3> QED BY <3>3, <3>4
  <2> HIDE DEF T
  <2> QED BY <2>1, <2>2, LeastInteger
<1>5. n \in Int
  BY <1>1, <1>2, <1>3, <1>4
<1>6. q = [p EXCEPT !.level = level + n, !.points = p.points + n]
  BY DEF WithLevels, level
<1> HIDE DEF n, q
<1>7. level + n \in Int /\ p.points + n \in Int
  BY <1>1, <1>3, <1>5
<1>8. /\ q \in Characters /\ q.level = level + n /\ q.points = p.points + n
      /\ q.ranks = p.ranks /\ q.whole = p.whole
  BY <1>0, <1>6, <1>7 DEF Characters
<1>9. AddsUp(q)
  <2>1. SUFFICES ASSUME p.whole
                 PROVE  /\ q.level \in 1 .. MaxInt /\ q.points >= 0 /\ q.ranks >= 0
                        /\ q.level - 1 = q.points + q.ranks
    BY <1>8 DEF AddsUp
  <2>2. /\ p.level \in 1 .. MaxInt /\ p.points >= 0 /\ p.ranks >= 0
        /\ p.level - 1 = p.points + p.ranks
    BY <1>0, <2>1 DEF AddsUp
  <2>3. level = p.level /\ p.points <= MaxInt
    BY <1>1, <1>2, <1>3, <2>2
  <2>4. n <= MaxInt - level /\ (n = levels \/ n = MaxInt - level \/ n = MaxInt - p.points)
    BY <1>4
  <2>5. n >= 0
    BY <1>1, <1>2, <2>2, <2>3, <2>4
  <2> QED BY <1>1, <1>2, <1>5, <1>8, <2>2, <2>3, <2>4, <2>5
<1> QED BY <1>8, <1>9 DEF q, Sound

LEMMA WithSkillSpentSound ==
  ASSUME NEW p \in Sound, p.points >= 1
  PROVE  WithSkillSpent(p) \in Sound
<1> DEFINE q == WithSkillSpent(p)
<1>0. p \in Characters /\ AddsUp(p)
  BY SoundIsCharacter
<1>1. p.level \in Int /\ p.points \in Int /\ p.ranks \in Int /\ p.whole \in BOOLEAN
  BY <1>0, Fields
<1>2. MaxInt \in Int
  BY Numbers
<1>3. \A n \in Int : Wrapped(n) \in Int /\ (n <= MaxInt => Wrapped(n) = n)
  BY <1>2 DEF Wrapped
<1>4. q = [p EXCEPT !.points = p.points - 1, !.ranks = Wrapped(p.ranks + 1)]
  BY DEF WithSkillSpent
<1> HIDE DEF q
<1>5. Wrapped(p.ranks + 1) \in Int /\ p.points - 1 \in Int
  BY <1>1, <1>3
<1>6. /\ q \in Characters /\ q.level = p.level /\ q.points = p.points - 1
      /\ q.ranks = Wrapped(p.ranks + 1) /\ q.whole = p.whole
  BY <1>0, <1>4, <1>5 DEF Characters
<1>7. AddsUp(q)
  <2>1. SUFFICES ASSUME p.whole
                 PROVE  /\ q.level \in 1 .. MaxInt /\ q.points >= 0 /\ q.ranks >= 0
                        /\ q.level - 1 = q.points + q.ranks
    BY <1>6 DEF AddsUp
  <2>2. /\ p.level \in 1 .. MaxInt /\ p.points >= 0 /\ p.ranks >= 0
        /\ p.level - 1 = p.points + p.ranks
    BY <1>0, <2>1 DEF AddsUp
  <2>3. p.ranks + 1 <= MaxInt
    BY <1>1, <1>2, <2>2
  <2>4. q.ranks = p.ranks + 1
    BY <1>1, <1>3, <1>6, <2>3
  <2> QED BY <1>1, <1>2, <1>6, <2>2, <2>4
<1> QED BY <1>6, <1>7 DEF q, Sound

-----------------------------------------------------------------------------
(* The shapes of the steps. *)

(* What commands a step leaves: those there were, or of sessions that play *)
(* or have, with no result or the world's player.                          *)
Tells(t) == t.step = "answered" => t.p = None \/ t.p = player'
Replies ==
  /\ moving' \in [Sessions -> Commands] /\ spending' \in [Sessions -> Commands]
  /\ \A s \in Sessions :
       \/ moving'[s] = moving[s]
       \/ phase[s] \notin {"new", "joining"} /\ Tells(moving'[s])
  /\ \A s \in Sessions :
       \/ spending'[s] = spending[s]
       \/ phase[s] \notin {"new", "joining"} /\ Tells(spending'[s])

(* The world changes its player, which staff may have asked it to.         *)
StaffSaves(kind) ==
  /\ StartSaves({kind}, player', TRUE) /\ Count({kind})
  /\ meddled' = [meddled EXCEPT ![kind] = player'.edition]
Turn(q) ==
  /\ owner \in Sessions
  /\ player' = [q EXCEPT !.edition = player.edition + 1]
  /\ \/ pending' = FALSE /\ updates' = [updates EXCEPT ![owner] = player']
     \/ pending' = TRUE /\ updates' = updates
  /\ Replies
  /\ \/ UNCHANGED <<saves, started, meddled>>
     \/ \E kind \in Kinds : StaffSaves(kind)
  /\ UNCHANGED <<owner, row, phase, copy, received, spoiled, backward>>

(* Nothing but commands.                                                   *)
Talk ==
  /\ Replies
  /\ UNCHANGED <<owner, player, pending, row, phase, copy, updates, received, saves,
                 started, spoiled, meddled, backward>>

(* A session takes over a result, which makes of its copy c.               *)
Takes(s, kind, c, result) ==
  /\ Playing(s)
  /\ Past(result, player)
  /\ c.edition = copy[s].edition
  /\ \A k \in Kinds \ {kind} : Of(k, c) = Of(k, copy[s])
  /\ Of(kind, copy[s]) = Of(kind, result) => Of(kind, c) = Of(kind, result)
  /\ copy' = [copy EXCEPT ![s] = c]
  /\ StartSaves({kind}, c, Authenticated(s))
  /\ Count(Mine(s, {kind}))
  /\ Remember(s, result)
  /\ Replies
  /\ UNCHANGED <<owner, player, pending, row, phase, updates, received, spoiled, meddled>>

(* A save writes the row.                                                  *)
Writing(save) ==
  /\ row' \in Sound /\ row'.edition = row.edition
  /\ \A k \in Kinds : Of(k, row') = IF k = save.kind THEN Of(k, save.p) ELSE Of(k, row)
  /\ Wrote(save) /\ Finish(save) /\ RowUntouched

LEMMA TurnSound ==
  ASSUME Typed, NEW q \in Sound, Becomes(q)
  PROVE  /\ player' = [q EXCEPT !.edition = player.edition + 1]
         /\ player' \in Sound
<1>1. player \in Characters
  BY SoundIsCharacter DEF Typed
<1>2. player.edition + 1 \in Nat
  BY <1>1, Fields
<1> QED BY <1>2, EditionSound DEF Becomes

LEMMA AnswerIs ==
  ASSUME NEW p \in Sound \cup {None}, NEW c \in BOOLEAN, p = None => c = FALSE
  PROVE  /\ Answer(p, c) \in Commands /\ Answer(p, c) # Idle
         /\ Answer(p, c).step = "answered" /\ Answer(p, c).p = p
<1>1. Answer(p, c) \in Commands
  <2>1. CASE p \in Sound
    BY <2>1 DEF Answer, Commands, Answers
  <2>2. CASE p = None
    BY <2>2 DEF Answer, Commands, Answers
  <2> QED BY <2>1, <2>2
<1>2. Answer(p, c).step = "answered" /\ Answer(p, c).p = p /\ Idle.step = "idle"
  BY DEF Answer, Idle
<1> QED BY <1>1, <1>2

LEMMA CommandIs ==
  ASSUME NEW t \in Commands
  PROVE  /\ t = Idle <=> t.step = "idle"
         /\ t.step = "answered" => /\ t.p \in Sound \cup {None}
                                   /\ t.changed \in BOOLEAN
                                   /\ t.p = None => t.changed = FALSE
<1>1. CASE t = Idle
  BY <1>1 DEF Idle
<1>2. CASE t \in [step : {"asked"}, from : Cells]
  BY <1>2 DEF Idle
<1>3. CASE t \in [step : {"answered"}, p : Sound, changed : BOOLEAN]
  <2>1. t.step = "answered" /\ t.p \in Sound /\ t.changed \in BOOLEAN
    BY <1>3
  <2>2. t.p # None
    BY <2>1, SoundIsCharacter, Fields
  <2> QED BY <2>1, <2>2 DEF Idle
<1>4. CASE t \in [step : {"answered"}, p : {None}, changed : {FALSE}]
  <2>1. t.step = "answered" /\ t.p = None /\ t.changed = FALSE
    BY <1>4
  <2>2. t.p \in Sound \cup {None} /\ t.changed \in BOOLEAN
    BY <2>1
  <2>3. t # Idle
    BY <2>1 DEF Idle
  <2> QED BY <2>1, <2>2, <2>3
<1> QED BY <1>1, <1>2, <1>3, <1>4 DEF Commands, Answers

LEMMA AskedIs ==
  ASSUME NEW p \in Sound
  PROVE  Asked(p) \in Commands /\ Asked(p).step = "asked"
<1>1. p.place \in Cells
  BY SoundIsCharacter, Fields
<1> QED BY <1>1 DEF Asked, Commands

LEMMA IdleIs == Idle \in Commands /\ Idle.step = "idle"
BY DEF Commands, Idle

(* A reply to a session that has asked.                                    *)
LEMMA ReplyIs ==
  ASSUME NEW s \in Sessions, NEW p \in Sound \cup {None}, NEW c \in BOOLEAN, p = None => c = FALSE
  PROVE  /\ Reply(s, Answer(p, c)) \in Commands
         /\ Reply(s, Answer(p, c)).step = "answered" => Reply(s, Answer(p, c)).p = p
BY AnswerIs, IdleIs DEF Reply

(* A step in which one session's command changes.                          *)
LEMMA OneMove ==
  ASSUME Typed, NEW s \in Sessions, NEW t \in Commands,
         phase[s] \notin {"new", "joining"}, Tells(t),
         moving' = [moving EXCEPT ![s] = t], spending' = spending
  PROVE  Replies
<1>1. moving' \in [Sessions -> Commands] /\ spending' \in [Sessions -> Commands]
  BY DEF Typed
<1>2. \A r \in Sessions : moving'[r] = IF r = s THEN t ELSE moving[r]
  BY DEF Typed
<1> QED BY <1>1, <1>2 DEF Replies

LEMMA OneSpending ==
  ASSUME Typed, NEW s \in Sessions, NEW t \in Commands,
         phase[s] \notin {"new", "joining"}, Tells(t),
         spending' = [spending EXCEPT ![s] = t], moving' = moving
  PROVE  Replies
<1>1. moving' \in [Sessions -> Commands] /\ spending' \in [Sessions -> Commands]
  BY DEF Typed
<1>2. \A r \in Sessions : spending'[r] = IF r = s THEN t ELSE spending[r]
  BY DEF Typed
<1> QED BY <1>1, <1>2 DEF Replies

LEMMA NoCommand ==
  ASSUME Typed, moving' = moving, spending' = spending
  PROVE  Replies
BY DEF Typed, Replies

(* A session whose command is not idle has begun to play.                  *)
LEMMA Begun ==
  ASSUME Typed, Calm, NEW s \in Sessions,
         moving[s].step # "idle" \/ spending[s].step # "idle" \/ Playing(s)
  PROVE  phase[s] \notin {"new", "joining"}
BY IdleIs DEF Calm, Playing

LEMMA SomeOwner ==
  ASSUME Typed, owner # NoSession
  PROVE  owner \in Sessions
BY DEF Typed

LEMMA FightTurns ==
  ASSUME Typed, Fight
  PROVE  \E q \in Sound : Turn(q)
<1>1. owner \in Sessions /\ player \in Sound
  BY SomeOwner DEF Fight, Typed
<1>2. PICK reward \in Rewards : Published(WithExperience(player, reward))
  BY DEF Fight
<1> DEFINE q == WithExperience(player, reward)
<1>3. q \in Sound
  BY <1>1, WithExperienceSound
<1> HIDE DEF q
<1>4. Becomes(q) /\ updates' = [updates EXCEPT ![owner] = player'] /\ pending' = FALSE
  BY <1>2 DEF Published, Publish, q
<1>5. player' = [q EXCEPT !.edition = player.edition + 1]
  BY <1>3, <1>4, TurnSound
<1>6. Replies
  BY NoCommand DEF Fight
<1>7. Turn(q)
  BY <1>1, <1>4, <1>5, <1>6 DEF Turn, Fight, Untouched
<1> QED BY <1>3, <1>7

LEMMA DieTurns ==
  ASSUME Typed, Die
  PROVE  \E q \in Sound : Turn(q)
<1>1. owner \in Sessions /\ player \in Sound
  BY SomeOwner DEF Die, Typed
<1> DEFINE q == [player EXCEPT !.place = Spawn]
<1>2. Spawn \in Cells
  BY NamesAssumption DEF Cells
<1>3. q \in Sound
  BY <1>1, <1>2, PlaceSound
<1>4. Becomes(q)
  BY DEF Die
<1> HIDE DEF q
<1>5. player' = [q EXCEPT !.edition = player.edition + 1]
  BY <1>3, <1>4, TurnSound
<1>6. Replies
  BY NoCommand DEF Die
<1>7. Turn(q)
  BY <1>1, <1>5, <1>6 DEF Turn, Die, Untouched
<1> QED BY <1>3, <1>7

LEMMA StaffTurns ==
  ASSUME Typed, owner # NoSession, NEW q \in Sound, Published(q),
         NEW kind \in Kinds, Staff(kind)
  PROVE  Turn(q)
<1>1. owner \in Sessions
  BY SomeOwner
<1>2. Becomes(q) /\ updates' = [updates EXCEPT ![owner] = player'] /\ pending' = FALSE
  BY DEF Published, Publish
<1>3. player' = [q EXCEPT !.edition = player.edition + 1]
  BY <1>2, TurnSound
<1>4. Replies
  BY NoCommand DEF Staff
<1>5. StaffSaves(kind)
  BY DEF Staff, StaffSaves
<1> QED BY <1>1, <1>2, <1>3, <1>4, <1>5 DEF Turn, Staff

LEMMA GiveExperienceTurns ==
  ASSUME Typed, GiveExperience
  PROVE  \E q \in Sound : Turn(q)
<1>1. player \in Sound /\ "progress" \in Kinds
  BY DEF Typed, Kinds
<1>2. PICK amount \in Rewards : Published(WithExperience(player, amount))
  BY DEF GiveExperience
<1>3. WithExperience(player, amount) \in Sound
  BY <1>1, WithExperienceSound
<1> QED BY <1>1, <1>2, <1>3, StaffTurns DEF GiveExperience

LEMMA GiveLevelsTurns ==
  ASSUME Typed, GiveLevels
  PROVE  \E q \in Sound : Turn(q)
<1>1. player \in Sound /\ "progress" \in Kinds
  BY DEF Typed, Kinds
<1>2. PICK levels \in Levels : Published(WithLevels(player, levels))
  BY DEF GiveLevels
<1>3. WithLevels(player, levels) \in Sound
  BY <1>1, WithLevelsSound
<1> QED BY <1>1, <1>2, <1>3, StaffTurns DEF GiveLevels

LEMMA TeleportTurns ==
  ASSUME Typed, Teleport
  PROVE  \E q \in Sound : Turn(q)
<1>1. player \in Sound /\ "position" \in Kinds
  BY DEF Typed, Kinds
<1>2. PICK place \in Places : Published([player EXCEPT !.place = place])
  BY DEF Teleport
<1>3. place \in Cells
  BY DEF Cells
<1>4. [player EXCEPT !.place = place] \in Sound
  BY <1>1, <1>3, PlaceSound
<1> QED BY <1>1, <1>2, <1>4, StaffTurns DEF Teleport

LEMMA PressTalks ==
  ASSUME Typed, Calm, NEW s \in Sessions, Press(s)
  PROVE  Talk
<1> DEFINE t == Asked(copy[s])
<1>1. copy[s] \in Sound
  BY DEF Typed
<1>2. t \in Commands /\ Tells(t)
  BY <1>1, AskedIs DEF Tells
<1>3. phase[s] \notin {"new", "joining"}
  BY Begun DEF Press
<1> HIDE DEF t
<1>4. moving' = [moving EXCEPT ![s] = t] /\ spending' = spending
  BY DEF Press, t
<1>5. Replies
  BY <1>2, <1>3, <1>4, OneMove
<1> QED BY <1>5 DEF Talk, Press, Untouched

LEMMA PressSkillTalks ==
  ASSUME Typed, Calm, NEW s \in Sessions, PressSkill(s)
  PROVE  Talk
<1> DEFINE t == Asked(copy[s])
<1>1. copy[s] \in Sound
  BY DEF Typed
<1>2. t \in Commands /\ Tells(t)
  BY <1>1, AskedIs DEF Tells
<1>3. phase[s] \notin {"new", "joining"}
  BY Begun DEF PressSkill
<1> HIDE DEF t
<1>4. spending' = [spending EXCEPT ![s] = t] /\ moving' = moving
  BY DEF PressSkill, t
<1>5. Replies
  BY <1>2, <1>3, <1>4, OneSpending
<1> QED BY <1>5 DEF Talk, PressSkill, Untouched

LEMMA MoveTurnsOrTalks ==
  ASSUME Typed, Calm, NEW s \in Sessions, Move(s)
  PROVE  Talk \/ \E q \in Sound : Turn(q)
<1> DEFINE changed == player'.place # moving[s].from
           told == Reply(s, Answer(player', changed))
           none == Reply(s, Answer(None, FALSE))
<1>1. player \in Sound /\ phase[s] \notin {"new", "joining"} /\ spending' = spending
  <2>1. moving[s].step # "idle"
    BY DEF Move
  <2> QED BY <2>1, Begun DEF Typed, Move
<1>2. changed \in BOOLEAN
  OBVIOUS
<1>3. ASSUME player' \in Sound PROVE told \in Commands /\ Tells(told)
  <2>1. player' # None
    BY <1>3, SoundIsCharacter, Fields
  <2> HIDE DEF changed
  <2> QED BY <1>2, <1>3, <2>1, ReplyIs DEF Tells
<1>4. none \in Commands /\ Tells(none)
  BY ReplyIs DEF Tells
<1>5. \/ \E place \in Places : Published([player EXCEPT !.place = place])
         /\ Authenticated(s) /\ moving' = [moving EXCEPT ![s] = told]
      \/ /\ UNCHANGED <<player, updates, pending>>
         /\ moving' = [moving EXCEPT ![s] = told] \/ moving' = [moving EXCEPT ![s] = none]
  BY DEF Move
<1>6. UNCHANGED <<owner, row, phase, copy, received, saves, started, spoiled, meddled, backward>>
  BY DEF Move, Untouched
<1> HIDE DEF told, none
<1>7. CASE \E place \in Places : Published([player EXCEPT !.place = place])
           /\ Authenticated(s) /\ moving' = [moving EXCEPT ![s] = told]
  <2>1. PICK place \in Places : Published([player EXCEPT !.place = place])
    BY <1>7
  <2> DEFINE q == [player EXCEPT !.place = place]
  <2>2. place \in Cells
    BY DEF Cells
  <2>3. q \in Sound
    BY <1>1, <2>2, PlaceSound
  <2> HIDE DEF q
  <2>4. Becomes(q) /\ updates' = [updates EXCEPT ![owner] = player'] /\ pending' = FALSE
    BY <2>1 DEF Published, Publish, q
  <2>5. player' = [q EXCEPT !.edition = player.edition + 1] /\ player' \in Sound
    BY <2>3, <2>4, TurnSound
  <2>6. moving' = [moving EXCEPT ![s] = told] /\ owner \in Sessions
    BY <1>7 DEF Authenticated
  <2>7. told \in Commands /\ Tells(told)
    BY <1>3, <2>5
  <2>8. Replies
    BY <1>1, <2>6, <2>7, OneMove
  <2>9. Turn(q)
    BY <1>6, <2>4, <2>5, <2>6, <2>8 DEF Turn
  <2> QED BY <2>3, <2>9
<1>8. CASE /\ UNCHANGED <<player, updates, pending>>
           /\ moving' = [moving EXCEPT ![s] = told] \/ moving' = [moving EXCEPT ![s] = none]
  <2>1. PICK t \in {told, none} : moving' = [moving EXCEPT ![s] = t]
    BY <1>8
  <2>2. t \in Commands /\ Tells(t)
    BY <1>1, <1>3, <1>4, <1>8, <2>1
  <2>3. Replies
    BY <1>1, <2>1, <2>2, OneMove
  <2> QED BY <1>6, <1>8, <2>3 DEF Talk
<1> QED BY <1>5, <1>7, <1>8

LEMMA SpendTurnsOrTalks ==
  ASSUME Typed, Calm, NEW s \in Sessions, SpendSkillPoint(s)
  PROVE  Talk \/ \E q \in Sound : Turn(q)
<1> DEFINE told == Reply(s, Answer(player', TRUE))
           none == Reply(s, Answer(None, FALSE))
<1>1. player \in Sound /\ phase[s] \notin {"new", "joining"} /\ moving' = moving
  <2>1. spending[s].step # "idle"
    BY DEF SpendSkillPoint
  <2> QED BY <2>1, Begun DEF Typed, SpendSkillPoint
<1>3. ASSUME player' \in Sound PROVE told \in Commands /\ Tells(told)
  <2>1. player' # None
    BY <1>3, SoundIsCharacter, Fields
  <2> QED BY <1>3, <2>1, ReplyIs DEF Tells
<1>4. none \in Commands /\ Tells(none)
  BY ReplyIs DEF Tells
<1>5. \/ /\ Authenticated(s) /\ player.points >= 1
         /\ Published(WithSkillSpent(player)) /\ spending' = [spending EXCEPT ![s] = told]
      \/ /\ UNCHANGED <<player, updates, pending>>
         /\ spending' = [spending EXCEPT ![s] = none]
  BY DEF SpendSkillPoint
<1>6. UNCHANGED <<owner, row, phase, copy, received, saves, started, spoiled, meddled, backward>>
  BY DEF SpendSkillPoint, Untouched
<1> HIDE DEF told, none
<1>7. CASE /\ Authenticated(s) /\ player.points >= 1
           /\ Published(WithSkillSpent(player)) /\ spending' = [spending EXCEPT ![s] = told]
  <2> DEFINE q == WithSkillSpent(player)
  <2>3. q \in Sound
    BY <1>1, <1>7, WithSkillSpentSound
  <2> HIDE DEF q
  <2>4. Becomes(q) /\ updates' = [updates EXCEPT ![owner] = player'] /\ pending' = FALSE
    BY <1>7 DEF Published, Publish, q
  <2>5. player' = [q EXCEPT !.edition = player.edition + 1] /\ player' \in Sound
    BY <2>3, <2>4, TurnSound
  <2>6. owner \in Sessions
    BY <1>7 DEF Authenticated
  <2>7. told \in Commands /\ Tells(told)
    BY <1>3, <2>5
  <2>8. Replies
    BY <1>1, <1>7, <2>7, OneSpending
  <2>9. Turn(q)
    BY <1>6, <2>4, <2>5, <2>6, <2>8 DEF Turn
  <2> QED BY <2>3, <2>9
<1>8. CASE /\ UNCHANGED <<player, updates, pending>>
           /\ spending' = [spending EXCEPT ![s] = none]
  <2>3. Replies
    BY <1>1, <1>4, <1>8, OneSpending
  <2> QED BY <1>6, <1>8, <2>3 DEF Talk
<1> QED BY <1>5, <1>7, <1>8

(* An answer that changed something brings a player of the world's.        *)
LEMMA AnswerBrings ==
  ASSUME NEW t \in Commands, t.step = "answered", t.changed, PastAnswer(t, player)
  PROVE  t.p \in Sound /\ Past(t.p, player)
BY CommandIs DEF PastAnswer

LEMMA PlayerMovedTakes ==
  ASSUME Typed, Editions, Calm, NEW s \in Sessions, PlayerMoved(s)
  PROVE  Talk \/ \E kind \in Kinds : \E c, result \in Sound : Takes(s, kind, c, result)
<1> DEFINE answer == moving[s]
           result == answer.p
           c == WithPlace(copy[s], result)
<1>1. /\ phase[s] \notin {"new", "joining"} /\ copy[s] \in Sound
      /\ answer \in Commands /\ answer.step = "answered"
      /\ moving' = [moving EXCEPT ![s] = Idle] /\ spending' = spending
      /\ UNCHANGED <<owner, player, pending, row, phase, updates, received, spoiled, meddled>>
  BY Begun DEF PlayerMoved, Typed
<1>2. Replies
  <2>1. Idle \in Commands /\ Tells(Idle)
    BY IdleIs DEF Tells
  <2> QED BY <1>1, <2>1, OneMove
<1>3. CASE ~answer.changed
  <2>1. UNCHANGED <<copy, saves, started, backward>>
    BY <1>3 DEF PlayerMoved
  <2> QED BY <1>1, <1>2, <2>1 DEF Talk
<1>4. CASE answer.changed
  <2>1. PastAnswer(answer, player)
    BY DEF Editions
  <2> HIDE DEF answer
  <2>2. result \in Sound /\ Past(result, player)
    BY <1>1, <1>4, <2>1, AnswerBrings
  <2> HIDE DEF result
  <2>3. /\ c \in Sound /\ c.edition = copy[s].edition
        /\ Of("position", c) = Of("position", result)
        /\ Of("progress", c) = Of("progress", copy[s])
    BY <1>1, <2>2, WithPlaceSound
  <2> HIDE DEF c
  <2>4. /\ copy' = [copy EXCEPT ![s] = c]
        /\ StartSaves({"position"}, copy'[s], Authenticated(s))
        /\ Count(Mine(s, {"position"})) /\ Remember(s, result)
    BY <1>4 DEF PlayerMoved, answer, result, c
  <2>5. copy'[s] = c
    BY <2>4 DEF Typed
  <2>6. StartSaves({"position"}, c, Authenticated(s))
    BY <2>4, <2>5
  <2>7. \A k \in Kinds \ {"position"} : Of(k, c) = Of(k, copy[s])
    BY <2>3 DEF Kinds
  <2>8. Takes(s, "position", c, result)
    BY <1>1, <1>2, <2>2, <2>3, <2>4, <2>6, <2>7 DEF Takes, PlayerMoved
  <2>9. "position" \in Kinds
    BY DEF Kinds
  <2> QED BY <2>2, <2>3, <2>8, <2>9
<1> QED BY <1>3, <1>4

LEMMA SkillSpentTakes ==
  ASSUME Typed, Editions, Calm, NEW s \in Sessions, SkillSpent(s)
  PROVE  Talk \/ \E kind \in Kinds : \E c, result \in Sound : Takes(s, kind, c, result)
<1> DEFINE answer == spending[s]
           result == answer.p
           c == WithSkills(copy[s], result)
<1>1. /\ phase[s] \notin {"new", "joining"} /\ copy[s] \in Sound
      /\ answer \in Commands /\ answer.step = "answered"
      /\ spending' = [spending EXCEPT ![s] = Idle] /\ moving' = moving
      /\ UNCHANGED <<owner, player, pending, row, phase, updates, received, spoiled, meddled>>
  BY Begun DEF SkillSpent, Typed
<1>2. Replies
  <2>1. Idle \in Commands /\ Tells(Idle)
    BY IdleIs DEF Tells
  <2> QED BY <1>1, <2>1, OneSpending
<1>3. CASE ~answer.changed
  <2>1. UNCHANGED <<copy, saves, started, backward>>
    BY <1>3 DEF SkillSpent
  <2> QED BY <1>1, <1>2, <2>1 DEF Talk
<1>4. CASE answer.changed
  <2>1. PastAnswer(answer, player)
    BY DEF Editions
  <2> HIDE DEF answer
  <2>2. result \in Sound /\ Past(result, player)
    BY <1>1, <1>4, <2>1, AnswerBrings
  <2> HIDE DEF result
  <2>3. /\ c \in Sound /\ c.edition = copy[s].edition
        /\ Of("position", c) = Of("position", copy[s])
        /\ Of("progress", copy[s]) = Of("progress", result) =>
             Of("progress", c) = Of("progress", result)
    BY <1>1, <2>2, WithSkillsSound
  <2> HIDE DEF c
  <2>4. /\ copy' = [copy EXCEPT ![s] = c]
        /\ StartSaves({"progress"}, copy'[s], Authenticated(s))
        /\ Count(Mine(s, {"progress"})) /\ Remember(s, result)
    BY <1>4 DEF SkillSpent, answer, result, c
  <2>5. copy'[s] = c
    BY <2>4 DEF Typed
  <2>6. StartSaves({"progress"}, c, Authenticated(s))
    BY <2>4, <2>5
  <2>7. \A k \in Kinds \ {"progress"} : Of(k, c) = Of(k, copy[s])
    BY <2>3 DEF Kinds
  <2>8. Takes(s, "progress", c, result)
    BY <1>1, <1>2, <2>2, <2>3, <2>4, <2>6, <2>7 DEF Takes, SkillSpent
  <2>9. "progress" \in Kinds
    BY DEF Kinds
  <2> QED BY <2>2, <2>3, <2>8, <2>9
<1> QED BY <1>3, <1>4

LEMMA UpdatesWrite ==
  ASSUME Typed, NEW save \in saves, UpdateLocation(save) \/ UpdateProgress(save)
  PROVE  Writing(save)
<1>1. /\ save.kind \in Kinds /\ save.p \in Sound /\ row \in Sound
      /\ save.step \in {"insert", "update"} => save.kind = "position"
  BY DEF Typed, Writes
<1>2. CASE UpdateLocation(save)
  <2>1. row' = WithPlace(row, save.p) /\ save.kind = "position"
    BY <1>1, <1>2 DEF UpdateLocation
  <2>2. /\ row' \in Sound /\ row'.edition = row.edition
        /\ Of("position", row') = Of("position", save.p)
        /\ Of("progress", row') = Of("progress", row)
    BY <1>1, <2>1, WithPlaceSound
  <2>3. \A k \in Kinds : Of(k, row') = IF k = save.kind THEN Of(k, save.p) ELSE Of(k, row)
    BY <2>1, <2>2 DEF Kinds
  <2> QED BY <1>2, <2>2, <2>3 DEF Writing, UpdateLocation
<1>3. CASE UpdateProgress(save)
  <2>1. row' = WithProgress(row, save.p) /\ save.kind = "progress"
    BY <1>3 DEF UpdateProgress, Stored
  <2>2. /\ row' \in Sound /\ row'.edition = row.edition
        /\ Of("position", row') = Of("position", row)
        /\ Of("progress", row') = Of("progress", save.p)
    BY <1>1, <2>1, WithProgressSound
  <2>3. \A k \in Kinds : Of(k, row') = IF k = save.kind THEN Of(k, save.p) ELSE Of(k, row)
    BY <2>1, <2>2 DEF Kinds
  <2> QED BY <1>3, <2>2, <2>3 DEF Writing, UpdateProgress
<1> QED BY <1>2, <1>3

-----------------------------------------------------------------------------
(* Saves. *)

LEMMA KindsFinite == \A kinds \in SUBSET Kinds : IsFiniteSet(kinds)
<1>1. IsFiniteSet({"position"} \cup {"progress"})
  BY FS_Singleton, FS_AddElement
<1>2. Kinds = {"position"} \cup {"progress"}
  BY DEF Kinds
<1> QED BY <1>1, <1>2, FS_Subset

(* What is put into a save of each kind is a finite set.                   *)
LEMMA OfEachFinite ==
  ASSUME NEW S, IsFiniteSet(S), NEW f
  PROVE  IsFiniteSet({f[x] : x \in S})
<1> DEFINE T == {f[x] : x \in S}
           g == [x \in S |-> f[x]]
<1>1. g \in Surjection(S, T)
  BY DEF Surjection
<1> QED BY <1>1, FS_Surjection

(* The owner's saves and staff's are the newest; a replaced session's are  *)
(* numbered below any.                                                     *)
LEMMA NumberIs ==
  ASSUME Typed, NEW k \in Kinds
  PROVE  /\ Number(k, TRUE) = started[k] + 1
         /\ Number(k, FALSE) \in Int /\ Number(k, FALSE) <= 0
<1> DEFINE f == [save \in saves |-> save.n]
           T == {f[save] : save \in saves}
           U == T \cup {1}
<1>1. IsFiniteSet(T)
  <2> HIDE DEF f
  <2> QED BY OfEachFinite DEF Typed
<1>2. IsFiniteSet(U)
  BY <1>1, FS_AddElement
<1>3. U \subseteq Int /\ 1 \in U
  BY DEF Typed, Writes
<1>4. {1} \cup {save.n : save \in saves} = U
  OBVIOUS
<1> HIDE DEF U
<1>5. Min(U) \in U /\ Min(U) <= 1
  BY <1>2, <1>3, LeastInteger
<1>6. Min(U) \in Int
  BY <1>3, <1>5
<1>7. Number(k, FALSE) = Min(U) - 1
  BY <1>4 DEF Number
<1> QED BY <1>5, <1>6, <1>7 DEF Number

LEMMA StartedSaves ==
  ASSUME Typed, NEW kinds \in SUBSET Kinds, NEW p \in Sound, NEW mine \in BOOLEAN,
         StartSaves(kinds, p, mine)
  PROVE  /\ saves' \subseteq Writes /\ IsFiniteSet(saves')
         /\ \A save \in saves' : save \in saves
              \/ /\ save.kind \in kinds /\ save.n = Number(save.kind, mine)
                 /\ Of(save.kind, save.p) = Of(save.kind, p)
         /\ saves \subseteq saves'
         /\ \A k \in kinds : \E save \in saves' : save.kind = k /\ save.n = Number(k, mine)
<1> DEFINE f == [k \in Kinds |->
                   [kind |-> k, step |-> "read", p |-> Part(k, p), n |-> Number(k, mine)]]
           New == {f[k] : k \in kinds}
<1>1. \A k \in Kinds : Number(k, mine) \in Int
  <2>1. ASSUME NEW k \in Kinds PROVE Number(k, mine) \in Int
    <3>1. started[k] + 1 \in Int
      BY DEF Typed
    <3> QED BY <3>1, NumberIs
  <2> QED BY <2>1
<1>2. \A k \in Kinds : /\ f[k] \in Writes /\ f[k].kind = k /\ f[k].n = Number(k, mine)
                       /\ Of(k, f[k].p) = Of(k, p)
  <2>1. ASSUME NEW k \in Kinds
        PROVE  /\ f[k] \in Writes /\ f[k].kind = k /\ f[k].n = Number(k, mine)
               /\ Of(k, f[k].p) = Of(k, p)
    <3>1. Part(k, p) \in Sound /\ Of(k, Part(k, p)) = Of(k, p)
      BY PartSound
    <3>2. f[k] = [kind |-> k, step |-> "read", p |-> Part(k, p), n |-> Number(k, mine)]
      OBVIOUS
    <3>3. Number(k, mine) \in Int
      BY <1>1
    <3> HIDE DEF f
    <3> QED BY <3>1, <3>2, <3>3 DEF Writes
  <2> QED BY <2>1
<1>3. saves' = saves \cup New
  BY DEF StartSaves
<1>4. IsFiniteSet(New)
  <2> HIDE DEF f
  <2> QED BY KindsFinite, OfEachFinite
<1> HIDE DEF f
<1>5. IsFiniteSet(saves')
  <2> HIDE DEF New
  <2> QED BY <1>3, <1>4, FS_Union DEF Typed
<1>6. \A save \in New : \E k \in kinds : save = f[k]
  OBVIOUS
<1>7. \A k \in kinds : f[k] \in New
  OBVIOUS
<1> HIDE DEF New
<1>8. saves' \subseteq Writes
  BY <1>2, <1>3, <1>6 DEF Typed
<1>9. ASSUME NEW save \in saves'
      PROVE  save \in saves
               \/ /\ save.kind \in kinds /\ save.n = Number(save.kind, mine)
                  /\ Of(save.kind, save.p) = Of(save.kind, p)
  BY <1>2, <1>3, <1>6
<1>10. ASSUME NEW k \in kinds
       PROVE  \E save \in saves' : save.kind = k /\ save.n = Number(k, mine)
  BY <1>2, <1>3, <1>7
<1> QED BY <1>3, <1>5, <1>8, <1>9, <1>10

LEMMA Counted ==
  ASSUME Typed, NEW kinds, Count(kinds)
  PROVE  /\ started' \in [Kinds -> Nat]
         /\ \A k \in Kinds : started'[k] = IF k \in kinds THEN started[k] + 1 ELSE started[k]
BY DEF Typed, Count

(* What keeps the newest saves and what they leave in the row.             *)
OthersStart(k) ==
  /\ saves \subseteq saves'
  /\ \A save \in saves' : save \in saves \/ ~(save.kind = k /\ save.n = started[k])
  /\ started'[k] = started[k]
  /\ k \in spoiled => k \in spoiled'
  /\ Of(k, row') = Of(k, row)

LEMMA LatestStays ==
  ASSUME NEW k, OthersStart(k), NEW v, Latest(k, v)
  PROVE  Latest(k, v)'
BY DEF OthersStart, Latest, IsNewest

LEMMA KeptStays ==
  ASSUME NEW k, NEW s, KeptOf(k, s), OthersStart(k),
         Of(k, copy'[s]) = Of(k, copy[s]), meddled'[k] = meddled[k],
         \A v : Announced(k, s, v) => Announced(k, s, v)'
  PROVE  KeptOf(k, s)'
<1>1. CASE Latest(k, Of(k, copy[s]))
  <2>1. PICK v : v = Of(k, copy[s])
    OBVIOUS
  <2>2. Latest(k, v)'
    BY <1>1, <2>1, LatestStays
  <2>3. v = Of(k, copy'[s])
    BY <2>1
  <2> QED BY <2>2, <2>3 DEF KeptOf
<1>2. CASE meddled[k] # 0 /\ \E v : Latest(k, v) /\ Announced(k, s, v)
  <2>1. PICK v : Latest(k, v) /\ Announced(k, s, v)
    BY <1>2
  <2>2. Latest(k, v)' /\ Announced(k, s, v)' /\ meddled'[k] # 0
    BY <1>2, <2>1, LatestStays
  <2> QED BY <2>2 DEF KeptOf
<1> QED BY <1>1, <1>2 DEF KeptOf

(* A session's own save is the newest and holds what it shows.             *)
LEMMA KeptBySaving ==
  ASSUME Typed, Numbered, NEW k \in Kinds, NEW s, NEW kinds \in SUBSET Kinds, k \in kinds,
         NEW p \in Sound, StartSaves(kinds, p, TRUE), started'[k] = started[k] + 1
  PROVE  Latest(k, Of(k, p))'
<1>1. /\ \A save \in saves' : save \in saves
           \/ /\ save.kind \in kinds /\ save.n = Number(save.kind, TRUE)
              /\ Of(save.kind, save.p) = Of(save.kind, p)
      /\ \E save \in saves' : save.kind = k /\ save.n = Number(k, TRUE)
  BY StartedSaves
<1>2. Number(k, TRUE) = started'[k]
  BY NumberIs
<1>3. \A save \in saves : save.kind = k => save.n # started'[k]
  <2>1. ASSUME NEW save \in saves, save.kind = k PROVE save.n # started'[k]
    <3>1. save.n <= started[k] /\ save.n \in Int /\ started[k] \in Int
      BY <2>1 DEF Numbered, Typed, Writes
    <3> QED BY <3>1
  <2> QED BY <2>1
<1>4. \E save \in saves' : IsNewest(save, k)'
  BY <1>1, <1>2 DEF IsNewest
<1>5. \A save \in saves' : IsNewest(save, k)' => Of(k, save.p) = Of(k, p)
  BY <1>1, <1>3 DEF IsNewest
<1> QED BY <1>4, <1>5 DEF Latest

-----------------------------------------------------------------------------
(* The world changes its player: everything else is then of an older one.  *)

LEMMA Strictly ==
  ASSUME Typed, Editions
  PROVE  /\ player.edition \in Int /\ player.edition >= 0
         /\ row.edition \in Int
         /\ \A s \in Sessions : copy[s].edition \in Int
         /\ \A s \in Sessions : updates[s].edition \in Int /\ updates[s].edition <= player.edition
         /\ \A s \in Sessions : received[s].edition \in Int /\ received[s].edition <= player.edition
         /\ \A k \in Kinds : meddled[k] \in Int /\ meddled[k] <= player.edition
<1>1. \A p \in Sound : p.edition \in Int /\ p.edition >= 0
  BY SoundIsCharacter, Fields
<1>2. None.edition = -1
  BY NoneIsOlder
<1> QED BY <1>1, <1>2 DEF Typed, Editions, Past

LEMMA PastAnswers ==
  ASSUME Typed, Editions, Replies, NEW now, now = player',
         now.edition = player.edition + 1 \/ now = player
  PROVE  \A s \in Sessions : PastAnswer(moving'[s], now) /\ PastAnswer(spending'[s], now)
<1>1. player.edition \in Int
  BY Strictly
<1>2. \A p : p \in Sound => p.edition \in Int
  BY SoundIsCharacter, Fields
<1>3. ASSUME NEW t \in Commands, PastAnswer(t, player) PROVE PastAnswer(t, now)
  <2>1. SUFFICES ASSUME t.step = "answered", t.p # None PROVE Past(t.p, now)
    BY DEF PastAnswer
  <2>2. t.p \in Sound /\ Past(t.p, player)
    BY <1>3, <2>1, CommandIs DEF PastAnswer
  <2> QED BY <1>1, <1>2, <2>2 DEF Past
<1>4. ASSUME NEW t \in Commands, Tells(t) PROVE PastAnswer(t, now)
  <2>1. now.edition <= now.edition
    BY <1>1
  <2> QED BY <1>4, <2>1 DEF PastAnswer, Tells, Past
<1>5. ASSUME NEW s \in Sessions
      PROVE  PastAnswer(moving'[s], now) /\ PastAnswer(spending'[s], now)
  <2>1. /\ moving[s] \in Commands /\ moving'[s] \in Commands
        /\ spending[s] \in Commands /\ spending'[s] \in Commands
        /\ PastAnswer(moving[s], player) /\ PastAnswer(spending[s], player)
        /\ moving'[s] = moving[s] \/ Tells(moving'[s])
        /\ spending'[s] = spending[s] \/ Tells(spending'[s])
    BY DEF Typed, Editions, Replies
  <2>2. PastAnswer(moving'[s], now)
    BY <1>3, <1>4, <2>1
  <2>3. PastAnswer(spending'[s], now)
    BY <1>3, <1>4, <2>1
  <2> QED BY <2>2, <2>3
<1> QED BY <1>5

LEMMA TurnIs ==
  ASSUME Typed, Editions, NEW q \in Sound, Turn(q)
  PROVE  /\ player' \in Sound /\ player'.edition = player.edition + 1
         /\ updates' \in [Sessions -> Sound \cup {None}]
         /\ \A s \in Sessions : updates'[s] = updates[s] \/ (s = owner /\ updates'[s] = player')
<1>1. player.edition + 1 \in Nat
  BY Strictly
<1>2. player' \in Sound /\ player'.edition = player.edition + 1
  BY <1>1, EditionSound DEF Turn
<1>3. \/ updates' = [updates EXCEPT ![owner] = player']
      \/ updates' = updates
  BY DEF Turn
<1>4. updates' \in [Sessions -> Sound \cup {None}]
  BY <1>2, <1>3 DEF Typed
<1>5. ASSUME NEW s \in Sessions
      PROVE  updates'[s] = updates[s] \/ (s = owner /\ updates'[s] = player')
  BY <1>3 DEF Typed
<1> QED BY <1>2, <1>4, <1>5

LEMMA StaffIs ==
  ASSUME Typed, NEW kind \in Kinds, StaffSaves(kind), player' \in Sound
  PROVE  /\ StartSaves({kind}, player', TRUE)
         /\ saves' \subseteq Writes /\ IsFiniteSet(saves') /\ saves \subseteq saves'
         /\ \A save \in saves' : save \in saves
              \/ (save.kind = kind /\ save.n = started[kind] + 1)
         /\ started' \in [Kinds -> Nat]
         /\ \A k \in Kinds : started'[k] = IF k = kind THEN started[k] + 1 ELSE started[k]
         /\ meddled' \in [Kinds -> Int]
         /\ \A k \in Kinds : meddled'[k] = IF k = kind THEN player'.edition ELSE meddled[k]
<1>1. PICK p \in Sound : p = player'
  OBVIOUS
<1>2. StartSaves({kind}, p, TRUE)
  BY <1>1 DEF StaffSaves
<1>3. {kind} \in SUBSET Kinds /\ TRUE \in BOOLEAN
  OBVIOUS
<1>4. /\ saves' \subseteq Writes /\ IsFiniteSet(saves') /\ saves \subseteq saves'
      /\ \A save \in saves' : save \in saves
           \/ (save.kind \in {kind} /\ save.n = Number(save.kind, TRUE))
  BY <1>2, <1>3, StartedSaves
<1>5. Number(kind, TRUE) = started[kind] + 1
  BY NumberIs
<1>6. \A save \in saves' : save \in saves \/ (save.kind = kind /\ save.n = started[kind] + 1)
  BY <1>4, <1>5
<1>7. /\ started' \in [Kinds -> Nat]
      /\ \A k \in Kinds : started'[k] = IF k \in {kind} THEN started[k] + 1 ELSE started[k]
  <2>1. Count({kind})
    BY DEF StaffSaves
  <2> QED BY <2>1, Counted
<1>8. p.edition \in Int
  BY SoundIsCharacter, Fields
<1>9. /\ meddled' \in [Kinds -> Int]
      /\ \A k \in Kinds : meddled'[k] = IF k = kind THEN player'.edition ELSE meddled[k]
  BY <1>1, <1>8 DEF StaffSaves, Typed
<1> QED BY <1>1, <1>2, <1>4, <1>6, <1>7, <1>9

LEMMA TurnKeepsTyped ==
  ASSUME Typed, Editions, NEW q \in Sound, Turn(q)
  PROVE  Typed'
<1>1. player' \in Sound /\ updates' \in [Sessions -> Sound \cup {None}]
  BY TurnIs
<1>2. /\ saves' \subseteq Writes /\ IsFiniteSet(saves')
      /\ started' \in [Kinds -> Nat] /\ meddled' \in [Kinds -> Nat]
  <2>1. CASE UNCHANGED <<saves, started, meddled>>
    BY <2>1 DEF Typed
  <2>2. CASE \E kind \in Kinds : StaffSaves(kind)
    <3>1. PICK kind \in Kinds : StaffSaves(kind)
      BY <2>2
    <3>2. /\ saves' \subseteq Writes /\ IsFiniteSet(saves')
          /\ started' \in [Kinds -> Nat]
      BY <1>1, <3>1, StaffIs
    <3>3. player'.edition \in Nat
      BY <1>1, SoundIsCharacter DEF Characters
    <3>4. meddled' \in [Kinds -> Nat]
      BY <3>1, <3>3 DEF StaffSaves, Typed
    <3> QED BY <3>2, <3>4
  <2> QED BY <2>1, <2>2 DEF Turn
<1>3. /\ owner' = owner /\ row' = row /\ phase' = phase /\ copy' = copy /\ received' = received
      /\ pending' \in BOOLEAN
      /\ moving' \in [Sessions -> Commands] /\ spending' \in [Sessions -> Commands]
  BY DEF Turn, Replies
<1> QED BY <1>1, <1>2, <1>3 DEF Typed

LEMMA TurnKeepsEditions ==
  ASSUME Typed, Editions, NEW q \in Sound, Turn(q)
  PROVE  Editions'
<1>1. PICK now : now = player'
  OBVIOUS
<1>2. now.edition = player.edition + 1 /\ player.edition \in Int
  BY <1>1, TurnIs, Strictly
<1>3. \A s \in Sessions : PastAnswer(moving'[s], now) /\ PastAnswer(spending'[s], now)
  BY <1>1, <1>2, PastAnswers DEF Turn
<1>4. row'.edition <= now.edition
  BY <1>2, Strictly DEF Editions, Turn
<1>5. ASSUME NEW s \in Sessions
      PROVE  /\ copy'[s].edition <= now.edition
             /\ updates'[s] # None => Past(updates'[s], now)
             /\ received'[s] # None => Past(received'[s], now)
  <2>1. copy'[s].edition <= now.edition
    BY <1>2, Strictly DEF Editions, Turn
  <2>2. Past(received'[s], now)
    BY <1>2, Strictly DEF Turn, Past
  <2>3. updates'[s] = updates[s] \/ updates'[s] = now
    BY <1>1, TurnIs
  <2>4. Past(updates'[s], now)
    BY <1>2, <2>3, Strictly DEF Past
  <2> QED BY <2>1, <2>2, <2>4
<1>6. ASSUME NEW k \in Kinds PROVE meddled'[k] <= now.edition
  <2>1. meddled[k] \in Int /\ meddled[k] <= player.edition
    BY Strictly
  <2>2. CASE UNCHANGED <<saves, started, meddled>>
    BY <1>2, <2>1, <2>2
  <2>3. CASE \E kind \in Kinds : StaffSaves(kind)
    <3>1. meddled'[k] = meddled[k] \/ meddled'[k] = now.edition
      <4>1. player' \in Sound
        BY TurnIs
      <4> QED BY <1>1, <2>3, <4>1, StaffIs
    <3> QED BY <1>2, <2>1, <3>1
  <2> QED BY <2>2, <2>3 DEF Turn
<1> QED BY <1>1, <1>3, <1>4, <1>5, <1>6 DEF Editions

LEMMA TurnKeepsRest ==
  ASSUME Typed, Editions, Calm, Numbered, NEW q \in Sound, Turn(q)
  PROVE  Calm' /\ Shown' /\ Numbered'
<1>0. /\ player' \in Sound /\ player'.edition = player.edition + 1
      /\ \A s \in Sessions : updates'[s] = updates[s] \/ (s = owner /\ updates'[s] = player')
  BY TurnIs
<1>1. /\ \A k \in Kinds : started'[k] = started[k] \/ started'[k] = started[k] + 1
      /\ \A k \in Kinds : started[k] \in Int /\ started'[k] \in Int
      /\ \A k \in Kinds : meddled'[k] = meddled[k] \/ meddled'[k] = player.edition + 1
      /\ \A save \in saves' : save \in saves \/ save.n = started'[save.kind]
      /\ \A save \in saves : save.n \in Int /\ save.kind \in Kinds
  <2>1. \A save \in saves : save.n \in Int /\ save.kind \in Kinds
    BY DEF Typed, Writes
  <2>2. CASE UNCHANGED <<saves, started, meddled>>
    BY <2>1, <2>2 DEF Typed
  <2>3. CASE \E kind \in Kinds : StaffSaves(kind)
    <3>1. PICK kind \in Kinds : StaffSaves(kind)
      BY <2>3
    <3>2. /\ \A save \in saves' : save \in saves
               \/ (save.kind = kind /\ save.n = started[kind] + 1)
          /\ started' \in [Kinds -> Nat]
          /\ \A k \in Kinds : started'[k] = IF k = kind THEN started[k] + 1 ELSE started[k]
          /\ \A k \in Kinds : meddled'[k] = IF k = kind THEN player'.edition ELSE meddled[k]
      BY <1>0, <3>1, StaffIs
    <3> QED BY <1>0, <2>1, <3>2 DEF Typed
  <2> QED BY <2>2, <2>3 DEF Turn
<1>2. Calm'
  <2>1. ASSUME NEW s \in Sessions, phase'[s] \in {"new", "joining"}
        PROVE  /\ owner' # s /\ s \notin backward'
               /\ received'[s] = None /\ updates'[s] = None
               /\ moving'[s] = Idle /\ spending'[s] = Idle
    BY <1>0, <2>1 DEF Calm, Turn, Replies
  <2>2. ASSUME NEW s \in Sessions, phase'[s] \notin {"new", "joining"}, NEW k \in Kinds
        PROVE  started'[k] >= 1
    <3>1. started[k] >= 1
      BY <2>2 DEF Calm, Turn
    <3> QED BY <1>1, <3>1
  <2> QED BY <2>1, <2>2 DEF Calm
<1>3. Shown'
  <2>1. ASSUME NEW s \in Sessions, owner' = s, Playing(s)', ~pending'
        PROVE  updates'[s] = player' /\ updates'[s] # None
    <3>1. updates' = [updates EXCEPT ![owner] = player'] /\ owner = s
      BY <2>1 DEF Turn
    <3>2. updates'[s] = player'
      BY <3>1 DEF Typed
    <3> QED BY <1>0, <3>2, SoundIsCharacter, Fields
  <2> QED BY <2>1 DEF Shown
<1>4. Numbered'
  <2>1. ASSUME NEW save \in saves' PROVE save.n <= started'[save.kind]
    <3>1. CASE save \in saves
      <4>1. /\ save.n <= started[save.kind] /\ save.kind \in Kinds /\ save.n \in Int
        BY <1>1, <3>1 DEF Numbered
      <4> QED BY <1>1, <4>1
    <3>2. CASE save.n = started'[save.kind] /\ save.kind \in Kinds
      BY <1>1, <3>2
    <3>3. save.kind \in Kinds
      BY TurnKeepsTyped DEF Typed, Writes
    <3> QED BY <1>1, <3>1, <3>2, <3>3
  <2>2. ASSUME NEW s \in Sessions, owner' = s, Playing(s)', NEW k \in Kinds, meddled'[k] # 0
        PROVE  copy'[s].edition < meddled'[k]
    <3>1. copy'[s] = copy[s] /\ owner = s /\ Playing(s)
      BY <2>2 DEF Turn, Playing
    <3>2. copy[s].edition <= player.edition /\ copy[s].edition \in Int /\ player.edition \in Int
      BY Strictly DEF Editions
    <3>3. meddled[k] # 0 => copy[s].edition < meddled[k]
      BY <3>1 DEF Numbered
    <3> QED BY <1>1, <2>2, <3>1, <3>2, <3>3
  <2> QED BY <2>1, <2>2 DEF Numbered
<1> QED BY <1>2, <1>3, <1>4

LEMMA TurnKeepsKept ==
  ASSUME SavesInv, NEW q \in Sound, Turn(q)
  PROVE  Kept'
<1>0. Typed /\ Editions /\ Kept /\ Numbered
  BY DEF SavesInv
<1>1. /\ player' \in Sound /\ player'.edition = player.edition + 1
      /\ \A s \in Sessions : updates'[s] = updates[s] \/ (s = owner /\ updates'[s] = player')
  BY <1>0, TurnIs
<1>2. SUFFICES ASSUME NEW s \in Sessions, owner = s, Playing(s), NEW k \in Kinds, KeptOf(k, s)
               PROVE  KeptOf(k, s)'
  BY <1>0 DEF Kept, Turn, Playing
<1>3. /\ player.edition \in Int /\ meddled[k] \in Int /\ meddled[k] <= player.edition
      /\ received[s].edition \in Int /\ received[s].edition <= player.edition
  BY <1>0, Strictly
<1>4. copy' = copy /\ received' = received /\ row' = row /\ spoiled' = spoiled
  BY DEF Turn
<1>5. ASSUME meddled'[k] = meddled[k], NEW v, Announced(k, s, v) PROVE Announced(k, s, v)'
  BY <1>1, <1>3, <1>4, <1>5 DEF Announced
<1>6. CASE UNCHANGED <<saves, started, meddled>>
  <2>1. OthersStart(k)
    BY <1>4, <1>6, <1>2 DEF OthersStart
  <2> QED BY <1>2, <1>4, <1>5, <1>6, <2>1, KeptStays
<1>7. CASE \E kind \in Kinds : StaffSaves(kind)
  <2>1. PICK kind \in Kinds : StaffSaves(kind)
    BY <1>7
  <2>2. /\ StartSaves({kind}, player', TRUE) /\ saves \subseteq saves'
        /\ \A save \in saves' : save \in saves
             \/ (save.kind = kind /\ save.n = started[kind] + 1)
        /\ \A i \in Kinds : started'[i] = IF i = kind THEN started[i] + 1 ELSE started[i]
        /\ \A i \in Kinds : meddled'[i] = IF i = kind THEN player'.edition ELSE meddled[i]
    BY <1>0, <1>1, <2>1, StaffIs
  <2>3. CASE k # kind
    <3>1. OthersStart(k)
      BY <1>4, <2>2, <2>3 DEF OthersStart
    <3>2. meddled'[k] = meddled[k]
      BY <2>2, <2>3
    <3> QED BY <1>2, <1>4, <1>5, <3>1, <3>2, KeptStays
  <2>4. CASE k = kind
    <3>1. PICK p \in Sound : p = player'
      BY <1>1
    <3>2. Latest(k, Of(k, p))'
      <4>1. StartSaves({k}, p, TRUE) /\ started'[k] = started[k] + 1 /\ {k} \in SUBSET Kinds
        BY <2>2, <2>4, <3>1
      <4> QED BY <1>0, <4>1, KeptBySaving
    <3>3. meddled'[k] = player.edition + 1 /\ p.edition = player.edition + 1
      BY <1>1, <2>2, <2>4, <3>1
    <3>4. updates'[s] = player'  \/ updates'[s] = updates[s]
      BY <1>1
    <3>5. updates[s].edition \in Int /\ updates[s].edition <= player.edition
      BY <1>0, Strictly
    <3>6. Announced(k, s, Of(k, p))'
      BY <1>3, <1>4, <3>1, <3>3, <3>4, <3>5 DEF Announced
    <3>7. meddled'[k] # 0
      BY <1>0, <1>3, <3>3, Strictly
    <3> QED BY <3>2, <3>6, <3>7 DEF KeptOf
  <2> QED BY <2>3, <2>4
<1> QED BY <1>6, <1>7 DEF Turn

-----------------------------------------------------------------------------
(* Commands, coming and going. *)

LEMMA Parts ==
  ASSUME SavesInv
  PROVE  Typed /\ Editions /\ Calm /\ Shown /\ Kept /\ Numbered
BY DEF SavesInv

(* Where nothing the last three parts speak of has changed.                *)
LEMMA RestStays ==
  ASSUME Shown, Kept, Numbered,
         UNCHANGED <<owner, player, pending, row, phase, copy, updates, received, saves,
                     started, spoiled, meddled, backward>>
  PROVE  Shown' /\ Kept' /\ Numbered'
<1>1. Shown'
  BY DEF Shown, Playing
<1>2. Numbered'
  BY DEF Numbered, Playing
<1>3. ASSUME NEW k, NEW v PROVE Latest(k, v)' <=> Latest(k, v)
  BY DEF Latest, IsNewest
<1>4. ASSUME NEW k, NEW s, NEW v PROVE Announced(k, s, v)' <=> Announced(k, s, v)
  BY DEF Announced
<1>5. ASSUME NEW k, NEW s, KeptOf(k, s) PROVE KeptOf(k, s)'
  <2>1. Of(k, copy'[s]) = Of(k, copy[s]) /\ meddled'[k] = meddled[k]
    OBVIOUS
  <2>2. OthersStart(k)
    BY DEF OthersStart
  <2> QED BY <1>4, <1>5, <2>1, <2>2, KeptStays
<1>6. Kept'
  BY <1>5 DEF Kept, Playing
<1> QED BY <1>1, <1>2, <1>6

LEMMA TalkKeeps ==
  ASSUME SavesInv, Talk
  PROVE  SavesInv'
<1>0. Typed /\ Editions /\ Calm /\ Shown /\ Kept /\ Numbered
  BY Parts
<1>1. Typed'
  BY <1>0 DEF Typed, Talk, Replies
<1>2. Editions'
  <2>1. PICK now : now = player' /\ now = player
    BY DEF Talk
  <2>2. \A s \in Sessions : PastAnswer(moving'[s], now) /\ PastAnswer(spending'[s], now)
    BY <1>0, <2>1, PastAnswers DEF Talk
  <2> QED BY <1>0, <2>1, <2>2 DEF Editions, Talk
<1>3. Calm'
  BY <1>0 DEF Calm, Talk, Replies
<1>4. Shown' /\ Kept' /\ Numbered'
  BY <1>0, RestStays DEF Talk
<1> QED BY <1>1, <1>2, <1>3, <1>4 DEF SavesInv

LEMMA LoadKeeps ==
  ASSUME SavesInv, NEW s \in Sessions, Load(s)
  PROVE  SavesInv'
<1>0. Typed /\ Editions /\ Calm /\ Shown /\ Kept /\ Numbered
  BY Parts
<1>a. /\ phase[s] = "new" /\ owner # s
      /\ phase' = [phase EXCEPT ![s] = "joining"] /\ copy' = [copy EXCEPT ![s] = row]
      /\ UNCHANGED <<owner, player, pending, row, updates, received, moving,
                     spending, saves, started, spoiled, meddled, backward>>
  BY <1>0 DEF Load, Calm, historyVars
<1>b. \A r \in Sessions : /\ phase'[r] = IF r = s THEN "joining" ELSE phase[r]
                          /\ copy'[r] = IF r = s THEN row ELSE copy[r]
  BY <1>0, <1>a DEF Typed
<1>1. Typed'
  <2>1. phase' \in [Sessions -> Phases] /\ copy' \in [Sessions -> Sound]
    BY <1>0, <1>a DEF Typed, Phases
  <2> QED BY <1>0, <1>a, <2>1 DEF Typed
<1>2. Editions'
  BY <1>0, <1>a, <1>b DEF Editions
<1>3. Calm'
  BY <1>0, <1>a, <1>b DEF Calm
<1>c. ASSUME NEW r \in Sessions, owner' = r, Playing(r)'
      PROVE  owner = r /\ Playing(r) /\ copy'[r] = copy[r] /\ r # s
  BY <1>a, <1>b, <1>c DEF Playing
<1>4. Shown'
  BY <1>0, <1>a, <1>c DEF Shown
<1>5. Numbered'
  BY <1>0, <1>a, <1>c DEF Numbered
<1>6. Kept'
  <2>1. SUFFICES ASSUME NEW r \in Sessions, owner' = r, Playing(r)', NEW k \in Kinds
                 PROVE  KeptOf(k, r)'
    BY DEF Kept
  <2>2. KeptOf(k, r) /\ copy'[r] = copy[r]
    BY <1>0, <1>c, <2>1 DEF Kept
  <2>3. OthersStart(k)
    BY <1>a DEF OthersStart
  <2>4. ASSUME NEW v, Announced(k, r, v) PROVE Announced(k, r, v)'
    BY <1>a, <2>4 DEF Announced
  <2>5. Of(k, copy'[r]) = Of(k, copy[r]) /\ meddled'[k] = meddled[k]
    BY <1>a, <2>2
  <2> QED BY <2>2, <2>3, <2>4, <2>5, KeptStays
<1> QED BY <1>1, <1>2, <1>3, <1>4, <1>5, <1>6 DEF SavesInv

LEMMA JoinIs ==
  ASSUME Typed, NEW s \in Sessions, Join(s)
  PROVE  player' \in Sound /\ player'.edition = player.edition + 1
<1> DEFINE q == Placed(copy[s])
<1>1. copy[s] \in Sound
  BY DEF Typed
<1>2. q \in Sound
  <2>1. CASE copy[s].place = Nowhere
    <3>1. Spawn \in Cells
      BY NamesAssumption DEF Cells
    <3> QED BY <1>1, <2>1, <3>1, PlaceSound DEF Placed
  <2>2. CASE copy[s].place # Nowhere
    BY <1>1, <2>2 DEF Placed
  <2> QED BY <2>1, <2>2
<1>3. Becomes(q)
  BY DEF Join
<1> HIDE DEF q
<1>4. player' = [q EXCEPT !.edition = player.edition + 1] /\ player' \in Sound
  BY <1>2, <1>3, TurnSound
<1>5. player.edition + 1 \in Nat
  <2>1. player \in Characters
    BY SoundIsCharacter DEF Typed
  <2> QED BY <2>1, Fields
<1>6. player'.edition = player.edition + 1
  BY <1>2, <1>4, <1>5, EditionSound
<1> QED BY <1>4, <1>6

LEMMA JoinKeeps ==
  ASSUME SavesInv, NEW s \in Sessions, Join(s)
  PROVE  SavesInv'
<1>0. Typed /\ Editions /\ Calm /\ Shown /\ Kept /\ Numbered
  BY Parts
<1>a. /\ phase[s] = "joining" /\ phase' = [phase EXCEPT ![s] = "playing"]
      /\ owner' = s /\ updates' = [updates EXCEPT ![s] = player'] /\ pending' = FALSE
      /\ spoiled' = {k \in Kinds : Of(k, row) # Of(k, copy[s])}
      /\ meddled' = [k \in Kinds |-> 0]
      /\ UNCHANGED <<row, copy, received, moving, spending, saves, backward>>
  BY DEF Join
<1>b. player' \in Sound /\ player'.edition = player.edition + 1
  BY <1>0, JoinIs
<1>c. /\ started' \in [Kinds -> Nat]
      /\ \A k \in Kinds : started'[k] = started[k] + 1
  BY <1>0, Counted DEF Join
<1>d. \A r \in Sessions : /\ phase'[r] = IF r = s THEN "playing" ELSE phase[r]
                          /\ updates'[r] = IF r = s THEN player' ELSE updates[r]
  BY <1>0, <1>a DEF Typed
<1>e. player' # None
  BY <1>b, SoundIsCharacter, Fields
<1>1. Typed'
  <2>1. /\ phase' \in [Sessions -> Phases] /\ updates' \in [Sessions -> Sound \cup {None}]
        /\ meddled' \in [Kinds -> Nat]
    BY <1>0, <1>a, <1>b DEF Typed, Phases
  <2> QED BY <1>0, <1>a, <1>b, <1>c, <2>1 DEF Typed
<1>2. Editions'
  <2>1. PICK now : now = player'
    OBVIOUS
  <2>2. now.edition = player.edition + 1 /\ player.edition \in Int
    BY <1>0, <1>b, <2>1, Strictly
  <2>3. Replies
    BY <1>0, <1>a, NoCommand
  <2>4. \A r \in Sessions : PastAnswer(moving'[r], now) /\ PastAnswer(spending'[r], now)
    BY <1>0, <2>1, <2>2, <2>3, PastAnswers
  <2>5. row'.edition <= now.edition
    BY <1>0, <1>a, <2>2, Strictly DEF Editions
  <2>6. ASSUME NEW r \in Sessions
        PROVE  /\ copy'[r].edition <= now.edition
               /\ updates'[r] # None => Past(updates'[r], now)
               /\ received'[r] # None => Past(received'[r], now)
    <3>1. copy'[r].edition <= now.edition
      BY <1>0, <1>a, <2>2, Strictly DEF Editions
    <3>2. Past(received'[r], now)
      BY <1>0, <1>a, <2>2, Strictly DEF Past
    <3>3. updates'[r] = updates[r] \/ updates'[r] = now
      BY <1>d, <2>1
    <3>4. Past(updates'[r], now)
      BY <1>0, <2>2, <3>3, Strictly DEF Past
    <3> QED BY <3>1, <3>2, <3>4
  <2>7. \A k \in Kinds : meddled'[k] <= now.edition
    BY <1>0, <1>a, <2>2, Strictly
  <2> QED BY <2>1, <2>4, <2>5, <2>6, <2>7 DEF Editions
<1>3. Calm'
  <2>1. \A k \in Kinds : started'[k] >= 1
    BY <1>0, <1>c DEF Typed
  <2> QED BY <1>0, <1>a, <1>d, <2>1 DEF Calm
<1>4. Shown'
  BY <1>a, <1>d, <1>e DEF Shown
<1>f. ASSUME NEW save \in saves PROVE save.n < started'[save.kind] /\ save.kind \in Kinds
  <2>1. save.n <= started[save.kind] /\ save.n \in Int /\ save.kind \in Kinds
    BY <1>0 DEF Numbered, Typed, Writes
  <2>2. started[save.kind] \in Int
    BY <1>0, <2>1 DEF Typed
  <2> QED BY <1>c, <2>1, <2>2
<1>g. ASSUME NEW save \in saves PROVE save.n <= started'[save.kind] /\ save.n # started'[save.kind]
  <2>1. save.n < started'[save.kind] /\ save.kind \in Kinds
    BY <1>f
  <2>2. save.n \in Int
    BY <1>0 DEF Typed, Writes
  <2>3. started'[save.kind] \in Int
    BY <1>c, <2>1
  <2> QED BY <2>1, <2>2, <2>3
<1>5. Numbered'
  BY <1>a, <1>g DEF Numbered
<1>6. Kept'
  <2>1. SUFFICES ASSUME NEW r \in Sessions, owner' = r, NEW k \in Kinds
                 PROVE  KeptOf(k, r)'
    BY DEF Kept
  <2>2. r = s
    BY <1>a, <2>1
  <2>3. \A save \in saves' : ~IsNewest(save, k)'
    BY <1>a, <1>g DEF IsNewest
  <2>4. k \notin spoiled' => Of(k, row') = Of(k, copy'[s])
    BY <1>a
  <2>5. PICK v : v = Of(k, copy'[s])
    OBVIOUS
  <2>6. Latest(k, v)'
    BY <2>3, <2>4, <2>5 DEF Latest
  <2> QED BY <2>2, <2>5, <2>6 DEF KeptOf
<1> QED BY <1>1, <1>2, <1>3, <1>4, <1>5, <1>6 DEF SavesInv

LEMMA QuitKeeps ==
  ASSUME SavesInv, NEW s \in Sessions, Quit(s) \/ Leave(s)
  PROVE  SavesInv'
<1>0. Typed /\ Editions /\ Calm /\ Shown /\ Kept /\ Numbered
  BY Parts
<1>a. /\ \/ phase' = [phase EXCEPT ![s] = "leaving"]
         \/ phase' = [phase EXCEPT ![s] = "gone"]
      /\ received' = received \/ received' = [received EXCEPT ![s] = None]
      /\ owner' = owner \/ owner' = NoSession
      /\ phase[s] \notin {"new", "joining"}
      /\ UNCHANGED <<player, pending, row, copy, updates, moving, spending, saves,
                     started, spoiled, meddled, backward>>
  BY DEF Quit, Leave, Playing, historyVars
<1>b. /\ phase'[s] \in {"leaving", "gone"}
      /\ received'[s] = received[s] \/ received'[s] = None
      /\ \A r \in Sessions \ {s} : phase'[r] = phase[r] /\ received'[r] = received[r]
  BY <1>0, <1>a DEF Typed
<1>c. NoSession \notin Sessions
  BY NamesAssumption
<1>1. Typed'
  <2>1. phase' \in [Sessions -> Phases] /\ received' \in [Sessions -> Sound \cup {None}]
    BY <1>0, <1>a DEF Typed, Phases
  <2> QED BY <1>0, <1>a, <2>1 DEF Typed
<1>2. Editions'
  BY <1>0, <1>a, <1>b DEF Editions
<1>3. Calm'
  BY <1>0, <1>a, <1>b, <1>c DEF Calm
<1>d. ASSUME NEW r \in Sessions, owner' = r, Playing(r)'
      PROVE  owner = r /\ Playing(r) /\ received'[r] = received[r]
  BY <1>a, <1>b, <1>c, <1>d DEF Playing
<1>4. Shown'
  BY <1>0, <1>a, <1>d DEF Shown
<1>5. Numbered'
  BY <1>0, <1>a, <1>d DEF Numbered
<1>6. Kept'
  <2>1. SUFFICES ASSUME NEW r \in Sessions, owner' = r, Playing(r)', NEW k \in Kinds
                 PROVE  KeptOf(k, r)'
    BY DEF Kept
  <2>2. KeptOf(k, r) /\ received'[r] = received[r]
    BY <1>0, <1>d, <2>1 DEF Kept
  <2>3. OthersStart(k)
    BY <1>a DEF OthersStart
  <2>4. ASSUME NEW v, Announced(k, r, v) PROVE Announced(k, r, v)'
    BY <1>a, <2>2, <2>4 DEF Announced
  <2>5. Of(k, copy'[r]) = Of(k, copy[r]) /\ meddled'[k] = meddled[k]
    BY <1>a
  <2> QED BY <2>2, <2>3, <2>4, <2>5, KeptStays
<1> QED BY <1>1, <1>2, <1>3, <1>4, <1>5, <1>6 DEF SavesInv

-----------------------------------------------------------------------------
(* Snapshots and results. *)

LEMMA BroadcastPendingKeeps ==
  ASSUME SavesInv, BroadcastPending
  PROVE  SavesInv'
<1>0. Typed /\ Editions /\ Calm /\ Shown /\ Kept /\ Numbered
  BY Parts
<1>a. /\ owner \in Sessions /\ player' = player /\ pending' = FALSE
      /\ updates' = [updates EXCEPT ![owner] = player]
      /\ UNCHANGED <<owner, row, phase, copy, received, moving, spending, saves,
                     started, spoiled, meddled, backward>>
  BY <1>0, SomeOwner DEF BroadcastPending, Publish, Untouched
<1>b. /\ updates'[owner] = player
      /\ \A r \in Sessions : updates'[r] = updates[r] \/ updates'[r] = player
      /\ \A r \in Sessions \ {owner} : updates'[r] = updates[r]
  BY <1>0, <1>a DEF Typed
<1>c. player # None /\ player.edition \in Int
  BY <1>0, SoundIsCharacter, Fields DEF Typed
<1>1. Typed'
  <2>1. updates' \in [Sessions -> Sound \cup {None}]
    BY <1>0, <1>a DEF Typed
  <2> QED BY <1>0, <1>a, <2>1 DEF Typed
<1>2. Editions'
  <2>1. Past(player, player)
    BY <1>c DEF Past
  <2>2. \A r \in Sessions : updates'[r] # None => Past(updates'[r], player)
    BY <1>0, <1>b, <2>1 DEF Editions
  <2> QED BY <1>0, <1>a, <2>2 DEF Editions
<1>3. Calm'
  BY <1>0, <1>a, <1>b DEF Calm
<1>4. Shown'
  BY <1>a, <1>b, <1>c DEF Shown
<1>5. Numbered'
  BY <1>0, <1>a DEF Numbered, Playing
<1>6. Kept'
  <2>1. SUFFICES ASSUME NEW r \in Sessions, owner' = r, Playing(r)', NEW k \in Kinds
                 PROVE  KeptOf(k, r)'
    BY DEF Kept
  <2>2. KeptOf(k, r)
    BY <1>0, <1>a, <2>1 DEF Kept, Playing
  <2>3. OthersStart(k)
    BY <1>a DEF OthersStart
  <2>4. ASSUME NEW v, Announced(k, r, v) PROVE Announced(k, r, v)'
    <3>1. updates'[r] = player
      BY <1>a, <1>b, <2>1
    <3> QED BY <1>a, <2>4, <3>1 DEF Announced
  <2>5. Of(k, copy'[r]) = Of(k, copy[r]) /\ meddled'[k] = meddled[k]
    BY <1>a
  <2> QED BY <2>2, <2>3, <2>4, <2>5, KeptStays
<1> QED BY <1>1, <1>2, <1>3, <1>4, <1>5, <1>6 DEF SavesInv

LEMMA WaitForSnapshotKeeps ==
  ASSUME SavesInv, NEW s \in Sessions, WaitForSnapshot(s)
  PROVE  SavesInv'
<1>0. Typed /\ Editions /\ Calm /\ Shown /\ Kept /\ Numbered
  BY Parts
<1>a. /\ Playing(s) /\ received[s] = None /\ updates[s] # None
      /\ received' = [received EXCEPT ![s] = updates[s]]
      /\ updates' = [updates EXCEPT ![s] = None]
      /\ UNCHANGED <<owner, player, pending, row, phase, copy, moving, spending, saves,
                     started, spoiled, meddled, backward>>
  BY DEF WaitForSnapshot, historyVars
<1>b. \A r \in Sessions : /\ received'[r] = IF r = s THEN updates[r] ELSE received[r]
                          /\ updates'[r] = IF r = s THEN None ELSE updates[r]
  BY <1>0, <1>a DEF Typed
<1>1. Typed'
  <2>1. /\ updates' \in [Sessions -> Sound \cup {None}]
        /\ received' \in [Sessions -> Sound \cup {None}]
    BY <1>0, <1>a DEF Typed
  <2> QED BY <1>0, <1>a, <2>1 DEF Typed
<1>2. Editions'
  BY <1>0, <1>a, <1>b DEF Editions
<1>3. Calm'
  BY <1>0, <1>a, <1>b DEF Calm, Playing
<1>4. Shown'
  BY <1>0, <1>a, <1>b DEF Shown, Playing
<1>5. Numbered'
  BY <1>0, <1>a DEF Numbered, Playing
<1>6. Kept'
  <2>1. SUFFICES ASSUME NEW r \in Sessions, owner' = r, Playing(r)', NEW k \in Kinds
                 PROVE  KeptOf(k, r)'
    BY DEF Kept
  <2>2. KeptOf(k, r)
    BY <1>0, <1>a, <2>1 DEF Kept, Playing
  <2>3. OthersStart(k)
    BY <1>a DEF OthersStart
  <2>4. ASSUME NEW v, Announced(k, r, v) PROVE Announced(k, r, v)'
    <3>1. None.edition # meddled[k]
      BY <1>0, NoneIsOlder DEF Typed
    <3> QED BY <1>a, <1>b, <2>4, <3>1 DEF Announced
  <2>5. Of(k, copy'[r]) = Of(k, copy[r]) /\ meddled'[k] = meddled[k]
    BY <1>a
  <2> QED BY <2>2, <2>3, <2>4, <2>5, KeptStays
<1> QED BY <1>1, <1>2, <1>3, <1>4, <1>5, <1>6 DEF SavesInv

LEMMA BelowAny ==
  /\ \A i, j \in Int : i <= 0 /\ j >= 1 => i # j
  /\ \A i, j, l \in Int : i <= 0 /\ j >= 0 /\ l >= j => i <= l
OBVIOUS

(* A session the world does not know starts saves that are never newest.   *)
LEMMA StrangersSave ==
  ASSUME Typed, Calm, NEW s \in Sessions, ~Authenticated(s),
         NEW r \in Sessions, Playing(r),
         NEW kinds \in SUBSET Kinds, NEW p \in Sound, StartSaves(kinds, p, Authenticated(s)),
         started' = started, spoiled' = spoiled, row' = row, NEW k \in Kinds
  PROVE  OthersStart(k)
<1>1. StartSaves(kinds, p, FALSE)
  <2>1. Authenticated(s) = FALSE
    BY DEF Authenticated
  <2> QED BY <2>1
<1>2. /\ saves \subseteq saves'
      /\ \A save \in saves' : save \in saves
           \/ (save.kind \in kinds /\ save.n = Number(save.kind, FALSE))
  BY <1>1, StartedSaves
<1>3. PICK n \in Int : n <= 0 /\ n = Number(k, FALSE)
  BY NumberIs, Zenon
<1>4. started[k] >= 1 /\ started[k] \in Int
  BY DEF Calm, Playing, Typed
<1>5. n # started[k]
  BY <1>3, <1>4, BelowAny, Zenon
<1>6. \A save \in saves' : save \in saves \/ ~(save.kind = k /\ save.n = started[k])
  BY <1>2, <1>3, <1>5, Zenon
<1> QED BY <1>2, <1>6 DEF OthersStart

LEMMA Authenticity ==
  ASSUME NEW s
  PROVE  /\ Authenticated(s) \in BOOLEAN
         /\ owner = s => Authenticated(s) = TRUE
         /\ owner # s => Authenticated(s) = FALSE
BY DEF Authenticated

(* Saves numbered by their session are numbered by what has been counted.  *)
LEMMA NumberedBySaving ==
  ASSUME Typed, Numbered, NEW s, NEW kinds \in SUBSET Kinds, NEW more, kinds \subseteq more,
         NEW p \in Sound, StartSaves(kinds, p, Authenticated(s)), Count(Mine(s, more))
  PROVE  \A save \in saves' : save.n <= started'[save.kind]
<1>0. Authenticated(s) \in BOOLEAN /\ kinds \in SUBSET Kinds
  BY Authenticity
<1>1. \A save \in saves' : save \in saves
        \/ (save.kind \in kinds /\ save.n = Number(save.kind, Authenticated(s)))
  BY <1>0, StartedSaves
<1>2. /\ started' \in [Kinds -> Nat]
      /\ \A k \in Kinds : started'[k] = IF k \in Mine(s, more) THEN started[k] + 1 ELSE started[k]
  BY Counted
<1>3. \A k \in Kinds : started[k] \in Int /\ started[k] >= 0 /\ started'[k] >= started[k]
  BY <1>2 DEF Typed
<1>4. ASSUME NEW save \in saves PROVE save.n <= started'[save.kind]
  <2>1. save.kind \in Kinds /\ save.n \in Int /\ save.n <= started[save.kind]
    BY DEF Typed, Writes, Numbered
  <2>2. started'[save.kind] \in Int
    BY <1>2, <2>1
  <2> QED BY <1>3, <2>1, <2>2
<1>5. ASSUME NEW k \in kinds PROVE Number(k, Authenticated(s)) <= started'[k]
  <2>0. k \in Kinds /\ started'[k] \in Int
    BY <1>2
  <2>1. CASE owner = s
    <3>1. Authenticated(s) = TRUE /\ k \in Mine(s, more)
      BY <2>1, Authenticity DEF Mine
    <3>2. Number(k, TRUE) = started'[k]
      BY <1>2, <2>0, <3>1, NumberIs
    <3>3. Number(k, Authenticated(s)) = started'[k]
      BY <3>1, <3>2, Zenon
    <3>4. \A n \in Int : n <= n
      OBVIOUS
    <3> QED BY <2>0, <3>3, <3>4, Zenon
  <2>2. CASE owner # s
    <3>1. Authenticated(s) = FALSE
      BY <2>2, Authenticity
    <3>2. PICK n \in Int : n <= 0 /\ n = Number(k, FALSE)
      BY <2>0, NumberIs, Zenon
    <3>3. Number(k, Authenticated(s)) = n
      BY <3>1, <3>2, Zenon
    <3>4. n <= started'[k]
      BY <1>3, <2>0, <3>2, BelowAny, Zenon
    <3> QED BY <3>3, <3>4, Zenon
  <2> QED BY <2>1, <2>2
<1> QED BY <1>1, <1>4, <1>5

LEMMA MineIs ==
  ASSUME NEW s, NEW kinds
  PROVE  /\ owner = s => Mine(s, kinds) = kinds
         /\ owner # s => Mine(s, kinds) = {}
BY DEF Mine, Authenticated

LEMMA TakesKeeps ==
  ASSUME SavesInv, NEW s \in Sessions, NEW kind \in Kinds, NEW c \in Sound, NEW result \in Sound,
         Takes(s, kind, c, result)
  PROVE  SavesInv'
<1>0. Typed /\ Editions /\ Calm /\ Shown /\ Kept /\ Numbered
  BY Parts
<1>a. /\ Playing(s) /\ Past(result, player) /\ c.edition = copy[s].edition
      /\ \A k \in Kinds \ {kind} : Of(k, c) = Of(k, copy[s])
      /\ Of(kind, copy[s]) = Of(kind, result) => Of(kind, c) = Of(kind, result)
      /\ copy' = [copy EXCEPT ![s] = c]
      /\ backward' = IF Older(result, s) THEN backward \cup {s} ELSE backward
      /\ UNCHANGED <<owner, player, pending, row, phase, updates, received, spoiled, meddled>>
  BY DEF Takes, Remember
<1>b. \A r \in Sessions : copy'[r] = IF r = s THEN c ELSE copy[r]
  BY <1>0, <1>a DEF Typed
<1>c. /\ StartSaves({kind}, c, Authenticated(s)) /\ Count(Mine(s, {kind})) /\ Replies
      /\ {kind} \in SUBSET Kinds /\ {kind} \subseteq {kind}
  BY DEF Takes
<1>d. /\ started' \in [Kinds -> Nat]
      /\ \A k \in Kinds : started'[k] = IF k \in Mine(s, {kind}) THEN started[k] + 1 ELSE started[k]
  BY <1>0, <1>c, Counted
<1>1. Typed'
  <2>1. copy' \in [Sessions -> Sound]
    BY <1>0, <1>a DEF Typed
  <2>2. saves' \subseteq Writes /\ IsFiniteSet(saves')
    BY <1>0, <1>c, StartedSaves, Authenticity
  <2>3. moving' \in [Sessions -> Commands] /\ spending' \in [Sessions -> Commands]
    BY <1>c DEF Replies
  <2> QED BY <1>0, <1>a, <1>d, <2>1, <2>2, <2>3 DEF Typed
<1>2. Editions'
  <2>1. PICK now : now = player' /\ now = player
    BY <1>a
  <2>2. \A r \in Sessions : PastAnswer(moving'[r], now) /\ PastAnswer(spending'[r], now)
    BY <1>0, <1>c, <2>1, PastAnswers
  <2>3. \A r \in Sessions : copy'[r].edition = copy[r].edition
    BY <1>a, <1>b
  <2> QED BY <1>0, <1>a, <2>1, <2>2, <2>3 DEF Editions
<1>3. Calm'
  <2>1. ASSUME NEW r \in Sessions, phase[r] \in {"new", "joining"}
        PROVE  /\ r \notin backward' /\ moving'[r] = Idle /\ spending'[r] = Idle
    BY <1>0, <1>a, <1>c, <2>1 DEF Calm, Playing, Replies
  <2>2. ASSUME NEW r \in Sessions, phase[r] \notin {"new", "joining"}, NEW k \in Kinds
        PROVE  started'[k] >= 1
    <3>1. started[k] >= 1 /\ started[k] \in Int
      BY <1>0, <2>2 DEF Calm, Typed
    <3> QED BY <1>d, <3>1
  <2> QED BY <1>0, <1>a, <2>1, <2>2 DEF Calm
<1>4. Shown'
  <2>1. SUFFICES ASSUME NEW r \in Sessions, owner = r, Playing(r), ~pending,
                        updates[r] = None, received[r] = None, r \notin backward'
                 PROVE  /\ copy'[r].edition = player.edition
                        /\ \A k \in Kinds : Of(k, copy'[r]) = Of(k, player)
    BY <1>0, <1>a DEF Shown, Playing
  <2>2. /\ copy[r].edition = player.edition
        /\ \A k \in Kinds : Of(k, copy[r]) = Of(k, player)
    BY <1>0, <1>a, <2>1 DEF Shown
  <2>3. CASE r # s
    BY <1>b, <2>2, <2>3
  <2>4. CASE r = s
    <3>1. ~(result.edition < copy[s].edition)
      BY <1>a, <2>1, <2>4 DEF Older
    <3>2. result.edition \in Int /\ player.edition \in Int
      BY <1>0, Strictly, SoundIsCharacter, Fields
    <3>3. result = player
      BY <1>a, <2>2, <2>4, <3>1, <3>2 DEF Past
    <3>4. \A k \in Kinds : Of(k, c) = Of(k, player)
      BY <1>a, <2>2, <2>4, <3>3
    <3> QED BY <1>a, <1>b, <2>2, <2>4, <3>4
  <2> QED BY <2>3, <2>4
<1>5. Numbered'
  <2>1. \A save \in saves' : save.n <= started'[save.kind]
    BY <1>0, <1>c, NumberedBySaving
  <2>2. \A r \in Sessions : copy'[r].edition = copy[r].edition
    BY <1>a, <1>b
  <2> QED BY <1>0, <1>a, <2>1, <2>2 DEF Numbered, Playing
<1>6. Kept'
  <2>1. SUFFICES ASSUME NEW r \in Sessions, owner = r, Playing(r), NEW k \in Kinds, KeptOf(k, r)
                 PROVE  KeptOf(k, r)'
    BY <1>0, <1>a DEF Kept, Playing
  <2>2. ASSUME NEW v, Announced(k, r, v) PROVE Announced(k, r, v)'
    BY <1>a, <2>2 DEF Announced
  <2>3. meddled'[k] = meddled[k]
    BY <1>a
  <2>4. CASE r # s
    <3>1. ~Authenticated(s)
      BY <2>1, <2>4 DEF Authenticated
    <3>2. Count({})
      BY <1>c, <2>1, <2>4, MineIs
    <3>3. started' = started
      BY <1>0, <3>2 DEF Count, Typed
    <3>4. spoiled' = spoiled /\ row' = row
      BY <1>a
    <3>5. OthersStart(k)
      BY <1>0, <1>c, <2>1, <3>1, <3>3, <3>4, StrangersSave
    <3>6. Of(k, copy'[r]) = Of(k, copy[r])
      BY <1>b, <2>4
    <3> QED BY <2>1, <2>2, <2>3, <3>5, <3>6, KeptStays
  <2>5. CASE r = s
    <3>1. Authenticated(s) = TRUE /\ Mine(s, {kind}) = {kind}
      BY <2>1, <2>5, Authenticity, MineIs
    <3>2. StartSaves({kind}, c, TRUE)
      BY <1>c, <3>1
    <3>3. CASE k = kind
      <4>1. started'[k] = started[k] + 1 /\ k \in {kind}
        BY <1>d, <3>1, <3>3
      <4>2. Latest(k, Of(k, c))'
        BY <1>0, <1>c, <3>2, <4>1, KeptBySaving
      <4>3. PICK v : v = Of(k, c)
        OBVIOUS
      <4>4. Latest(k, v)' /\ v = Of(k, copy'[r])
        BY <1>b, <2>5, <4>2, <4>3
      <4> QED BY <4>4 DEF KeptOf
    <3>4. CASE k # kind
      <4>1. /\ saves \subseteq saves'
            /\ \A save \in saves' : save \in saves \/ (save.kind \in {kind} /\ save.n = Number(save.kind, TRUE))
        BY <1>0, <1>c, <3>2, StartedSaves
      <4>2. started'[k] = started[k]
        BY <1>d, <3>1, <3>4
      <4>3. OthersStart(k)
        BY <1>a, <3>4, <4>1, <4>2 DEF OthersStart
      <4>4. Of(k, copy'[r]) = Of(k, copy[r])
        BY <1>a, <1>b, <2>5, <3>4
      <4> QED BY <2>1, <2>2, <2>3, <4>3, <4>4, KeptStays
    <3> QED BY <3>3, <3>4
  <2> QED BY <2>4, <2>5
<1> QED BY <1>1, <1>2, <1>3, <1>4, <1>5, <1>6 DEF SavesInv

LEMMA WorldSnapshotKeeps ==
  ASSUME SavesInv, NEW s \in Sessions, WorldSnapshot(s)
  PROVE  SavesInv'
<1>0. Typed /\ Editions /\ Calm /\ Shown /\ Kept /\ Numbered
  BY Parts
<1> DEFINE p == received[s]
           changed == Changed(s, p)
           seen == {k \in Kinds : meddled[k] # 0 /\ p.edition >= meddled[k]}
           undone == {k \in seen \ changed : p.edition > meddled[k]}
<1>a. /\ Playing(s) /\ p # None
      /\ copy' = [copy EXCEPT ![s] = p]
      /\ received' = [received EXCEPT ![s] = None]
      /\ backward' = backward \ {s}
      /\ meddled' = [k \in Kinds |-> IF k \in Mine(s, seen) THEN 0 ELSE meddled[k]]
      /\ spoiled' = spoiled \cup Mine(s, undone)
      /\ UNCHANGED <<owner, player, pending, row, phase, updates, moving, spending>>
  BY DEF WorldSnapshot
<1>c. /\ StartSaves(changed, p, Authenticated(s)) /\ Count(Mine(s, changed \cup undone))
      /\ changed \in SUBSET Kinds /\ changed \subseteq changed \cup undone
  BY DEF WorldSnapshot, Changed
<1>e. \A k \in Kinds : k \notin changed => Of(k, copy[s]) = Of(k, p)
  BY DEF Changed
<1>f. p \in Sound
  BY <1>0, <1>a DEF Typed
<1>g. /\ \A k \in Kinds : k \in seen <=> (meddled[k] # 0 /\ p.edition >= meddled[k])
      /\ \A k \in Kinds : k \in undone <=> (k \in seen /\ k \notin changed /\ p.edition > meddled[k])
  OBVIOUS
<1>h. p = received[s]
  OBVIOUS
<1> HIDE DEF p, changed, seen, undone
<1>b. \A r \in Sessions : /\ copy'[r] = IF r = s THEN p ELSE copy[r]
                          /\ received'[r] = IF r = s THEN None ELSE received[r]
  BY <1>0, <1>a DEF Typed
<1>d. /\ started' \in [Kinds -> Nat]
      /\ \A k \in Kinds : started'[k] = IF k \in Mine(s, changed \cup undone)
                                        THEN started[k] + 1 ELSE started[k]
  BY <1>0, <1>c, Counted
<1>i. \A k \in Kinds : meddled'[k] = IF k \in Mine(s, seen) THEN 0 ELSE meddled[k]
  BY <1>a
<1>1. Typed'
  <2>1. copy' \in [Sessions -> Sound] /\ received' \in [Sessions -> Sound \cup {None}]
    BY <1>0, <1>a, <1>f DEF Typed
  <2>2. saves' \subseteq Writes /\ IsFiniteSet(saves')
    BY <1>0, <1>c, <1>f, StartedSaves, Authenticity
  <2>3. meddled' \in [Kinds -> Nat]
    BY <1>0, <1>a DEF Typed
  <2> QED BY <1>0, <1>a, <1>d, <2>1, <2>2, <2>3 DEF Typed
<1>2. Editions'
  <2>1. PICK now : now = player' /\ now = player
    BY <1>a
  <2>2. \A r \in Sessions : copy'[r].edition <= player.edition
    BY <1>0, <1>a, <1>b, <1>h DEF Editions, Past
  <2>3. \A k \in Kinds : meddled'[k] <= player.edition
    BY <1>0, <1>i, Strictly
  <2> QED BY <1>0, <1>a, <1>b, <2>2, <2>3 DEF Editions
<1>3. Calm'
  <2>1. ASSUME NEW r \in Sessions, phase[r] \notin {"new", "joining"}, NEW k \in Kinds
        PROVE  started'[k] >= 1
    <3>1. started[k] >= 1 /\ started[k] \in Int
      BY <1>0, <2>1 DEF Calm, Typed
    <3> QED BY <1>d, <3>1
  <2> QED BY <1>0, <1>a, <1>b, <2>1 DEF Calm
<1>4. Shown'
  <2>1. SUFFICES ASSUME NEW r \in Sessions, owner = r, Playing(r), ~pending
                 PROVE  /\ updates[r] # None => updates[r] = player
                        /\ updates[r] = None /\ received'[r] # None => received'[r] = player
                        /\ updates[r] = None /\ received'[r] = None /\ r \notin backward' =>
                             /\ copy'[r].edition = player.edition
                             /\ \A k \in Kinds : Of(k, copy'[r]) = Of(k, player)
    BY <1>0, <1>a DEF Shown, Playing
  <2>2. CASE r # s
    BY <1>0, <1>a, <1>b, <2>1, <2>2 DEF Shown
  <2>3. CASE r = s
    <3>1. updates[r] # None => updates[r] = player
      BY <1>0, <2>1 DEF Shown
    <3>2. updates[r] = None => p = player
      BY <1>0, <1>a, <1>h, <2>1, <2>3 DEF Shown
    <3>3. copy'[r] = p /\ received'[r] = None
      BY <1>b, <2>3
    <3> QED BY <3>1, <3>2, <3>3
  <2> QED BY <2>2, <2>3
<1>5. Numbered'
  <2>1. \A save \in saves' : save.n <= started'[save.kind]
    BY <1>0, <1>c, <1>f, NumberedBySaving
  <2>2. ASSUME NEW r \in Sessions, owner = r, Playing(r), NEW k \in Kinds, meddled'[k] # 0
        PROVE  copy'[r].edition < meddled'[k]
    <3>1. CASE r # s
      BY <1>0, <1>b, <1>i, <2>2, <3>1, MineIs DEF Numbered
    <3>2. CASE r = s
      <4>1. k \notin seen /\ meddled'[k] = meddled[k]
        BY <1>i, <2>2, <3>2, MineIs
      <4>2. p.edition \in Int /\ meddled[k] \in Int
        BY <1>0, <1>f, Strictly, SoundIsCharacter, Fields
      <4>3. p.edition < meddled[k]
        BY <1>g, <2>2, <4>1, <4>2
      <4> QED BY <1>b, <3>2, <4>1, <4>3
    <3> QED BY <3>1, <3>2
  <2> QED BY <1>a, <2>1, <2>2 DEF Numbered, Playing
<1>6. Kept'
  <2>1. SUFFICES ASSUME NEW r \in Sessions, owner = r, Playing(r), NEW k \in Kinds, KeptOf(k, r)
                 PROVE  KeptOf(k, r)'
    BY <1>0, <1>a DEF Kept, Playing
  <2>2. None.edition # meddled[k]
    BY <1>0, NoneIsOlder DEF Typed
  <2>3. ASSUME meddled'[k] = meddled[k], NEW v, Announced(k, r, v) PROVE Announced(k, r, v)'
    BY <1>a, <1>b, <2>2, <2>3 DEF Announced
  <2>4. CASE r # s
    <3>1. ~Authenticated(s)
      BY <2>1, <2>4 DEF Authenticated
    <3>2. Count({})
      BY <1>c, <2>1, <2>4, MineIs
    <3>3. started' = started
      BY <1>0, <3>2 DEF Count, Typed
    <3>4. spoiled' = spoiled /\ row' = row
      BY <1>a, <2>1, <2>4, MineIs
    <3>5. OthersStart(k)
      BY <1>0, <1>c, <1>f, <2>1, <3>1, <3>3, <3>4, StrangersSave
    <3>6. Of(k, copy'[r]) = Of(k, copy[r]) /\ meddled'[k] = meddled[k]
      BY <1>b, <1>i, <2>1, <2>4, MineIs
    <3> QED BY <2>1, <2>3, <3>5, <3>6, KeptStays
  <2>5. CASE r = s
    <3>1. /\ Authenticated(s) = TRUE /\ Mine(s, changed \cup undone) = changed \cup undone
          /\ Mine(s, seen) = seen /\ Mine(s, undone) = undone
      BY <2>1, <2>5, Authenticity, MineIs
    <3>2. StartSaves(changed, p, TRUE)
      BY <1>c, <3>1
    <3>3. /\ saves \subseteq saves'
          /\ \A save \in saves' : save \in saves
               \/ (save.kind \in changed /\ save.n = Number(save.kind, TRUE))
      BY <1>0, <1>c, <1>f, <3>2, StartedSaves
    <3>4. copy'[r] = p
      BY <1>b, <2>5
    <3>5. CASE k \in changed
      <4>1. started'[k] = started[k] + 1
        BY <1>d, <3>1, <3>5
      <4>2. PICK shown \in Sound : shown = p
        BY <1>f
      <4>3. StartSaves(changed, shown, TRUE)
        BY <3>2, <4>2
      <4>4. Latest(k, Of(k, shown))'
        BY <1>0, <1>c, <3>5, <4>1, <4>3, KeptBySaving
      <4>5. PICK v : v = Of(k, shown)
        OBVIOUS
      <4>6. Latest(k, v)' /\ v = Of(k, copy'[r])
        BY <3>4, <4>2, <4>4, <4>5
      <4> QED BY <4>6 DEF KeptOf
    <3>6. CASE k \in undone
      <4>1. k \in spoiled' /\ started'[k] = started[k] + 1 /\ k \notin changed
        BY <1>a, <1>d, <1>g, <3>1, <3>6
      <4>2. \A save \in saves' : save.kind = k => save \in saves
        BY <3>3, <4>1
      <4>3. ASSUME NEW save \in saves', save.kind = k PROVE save.n # started'[k]
        <5>1. save.n \in Int /\ save.n <= started[k] /\ started[k] \in Int
          BY <1>0, <4>2, <4>3 DEF Numbered, Typed, Writes
        <5> QED BY <4>1, <5>1
      <4>4. PICK v : v = Of(k, p)
        OBVIOUS
      <4>5. Latest(k, v)' /\ v = Of(k, copy'[r])
        BY <3>4, <4>1, <4>3, <4>4 DEF Latest, IsNewest
      <4> QED BY <4>5 DEF KeptOf
    <3>7. CASE k \notin changed /\ k \notin undone
      <4>1. started'[k] = started[k]
        BY <1>d, <3>1, <3>7
      <4>2. OthersStart(k)
        BY <1>a, <3>3, <3>7, <4>1 DEF OthersStart
      <4>3. Of(k, copy'[r]) = Of(k, copy[r])
        BY <1>e, <2>5, <3>4, <3>7
      <4>4. CASE k \notin seen
        <5>1. meddled'[k] = meddled[k]
          BY <1>i, <3>1, <4>4
        <5> QED BY <2>1, <2>3, <4>2, <4>3, <5>1, KeptStays
      <4>5. CASE k \in seen
        <5>1. meddled[k] \in Int /\ p.edition \in Int
          BY <1>0, <1>f, Strictly, SoundIsCharacter, Fields
        <5>2. p.edition = meddled[k]
          BY <1>g, <3>7, <4>5, <5>1
        <5>3. Latest(k, Of(k, copy[r]))
          <6>1. CASE meddled[k] # 0 /\ \E v : Latest(k, v) /\ Announced(k, r, v)
            <7>1. PICK v : Latest(k, v) /\ Announced(k, r, v)
              BY <6>1
            <7>2. v = Of(k, p)
              BY <1>h, <2>5, <5>2, <7>1 DEF Announced
            <7>3. v = Of(k, copy[r])
              BY <1>e, <2>5, <3>7, <7>2
            <7> QED BY <7>1, <7>3
          <6> QED BY <2>1, <6>1 DEF KeptOf
        <5>4. PICK v : v = Of(k, copy[r])
          OBVIOUS
        <5>5. Latest(k, v)'
          BY <4>2, <5>3, <5>4, LatestStays
        <5>6. v = Of(k, copy'[r])
          BY <4>3, <5>4
        <5> QED BY <5>5, <5>6 DEF KeptOf
      <4> QED BY <4>4, <4>5
    <3> QED BY <3>5, <3>6, <3>7
  <2> QED BY <2>4, <2>5
<1> QED BY <1>1, <1>2, <1>3, <1>4, <1>5, <1>6 DEF SavesInv

-----------------------------------------------------------------------------
(* The repository. *)

(* Steps of saves change nothing but saves, the row and what is spoiled.   *)
LEMMA RepositoryKeeps ==
  ASSUME SavesInv, RowUntouched,
         saves' \subseteq Writes, IsFiniteSet(saves'), row' \in Sound, row'.edition = row.edition,
         \A save \in saves' : save.n <= started[save.kind],
         \A k \in Kinds : \A v : Latest(k, v) => Latest(k, v)'
  PROVE  SavesInv'
<1>0. Typed /\ Editions /\ Calm /\ Shown /\ Kept /\ Numbered
  BY Parts
<1>a. UNCHANGED <<owner, player, pending, phase, copy, updates, received, moving, spending,
                  started, meddled, backward>>
  BY DEF RowUntouched, sessionVars
<1>1. Typed'
  BY <1>0, <1>a DEF Typed
<1>2. Editions'
  BY <1>0, <1>a DEF Editions
<1>3. Calm'
  BY <1>0, <1>a DEF Calm
<1>4. Shown'
  BY <1>0, <1>a DEF Shown, Playing
<1>5. Numbered'
  BY <1>0, <1>a DEF Numbered, Playing
<1>6. Kept'
  <2>1. SUFFICES ASSUME NEW r \in Sessions, owner = r, Playing(r), NEW k \in Kinds, KeptOf(k, r)
                 PROVE  KeptOf(k, r)'
    BY <1>0, <1>a DEF Kept, Playing
  <2>2. CASE Latest(k, Of(k, copy[r]))
    <3>1. PICK v : v = Of(k, copy[r])
      OBVIOUS
    <3>2. Latest(k, v)' /\ v = Of(k, copy'[r])
      BY <1>a, <2>2, <3>1
    <3> QED BY <3>2 DEF KeptOf
  <2>3. CASE meddled[k] # 0 /\ \E v : Latest(k, v) /\ Announced(k, r, v)
    <3>1. PICK v : Latest(k, v) /\ Announced(k, r, v)
      BY <2>3
    <3>2. Latest(k, v)'
      BY <3>1
    <3>3. Announced(k, r, v)' /\ meddled'[k] # 0
      BY <1>a, <2>3, <3>1 DEF Announced
    <3> QED BY <3>2, <3>3 DEF KeptOf
  <2> QED BY <2>1, <2>2, <2>3 DEF KeptOf
<1> QED BY <1>1, <1>2, <1>3, <1>4, <1>5, <1>6 DEF SavesInv

LEMMA FindLocationKeeps ==
  ASSUME SavesInv, NEW save \in saves, FindLocation(save)
  PROVE  SavesInv'
<1>0. Typed /\ Numbered
  BY Parts
<1> DEFINE then == IF row.place = Nowhere THEN "insert" ELSE "update"
           found == [save EXCEPT !.step = then]
<1>1. /\ save \in Writes /\ save.kind = "position"
      /\ saves' = (saves \ {save}) \cup {found}
      /\ RowUntouched /\ row' = row /\ spoiled' = spoiled
  BY <1>0 DEF FindLocation, Typed
<1>2. then \in {"insert", "update"}
  OBVIOUS
<1> HIDE DEF then
<1>3. found \in Writes /\ found.kind = save.kind /\ found.n = save.n /\ found.p = save.p
  BY <1>1, <1>2 DEF Writes
<1> HIDE DEF found
<1>4. saves' \subseteq Writes
  BY <1>0, <1>1, <1>3 DEF Typed
<1>5. IsFiniteSet(saves')
  <2>1. IsFiniteSet(saves \ {save})
    BY <1>0, FS_RemoveElement DEF Typed
  <2> QED BY <1>1, <2>1, FS_AddElement
<1>6. \A other \in saves' : other.n <= started[other.kind]
  BY <1>0, <1>1, <1>3 DEF Numbered
<1>7. started' = started
  BY <1>1 DEF RowUntouched
<1>8. ASSUME NEW k \in Kinds, NEW v, Latest(k, v) PROVE Latest(k, v)'
  <2>1. ASSUME NEW other \in saves', IsNewest(other, k)' PROVE Of(k, other.p) = v
    BY <1>1, <1>3, <1>7, <1>8, <2>1 DEF Latest, IsNewest
  <2>2. ASSUME k \notin spoiled', \A other \in saves' : ~IsNewest(other, k)'
        PROVE  Of(k, row') = v
    <3>1. \A other \in saves : ~IsNewest(other, k)
      BY <1>1, <1>3, <1>7, <2>2 DEF IsNewest
    <3> QED BY <1>1, <1>8, <2>2, <3>1 DEF Latest
  <2> QED BY <2>1, <2>2 DEF Latest
<1>9. row' \in Sound /\ row'.edition = row.edition
  BY <1>0, <1>1 DEF Typed
<1> QED BY <1>1, <1>4, <1>5, <1>6, <1>8, <1>9, RepositoryKeeps

(* A save that ends, having written the row or not.                        *)
LEMMA Finished ==
  ASSUME Typed, Numbered, NEW save \in saves, Finish(save)
  PROVE  /\ saves' \subseteq Writes /\ IsFiniteSet(saves')
         /\ \A other \in saves' : other.n <= started[other.kind]
<1>1. saves' = saves \ {save}
  BY DEF Finish
<1>2. IsFiniteSet(saves')
  BY <1>1, FS_RemoveElement DEF Typed
<1> QED BY <1>1, <1>2 DEF Typed, Numbered

LEMMA WritingKeeps ==
  ASSUME SavesInv, NEW save \in saves, Writing(save)
  PROVE  SavesInv'
<1>0. Typed /\ Numbered
  BY Parts
<1>1. /\ row' \in Sound /\ row'.edition = row.edition
      /\ \A k \in Kinds : Of(k, row') = IF k = save.kind THEN Of(k, save.p) ELSE Of(k, row)
      /\ Wrote(save) /\ Finish(save) /\ RowUntouched
  BY DEF Writing
<1>2. /\ saves' \subseteq Writes /\ IsFiniteSet(saves')
      /\ \A other \in saves' : other.n <= started[other.kind]
  BY <1>0, <1>1, Finished
<1>3. started' = started /\ saves' = saves \ {save}
  BY <1>1 DEF RowUntouched, Finish
<1>4. spoiled' = IF save.n = started[save.kind] THEN spoiled \ {save.kind}
                 ELSE spoiled \cup {save.kind}
  BY <1>1 DEF Wrote, Newest
<1>5. ASSUME NEW k \in Kinds, NEW v, Latest(k, v) PROVE Latest(k, v)'
  <2>1. ASSUME NEW other \in saves', IsNewest(other, k)' PROVE Of(k, other.p) = v
    BY <1>3, <1>5, <2>1 DEF Latest, IsNewest
  <2>2. ASSUME k \notin spoiled', \A other \in saves' : ~IsNewest(other, k)'
        PROVE  Of(k, row') = v
    <3>1. CASE k = save.kind
      <4>1. save.n = started[k]
        BY <1>4, <2>2, <3>1
      <4>2. Of(k, save.p) = v
        BY <1>5, <3>1, <4>1 DEF Latest, IsNewest
      <4> QED BY <1>1, <3>1, <4>2
    <3>2. CASE k # save.kind
      <4>1. \A other \in saves : ~IsNewest(other, k)
        BY <1>3, <2>2, <3>2 DEF IsNewest
      <4>2. k \notin spoiled
        BY <1>4, <2>2, <3>2
      <4>3. Of(k, row) = v
        BY <1>5, <4>1, <4>2 DEF Latest
      <4> QED BY <1>1, <3>2, <4>3
    <3> QED BY <3>1, <3>2
  <2> QED BY <2>1, <2>2 DEF Latest
<1> QED BY <1>1, <1>2, <1>5, RepositoryKeeps

LEMMA FailKeeps ==
  ASSUME SavesInv, NEW save \in saves, Fail(save)
  PROVE  SavesInv'
<1>0. Typed /\ Numbered
  BY Parts
<1>1. Finish(save) /\ RowUntouched /\ row' = row
  BY DEF Fail
<1>2. /\ saves' \subseteq Writes /\ IsFiniteSet(saves')
      /\ \A other \in saves' : other.n <= started[other.kind]
  BY <1>0, <1>1, Finished
<1>3. started' = started /\ saves' = saves \ {save}
  BY <1>1 DEF RowUntouched, Finish
<1>4. spoiled' = IF save.n = started[save.kind] THEN spoiled \cup {save.kind} ELSE spoiled
  BY DEF Fail, Newest
<1>5. ASSUME NEW k \in Kinds, NEW v, Latest(k, v) PROVE Latest(k, v)'
  <2>1. ASSUME NEW other \in saves', IsNewest(other, k)' PROVE Of(k, other.p) = v
    BY <1>3, <1>5, <2>1 DEF Latest, IsNewest
  <2>2. ASSUME k \notin spoiled', \A other \in saves' : ~IsNewest(other, k)'
        PROVE  Of(k, row') = v
    <3>1. ~IsNewest(save, k)
      BY <1>4, <2>2 DEF IsNewest
    <3>2. \A other \in saves : ~IsNewest(other, k)
      BY <1>3, <2>2, <3>1 DEF IsNewest
    <3>3. k \notin spoiled
      BY <1>4, <2>2
    <3> QED BY <1>1, <1>5, <3>2, <3>3 DEF Latest
  <2> QED BY <2>1, <2>2 DEF Latest
<1>6. row' \in Sound /\ row'.edition = row.edition
  BY <1>0, <1>1 DEF Typed
<1> QED BY <1>1, <1>2, <1>5, <1>6, RepositoryKeeps

-----------------------------------------------------------------------------
(* The theorems. *)

LEMMA InitSaves ==
  ASSUME Init
  PROVE  SavesInv
<1>1. scene.row \in Sound
  BY ScenesAssumption DEF Init, Sound
<1>2. /\ owner = NoSession /\ row \in Sound /\ player = row /\ pending = FALSE
      /\ phase = [s \in Sessions |-> "new"] /\ copy = [s \in Sessions |-> Newborn]
      /\ updates = [s \in Sessions |-> None] /\ received = [s \in Sessions |-> None]
      /\ moving = [s \in Sessions |-> Idle] /\ spending = [s \in Sessions |-> Idle]
      /\ saves = {} /\ backward = {}
      /\ started = [k \in Kinds |-> 0] /\ meddled = [k \in Kinds |-> 0]
  BY <1>1 DEF Init
<1>3. Typed
  <2>1. Newborn \in Sound /\ Idle \in Commands /\ "new" \in Phases
    BY NewbornSound, IdleIs DEF Phases
  <2>2. IsFiniteSet({})
    BY FS_EmptySet
  <2>3. /\ phase \in [Sessions -> Phases] /\ copy \in [Sessions -> Sound]
        /\ updates \in [Sessions -> Sound \cup {None}]
        /\ received \in [Sessions -> Sound \cup {None}]
        /\ moving \in [Sessions -> Commands] /\ spending \in [Sessions -> Commands]
        /\ started \in [Kinds -> Nat] /\ meddled \in [Kinds -> Nat]
    BY <1>2, <2>1
  <2> QED BY <1>2, <2>2, <2>3 DEF Typed
<1>4. Editions
  <2>1. player.edition \in Int /\ player.edition >= 0 /\ Newborn.edition = 0
    BY <1>2, SoundIsCharacter, Fields DEF Newborn
  <2>2. \A s \in Sessions : PastAnswer(moving[s], player) /\ PastAnswer(spending[s], player)
    BY <1>2, IdleIs DEF PastAnswer
  <2> QED BY <1>2, <2>1, <2>2 DEF Editions
<1>5. Calm
  <2>1. NoSession \notin Sessions
    BY NamesAssumption
  <2> QED BY <1>2, <2>1 DEF Calm
<1>6. Shown /\ Kept /\ Numbered
  <2>1. NoSession \notin Sessions
    BY NamesAssumption
  <2> QED BY <1>2, <2>1 DEF Shown, Kept, Numbered
<1> QED BY <1>3, <1>4, <1>5, <1>6 DEF SavesInv

LEMMA TurnKeeps ==
  ASSUME SavesInv, \E q \in Sound : Turn(q)
  PROVE  SavesInv'
<1>1. PICK q \in Sound : Turn(q)
  OBVIOUS
<1>2. Typed /\ Editions /\ Calm /\ Numbered
  BY Parts
<1>3. Typed' /\ Editions'
  BY <1>1, <1>2, TurnKeepsTyped, TurnKeepsEditions
<1>4. Calm' /\ Shown' /\ Numbered'
  BY <1>1, <1>2, TurnKeepsRest
<1>5. Kept'
  BY <1>1, TurnKeepsKept
<1> QED BY <1>3, <1>4, <1>5 DEF SavesInv

LEMMA StutterKeeps ==
  ASSUME SavesInv, UNCHANGED vars
  PROVE  SavesInv'
<1>1. Typed
  BY Parts
<1>2. Replies
  BY <1>1, NoCommand DEF vars, sessionVars
<1>3. Talk
  BY <1>2 DEF Talk, vars, sessionVars, historyVars
<1> QED BY <1>3, TalkKeeps

LEMMA SessionKeeps ==
  ASSUME SavesInv, NEW s \in Sessions,
         \/ Load(s) \/ Join(s) \/ Quit(s) \/ Leave(s)
         \/ Press(s) \/ Move(s) \/ PlayerMoved(s)
         \/ PressSkill(s) \/ SpendSkillPoint(s) \/ SkillSpent(s)
         \/ WaitForSnapshot(s) \/ WorldSnapshot(s)
  PROVE  SavesInv'
<1>0. Typed /\ Editions /\ Calm
  BY Parts
<1>1. CASE Load(s)
  BY <1>1, LoadKeeps
<1>2. CASE Join(s)
  BY <1>2, JoinKeeps
<1>3. CASE Quit(s) \/ Leave(s)
  BY <1>3, QuitKeeps
<1>4. CASE Press(s) \/ PressSkill(s)
  BY <1>0, <1>4, PressTalks, PressSkillTalks, TalkKeeps
<1>5. CASE Move(s)
  BY <1>0, <1>5, MoveTurnsOrTalks, TurnKeeps, TalkKeeps
<1>6. CASE SpendSkillPoint(s)
  BY <1>0, <1>6, SpendTurnsOrTalks, TurnKeeps, TalkKeeps
<1>7. CASE PlayerMoved(s)
  BY <1>0, <1>7, PlayerMovedTakes, TakesKeeps, TalkKeeps
<1>8. CASE SkillSpent(s)
  BY <1>0, <1>8, SkillSpentTakes, TakesKeeps, TalkKeeps
<1>9. CASE WaitForSnapshot(s)
  BY <1>9, WaitForSnapshotKeeps
<1>10. CASE WorldSnapshot(s)
  BY <1>10, WorldSnapshotKeeps
<1> QED BY <1>1, <1>2, <1>3, <1>4, <1>5, <1>6, <1>7, <1>8, <1>9, <1>10

LEMMA WorldKeeps ==
  ASSUME SavesInv, Fight \/ Die \/ GiveExperience \/ GiveLevels \/ Teleport
  PROVE  SavesInv'
<1>0. Typed
  BY Parts
<1>1. \E q \in Sound : Turn(q)
  BY <1>0, FightTurns, DieTurns, GiveExperienceTurns, GiveLevelsTurns, TeleportTurns
<1> QED BY <1>1, TurnKeeps

LEMMA SaveKeeps ==
  ASSUME SavesInv, NEW save \in saves,
         FindLocation(save) \/ UpdateLocation(save) \/ UpdateProgress(save) \/ Fail(save)
  PROVE  SavesInv'
<1>0. Typed
  BY Parts
<1>1. CASE FindLocation(save)
  BY <1>1, FindLocationKeeps
<1>2. CASE UpdateLocation(save) \/ UpdateProgress(save)
  BY <1>0, <1>2, UpdatesWrite, WritingKeeps
<1>3. CASE Fail(save)
  BY <1>3, FailKeeps
<1> QED BY <1>1, <1>2, <1>3

LEMMA NextKeeps ==
  ASSUME SavesInv, Next
  PROVE  SavesInv'
<1>1. CASE \E s \in Sessions :
             \/ Load(s) \/ Join(s) \/ Quit(s) \/ Leave(s)
             \/ Press(s) \/ Move(s) \/ PlayerMoved(s)
             \/ PressSkill(s) \/ SpendSkillPoint(s) \/ SkillSpent(s)
             \/ WaitForSnapshot(s) \/ WorldSnapshot(s)
  BY <1>1, SessionKeeps
<1>2. CASE Fight \/ Die \/ GiveExperience \/ GiveLevels \/ Teleport
  BY <1>2, WorldKeeps
<1>3. CASE BroadcastPending
  BY <1>3, BroadcastPendingKeeps
<1>4. CASE \E save \in saves :
             FindLocation(save) \/ UpdateLocation(save) \/ UpdateProgress(save) \/ Fail(save)
  BY <1>4, SaveKeeps
<1> QED BY <1>1, <1>2, <1>3, <1>4 DEF Next

(* The invariant of everything that is saved.                              *)
THEOREM SavesInvariant == Spec => []SavesInv
<1>1. Init => SavesInv
  BY InitSaves
<1>2. SavesInv /\ [Next]_vars => SavesInv'
  BY NextKeeps, StutterKeeps
<1> QED BY <1>1, <1>2, PTL DEF Spec

(* A session that has nothing left to wait for shows the world's player,   *)
(* and the rows hold it (updateWorldSnapshot, savePosition, saveProgress). *)
THEOREM AlwaysSavedUnlessOvertaken == Spec => []SavedUnlessOvertaken
<1>1. SavesInv => SavedUnlessOvertaken
  <2>1. SUFFICES ASSUME SavesInv, NEW s \in Sessions, owner = s, Playing(s), Settled(s),
                        s \notin backward, NEW k \in Kinds
                 PROVE  /\ Of(k, copy[s]) = Of(k, player)
                        /\ k \notin spoiled => Of(k, row) = Of(k, player)
    BY DEF SavedUnlessOvertaken, Authenticated
  <2>2. Typed /\ Editions /\ Shown /\ Kept /\ Numbered
    BY <2>1, Parts
  <2>3. copy[s].edition = player.edition /\ Of(k, copy[s]) = Of(k, player)
    BY <2>1, <2>2 DEF Shown, Settled
  <2>4. ~(meddled[k] # 0)
    <3>1. meddled[k] \in Int /\ meddled[k] <= player.edition /\ player.edition \in Int
      BY <2>2, Strictly
    <3>2. meddled[k] # 0 => copy[s].edition < meddled[k]
      BY <2>1, <2>2 DEF Numbered
    <3> QED BY <2>3, <3>1, <3>2
  <2>5. Latest(k, Of(k, copy[s]))
    BY <2>1, <2>2, <2>4 DEF Kept, KeptOf
  <2>6. k \notin spoiled => Of(k, row) = Of(k, copy[s])
    BY <2>1, <2>5 DEF Latest, Settled
  <2> QED BY <2>3, <2>6
<1> QED BY <1>1, SavesInvariant, PTL

(* Points and ranks add up to levels wherever a player is (grantExperience, *)
(* grantLevels, spendSkillPoint, UpdateProgress).                           *)
THEOREM PointsAlwaysAddUp == Spec => []PointsAddUp
<1>1. SavesInv => PointsAddUp
  <2>1. SUFFICES ASSUME SavesInv, NEW p \in {player, row} \cup {copy[s] : s \in Sessions}
                 PROVE  AddsUp(p)
    BY DEF PointsAddUp
  <2>2. p \in Sound
    BY <2>1 DEF SavesInv, Typed
  <2> QED BY <2>2, SoundIsCharacter
<1> QED BY <1>1, SavesInvariant, PTL
=============================================================================
