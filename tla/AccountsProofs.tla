---------------------------- MODULE AccountsProofs ----------------------------
(***************************************************************************)
(* Bans, roles and the closed door, for any keys, connections and numbers  *)
(* of commands.                                                            *)
(*                                                                         *)
(* What is in the world comes from what a connection read long before, so  *)
(* no property about the world is inductive: each needs to say what is     *)
(* true of a connection between its reading and its joining.  Shape says   *)
(* which connections hold a character at all, and the rows they belong to; *)
(* Bans, Promotions and Door say of which connections the copy is good.    *)
(***************************************************************************)
EXTENDS Accounts, TLAPS

InProgram == {"joining", "playing", "leaving", "gone"}

(* How a connection's stage, goroutine and waiting message go together.    *)
ShapeOf(c) ==
  /\ stage[c] \in {"new", "read", "loading"} => task[c] = "none" /\ message[c] = "none"
  /\ stage[c] = "loading" => copy[c] # NoAccount
  /\ task[c] = "create" => stage[c] \in {"naming", "gone"} /\ message[c] = "none"
  /\ task[c] = "join" => /\ stage[c] \in {"joining", "gone"}
                         /\ message[c] = "none"
                         /\ copy[c] # NoAccount
  /\ message[c] \in {"created", "exists", "failed"} => stage[c] = "naming"
  /\ message[c] # "none" => task[c] = "none"
  /\ message[c] = "created" => copy[c] # NoAccount
  /\ message[c] = "joined" => stage[c] = "joining"
  /\ message[c] = "exists" \/ copy[c] # NoAccount => Exists(KeyOf[c])

PlayerShape(k) ==
  Online(k) => /\ KeyOf[live[k].by] = k
               /\ Exists(k)
               /\ stage[live[k].by] \in InProgram
               /\ task[live[k].by] # "create"

CommandShape(h) ==
  At(h, "ban", "act") \/ At(h, "promote", "act") => Exists(Target(h))

Shape ==
  /\ \A c \in Connections : ShapeOf(c)
  /\ \A k \in Keys : PlayerShape(k)
  /\ \A h \in Commands : CommandShape(h)

(* A sentenced key has a banned row, and only who read it early still has  *)
(* a way into the world.                                                   *)
SentencedRow(k) == k \in sentenced => Exists(k) /\ account[k].banned

EarlyOnly(c) ==
  KeyOf[c] \in sentenced =>
    /\ stage[c] = "read" /\ copy[c] # NoAccount => c \in early \/ copy[c].banned
    /\ stage[c] = "loading" \/ task[c] = "join" \/ message[c] = "created"
         => c \in early

Bans ==
  /\ \A k \in Keys : SentencedRow(k)
  /\ \A c \in Connections : EarlyOnly(c)
  /\ BansHold

(* A copy that is going to join has the stored role, and so has a promotion *)
(* that is about to be told to the world.                                  *)
CopyAgrees(c) ==
  Holding(c) => c \in behind \/ copy[c].role = account[KeyOf[c]].role

PromotionAgrees(h) ==
  At(h, "promote", "act") =>
    Target(h) \in crossed \/ command[h].order.role = account[Target(h)].role

Promotions ==
  /\ \A c \in Connections : CopyAgrees(c)
  /\ \A h \in Commands : PromotionAgrees(h)
  /\ RolesAgree

(* Who came while the door was closed has no way to a new character, and   *)
(* joins as staff.                                                         *)
StaffOnly(c) ==
  c \in since =>
    /\ stage[c] \notin {"new", "naming"}
    /\ task[c] # "create"
    /\ stage[c] = "loading" \/ task[c] = "join" => copy[c].role \in Staff

Door ==
  /\ maintenance \/ since = {}
  /\ \A c \in Connections : StaffOnly(c)
  /\ MaintenanceAdmitsStaffOnly

TypedShape == TypeOK /\ Shape

LEMMA Values ==
  /\ NoAccount \notin Account
  /\ NewAccount \in Account
  /\ \A c \in Connections, r \in Roles : Session(c, r) # Nobody
BY DEF NoAccount, NewAccount, Account, Roles, Staff, Session, Nobody

(* A command that is being carried out has an order, with a target unless  *)
(* it is about maintenance.                                                *)
LEMMA Ordered ==
  ASSUME TypeOK, NEW h \in Commands, NEW kind, NEW step \in Steps, At(h, kind, step)
  PROVE  /\ command[h] \in [step : Steps, order : Orders, by : Staff]
         /\ kind \in {"kick", "ban", "unban", "promote"} => Target(h) \in Keys
         /\ kind = "promote" => command[h].order.role \in Staff
<1>1. command[h] \in [step : Steps, order : Orders, by : Staff]
  BY DEF TypeOK, At, Steps, Command, NotGiven, Over
<1> QED
  BY <1>1 DEF At, Orders, Target

LEMMA Records ==
  /\ \A row \in Account : row.role \in Roles /\ row.banned \in BOOLEAN
  /\ \A role \in Roles, banned \in BOOLEAN :
       [role |-> role, banned |-> banned] \in Account
  /\ \A player \in [by : Connections, role : Roles] :
       player.by \in Connections /\ player.role \in Roles /\ player # Nobody
  /\ \A c \in Connections, r \in Roles :
       Session(c, r) \in [by : Connections, role : Roles]
  /\ Staff \subseteq Roles
<1>1. \A player \in [by : Connections, role : Roles] : player # Nobody
  BY DEF Nobody
<1> QED
  BY <1>1 DEF Account, Roles, Session

LEMMA RowTyped ==
  ASSUME TypeOK, NEW k \in Keys, Exists(k)
  PROVE  /\ WithBan(k, TRUE) \in Account /\ WithBan(k, FALSE) \in Account
         /\ \A role \in Staff : WithRole(k, role) \in Account
<1>1. account[k] \in Account
  BY DEF TypeOK, Exists
<1> QED
  BY <1>1, Records DEF WithBan, WithRole

LEMMA CommandTyped ==
  ASSUME TypeOK, NEW h \in Commands, NEW kind, NEW step \in Steps, At(h, kind, step)
  PROVE  /\ Finish(h) => command' \in [Commands -> Command]
         /\ \A next \in Steps : Continue(h, next) => command' \in [Commands -> Command]
<1>1. /\ command[h].order \in Orders
      /\ command[h].by \in Staff
  BY Ordered
<1> QED
  BY <1>1 DEF TypeOK, Finish, Continue, Command

LEMMA InitTypedShape == Init => TypedShape
<1> SUFFICES ASSUME Init PROVE TypedShape
  OBVIOUS
<1>1. TypeOK
  BY FirstAccountsAssumption DEF Init, TypeOK, Stages, Tasks, Messages, Command
<1>2. ASSUME NEW c \in Connections PROVE ShapeOf(c)
  BY <1>2 DEF Init, ShapeOf
<1>3. ASSUME NEW k \in Keys PROVE PlayerShape(k)
  BY <1>3 DEF Init, PlayerShape, Online
<1>4. ASSUME NEW h \in Commands PROVE CommandShape(h)
  BY <1>4 DEF Init, CommandShape, At, NotGiven
<1> QED
  BY <1>1, <1>2, <1>3, <1>4 DEF TypedShape, Shape

LEMMA TypeStep == TypedShape /\ [Next]_vars => TypeOK'
<1> SUFFICES ASSUME TypedShape, [Next]_vars
             PROVE  TypeOK'
  OBVIOUS
<1> USE KeyOfAssumption, Values
<1> USE DEF TypedShape, TypeOK, vars, connectionVars, historyVars
<1>1. ASSUME NEW c \in Connections, Read(c) PROVE TypeOK'
  BY <1>1 DEF Read, End, Stages, Messages
<1>2. ASSUME NEW c \in Connections, Admit(c) PROVE TypeOK'
  BY <1>2 DEF Admit, End, Stages, Messages
<1>3. ASSUME NEW c \in Connections, Load(c) PROVE TypeOK'
  BY <1>3 DEF Load, End, Stages, Tasks, Messages
<1>4. ASSUME NEW c \in Connections, SubmitName(c) PROVE TypeOK'
  BY <1>4 DEF SubmitName, Tasks
<1>5. ASSUME NEW c \in Connections, Create(c) PROVE TypeOK'
  BY <1>5 DEF Create, Exists, Tasks, Messages
<1>6. ASSUME NEW c \in Connections, Created(c) PROVE TypeOK'
  BY <1>6 DEF Created, StartJoin, End, Stages, Tasks, Messages
<1>7. ASSUME NEW c \in Connections, Join(c) PROVE TypeOK'
  BY <1>7, Records DEF Join, Shape, ShapeOf, Tasks, Messages
<1>8. ASSUME NEW c \in Connections, Joined(c) PROVE TypeOK'
  BY <1>8 DEF Joined, Stages, Messages
<1>9. ASSUME NEW c \in Connections, Quit(c) PROVE TypeOK'
  BY <1>9 DEF Quit, End, Stages, Messages
<1>10. ASSUME NEW c \in Connections, Leave(c) PROVE TypeOK'
  BY <1>10 DEF Leave, End, Stages, Messages
<1>11. ASSUME NEW c \in Connections, Notice(c) PROVE TypeOK'
  BY <1>11 DEF Notice, Stages
<1>12. ASSUME NEW h \in Commands, NEW order \in Orders, NEW by \in Staff, Begin(h, order, by)
      PROVE  TypeOK'
  BY <1>12 DEF Begin, FirstStep, Steps, Command
<1>13. ASSUME NEW h \in Commands, LookToKick(h) PROVE TypeOK'
  BY <1>13, Ordered, CommandTyped DEF LookToKick, Steps
<1>14. ASSUME NEW h \in Commands, Kick(h) PROVE TypeOK'
  BY <1>14, Ordered, CommandTyped DEF Kick, Steps, Removed
<1>15. ASSUME NEW h \in Commands, StoreBan(h) PROVE TypeOK'
  <2>1. /\ Target(h) \in Keys
        /\ command' \in [Commands -> Command]
    BY <1>15, Ordered, CommandTyped DEF StoreBan, Steps
  <2>2. account' \in [Keys -> Account \cup {NoAccount}]
    <3>1. CASE /\ Exists(Target(h))
               /\ account' = [account EXCEPT ![Target(h)] = WithBan(Target(h), TRUE)]
      BY <2>1, <3>1, <1>15, RowTyped DEF StoreBan, Steps
    <3>2. CASE UNCHANGED account
      BY <3>2
    <3> QED
      BY <1>15, <3>1, <3>2 DEF StoreBan
  <2> QED
    BY <1>15, <2>1, <2>2 DEF StoreBan
<1>16. ASSUME NEW h \in Commands, KickBanned(h) PROVE TypeOK'
  BY <1>16, Ordered, CommandTyped DEF KickBanned, Steps, Removed, HoldingFor
<1>17. ASSUME NEW h \in Commands, StoreUnban(h) PROVE TypeOK'
  <2>1. /\ Target(h) \in Keys
        /\ command' \in [Commands -> Command]
    BY <1>17, Ordered, CommandTyped DEF StoreUnban, Steps
  <2>2. account' \in [Keys -> Account \cup {NoAccount}]
    <3>1. CASE /\ Exists(Target(h))
               /\ account' = [account EXCEPT ![Target(h)] = WithBan(Target(h), FALSE)]
      BY <2>1, <3>1, <1>17, RowTyped DEF StoreUnban, Steps
    <3>2. CASE UNCHANGED account
      BY <3>2
    <3> QED
      BY <1>17, <3>1, <3>2 DEF StoreUnban
  <2> QED
    BY <1>17, <2>1, <2>2 DEF StoreUnban
<1>18. ASSUME NEW h \in Commands, LookToPromote(h) PROVE TypeOK'
  BY <1>18, Ordered, CommandTyped DEF LookToPromote, Steps
<1>19. ASSUME NEW h \in Commands, StoreRole(h) PROVE TypeOK'
  <2>1. /\ Target(h) \in Keys
        /\ command' \in [Commands -> Command]
    BY <1>19, Ordered, CommandTyped DEF StoreRole, Steps, RoleNotStored
  <2>2. account' \in [Keys -> Account \cup {NoAccount}]
    <3>1. CASE /\ Exists(Target(h))
               /\ account' = [account EXCEPT ![Target(h)] = WithRole(Target(h), command[h].order.role)]
      BY <2>1, <3>1, <1>19, RowTyped, Ordered DEF StoreRole, Steps
    <3>2. CASE UNCHANGED account
      BY <3>2
    <3> QED
      BY <1>19, <3>1, <3>2 DEF StoreRole
  <2> QED
    BY <1>19, <2>1, <2>2 DEF StoreRole, HoldingFor
<1>20. ASSUME NEW h \in Commands, SetPlayerRole(h) PROVE TypeOK'
  BY <1>20, Records, Ordered, CommandTyped DEF SetPlayerRole, Steps, Online
<1>21. ASSUME NEW h \in Commands, SetMaintenance(h) PROVE TypeOK'
  BY <1>21, Ordered, CommandTyped DEF SetMaintenance, Steps, At
<1>22. CASE UNCHANGED vars
  BY <1>22
<1> QED
  BY <1>1, <1>2, <1>3, <1>4, <1>5, <1>6, <1>7, <1>8, <1>9, <1>10, <1>11, <1>12, <1>13, <1>14, <1>15, <1>16, <1>17, <1>18, <1>19, <1>20, <1>21, <1>22
  DEF Next, Connecting, Naming, Playing, Given, Carried, Console, Chat, InWorld, Online, Staff

LEMMA RowsStay ==
  ASSUME TypeOK, NEW target \in Keys, NEW row \in Account,
         account' = [account EXCEPT ![target] = row],
         NEW k \in Keys, Exists(k)
  PROVE  Exists(k)'
BY Values DEF TypeOK, Exists

LEMMA ShapeStep == TypedShape /\ TypeOK' /\ [Next]_vars => Shape'
<1> SUFFICES ASSUME TypedShape, TypeOK', [Next]_vars
             PROVE  Shape'
  OBVIOUS
<1> USE KeyOfAssumption, Values
<1> USE DEF TypedShape, TypeOK, vars, connectionVars, historyVars, Shape
<1>1. ASSUME NEW c \in Connections, Read(c) PROVE Shape'
  <2>1. ASSUME NEW d \in Connections PROVE ShapeOf(d)'
    BY <1>1 DEF Read, End, ShapeOf, Exists
  <2>2. ASSUME NEW k \in Keys PROVE PlayerShape(k)'
    BY <1>1 DEF Read, End, ShapeOf, PlayerShape, Online, Exists, InProgram
  <2>3. ASSUME NEW h \in Commands PROVE CommandShape(h)'
    BY <1>1 DEF Read, End, CommandShape, At, Target, Exists
  <2> QED
    BY <2>1, <2>2, <2>3
<1>2. ASSUME NEW c \in Connections, Admit(c) PROVE Shape'
  <2>1. ASSUME NEW d \in Connections PROVE ShapeOf(d)'
    BY <1>2 DEF Admit, End, IsNew, ShapeOf, Exists
  <2>2. ASSUME NEW k \in Keys PROVE PlayerShape(k)'
    BY <1>2 DEF Admit, End, IsNew, ShapeOf, PlayerShape, Online, Exists, InProgram
  <2>3. ASSUME NEW h \in Commands PROVE CommandShape(h)'
    BY <1>2 DEF Admit, End, IsNew, CommandShape, At, Target, Exists
  <2> QED
    BY <2>1, <2>2, <2>3
<1>3. ASSUME NEW c \in Connections, Load(c) PROVE Shape'
  <2>1. ASSUME NEW d \in Connections PROVE ShapeOf(d)'
    BY <1>3 DEF Load, End, ShapeOf, Exists
  <2>2. ASSUME NEW k \in Keys PROVE PlayerShape(k)'
    BY <1>3 DEF Load, End, ShapeOf, PlayerShape, Online, Exists, InProgram
  <2>3. ASSUME NEW h \in Commands PROVE CommandShape(h)'
    BY <1>3 DEF Load, End, CommandShape, At, Target, Exists
  <2> QED
    BY <2>1, <2>2, <2>3
<1>4. ASSUME NEW c \in Connections, SubmitName(c) PROVE Shape'
  <2>1. ASSUME NEW d \in Connections PROVE ShapeOf(d)'
    BY <1>4 DEF SubmitName, ShapeOf, Exists
  <2>2. ASSUME NEW k \in Keys PROVE PlayerShape(k)'
    BY <1>4 DEF SubmitName, ShapeOf, PlayerShape, Online, Exists, InProgram
  <2>3. ASSUME NEW h \in Commands PROVE CommandShape(h)'
    BY <1>4 DEF SubmitName, CommandShape, At, Target, Exists
  <2> QED
    BY <2>1, <2>2, <2>3
<1>5. ASSUME NEW c \in Connections, Create(c) PROVE Shape'
  <2>1. ASSUME NEW d \in Connections PROVE ShapeOf(d)'
    BY <1>5 DEF Create, Exists, ShapeOf, Exists
  <2>2. ASSUME NEW k \in Keys PROVE PlayerShape(k)'
    BY <1>5 DEF Create, Exists, ShapeOf, PlayerShape, Online, Exists, InProgram
  <2>3. ASSUME NEW k \in Keys, Exists(k) PROVE Exists(k)'
    BY <1>5, <2>3 DEF Create, Exists
  <2>4. ASSUME NEW h \in Commands PROVE CommandShape(h)'
    BY <1>5, <2>3, Ordered DEF Create, CommandShape, At, Target, Steps
  <2> QED
    BY <2>1, <2>2, <2>4
<1>6. ASSUME NEW c \in Connections, Created(c) PROVE Shape'
  <2>1. ASSUME NEW d \in Connections PROVE ShapeOf(d)'
    BY <1>6 DEF Created, StartJoin, End, Banned, ShapeOf, Exists
  <2>2. ASSUME NEW k \in Keys PROVE PlayerShape(k)'
    BY <1>6 DEF Created, StartJoin, End, Banned, ShapeOf, PlayerShape, Online, Exists, InProgram
  <2>3. ASSUME NEW h \in Commands PROVE CommandShape(h)'
    BY <1>6 DEF Created, StartJoin, End, Banned, CommandShape, At, Target, Exists
  <2> QED
    BY <2>1, <2>2, <2>3
<1>7. ASSUME NEW c \in Connections, Join(c) PROVE Shape'
  <2>1. ASSUME NEW d \in Connections PROVE ShapeOf(d)'
    BY <1>7 DEF Join, Session, ShapeOf, Exists
  <2>2. ASSUME NEW k \in Keys PROVE PlayerShape(k)'
    BY <1>7 DEF Join, Session, ShapeOf, PlayerShape, Online, Exists, InProgram
  <2>3. ASSUME NEW h \in Commands PROVE CommandShape(h)'
    BY <1>7 DEF Join, Session, CommandShape, At, Target, Exists
  <2> QED
    BY <2>1, <2>2, <2>3
<1>8. ASSUME NEW c \in Connections, Joined(c) PROVE Shape'
  <2>1. ASSUME NEW d \in Connections PROVE ShapeOf(d)'
    BY <1>8 DEF Joined, ShapeOf, Exists
  <2>2. ASSUME NEW k \in Keys PROVE PlayerShape(k)'
    BY <1>8 DEF Joined, ShapeOf, PlayerShape, Online, Exists, InProgram
  <2>3. ASSUME NEW h \in Commands PROVE CommandShape(h)'
    BY <1>8 DEF Joined, CommandShape, At, Target, Exists
  <2> QED
    BY <2>1, <2>2, <2>3
<1>9. ASSUME NEW c \in Connections, Quit(c) PROVE Shape'
  <2>1. ASSUME NEW d \in Connections PROVE ShapeOf(d)'
    BY <1>9 DEF Quit, End, ShapeOf, Exists
  <2>2. ASSUME NEW k \in Keys PROVE PlayerShape(k)'
    BY <1>9 DEF Quit, End, ShapeOf, PlayerShape, Online, Exists, InProgram
  <2>3. ASSUME NEW h \in Commands PROVE CommandShape(h)'
    BY <1>9 DEF Quit, End, CommandShape, At, Target, Exists
  <2> QED
    BY <2>1, <2>2, <2>3
<1>10. ASSUME NEW c \in Connections, Leave(c) PROVE Shape'
  <2>1. ASSUME NEW d \in Connections PROVE ShapeOf(d)'
    BY <1>10 DEF Leave, End, InWorld, ShapeOf, Exists
  <2>2. ASSUME NEW k \in Keys PROVE PlayerShape(k)'
    BY <1>10 DEF Leave, End, InWorld, ShapeOf, PlayerShape, Online, Exists, InProgram
  <2>3. ASSUME NEW h \in Commands PROVE CommandShape(h)'
    BY <1>10 DEF Leave, End, InWorld, CommandShape, At, Target, Exists
  <2> QED
    BY <2>1, <2>2, <2>3
<1>11. ASSUME NEW c \in Connections, Notice(c) PROVE Shape'
  <2>1. ASSUME NEW d \in Connections PROVE ShapeOf(d)'
    BY <1>11 DEF Notice, ShapeOf, Exists
  <2>2. ASSUME NEW k \in Keys PROVE PlayerShape(k)'
    BY <1>11 DEF Notice, ShapeOf, PlayerShape, Online, Exists, InProgram
  <2>3. ASSUME NEW h \in Commands PROVE CommandShape(h)'
    BY <1>11 DEF Notice, CommandShape, At, Target, Exists
  <2> QED
    BY <2>1, <2>2, <2>3
<1>12. ASSUME NEW h \in Commands, NEW order \in Orders, NEW by \in Staff, Begin(h, order, by)
      PROVE  Shape'
  <2>1. ASSUME NEW d \in Connections PROVE ShapeOf(d)'
    BY <1>12 DEF Begin, ShapeOf, Exists
  <2>2. ASSUME NEW k \in Keys PROVE PlayerShape(k)'
    BY <1>12 DEF Begin, PlayerShape, Online, Exists
  <2>3. ASSUME NEW g \in Commands PROVE CommandShape(g)'
    BY <1>12 DEF Begin, FirstStep, CommandShape, At, Target, Exists
  <2> QED
    BY <2>1, <2>2, <2>3
<1>13. ASSUME NEW h \in Commands, LookToKick(h) PROVE Shape'
  <2>1. ASSUME NEW d \in Connections PROVE ShapeOf(d)'
    BY <1>13, Ordered DEF LookToKick, Steps, ShapeOf, Exists
  <2>2. ASSUME NEW k \in Keys PROVE PlayerShape(k)'
    BY <1>13, Ordered DEF LookToKick, Steps, PlayerShape, Online, Exists
  <2>3. ASSUME NEW g \in Commands PROVE CommandShape(g)'
    BY <1>13, Ordered DEF LookToKick, Steps, Continue, Finish, Over, CommandShape, At, Target, Exists
  <2> QED
    BY <2>1, <2>2, <2>3
<1>14. ASSUME NEW h \in Commands, Kick(h) PROVE Shape'
  <2>1. ASSUME NEW d \in Connections PROVE ShapeOf(d)'
    BY <1>14, Ordered DEF Kick, Removed, Steps, ShapeOf, Exists
  <2>2. ASSUME NEW k \in Keys PROVE PlayerShape(k)'
    BY <1>14, Ordered DEF Kick, Removed, Steps, PlayerShape, Online, Exists
  <2>3. ASSUME NEW g \in Commands PROVE CommandShape(g)'
    BY <1>14, Ordered DEF Kick, Removed, Steps, Continue, Finish, Over, CommandShape, At, Target, Exists
  <2> QED
    BY <2>1, <2>2, <2>3
<1>15. ASSUME NEW h \in Commands, StoreBan(h) PROVE Shape'
  <2>1. /\ Target(h) \in Keys
        /\ UNCHANGED <<live, stage, copy, task, message>>
    BY <1>15, Ordered DEF StoreBan, Steps
  <2>2. ASSUME NEW k \in Keys, Exists(k) PROVE Exists(k)'
    <3>1. CASE /\ Exists(Target(h))
               /\ account' = [account EXCEPT ![Target(h)] = WithBan(Target(h), TRUE)]
      <4>1. WithBan(Target(h), TRUE) \in Account
        BY <1>15, <2>1, <3>1, RowTyped DEF StoreBan, Steps
      <4> QED
        BY <2>1, <2>2, <3>1, <4>1, RowsStay
    <3>2. CASE UNCHANGED account
      BY <2>2, <3>2 DEF Exists
    <3> QED
      BY <1>15, <3>1, <3>2 DEF StoreBan
  <2>3. ASSUME NEW d \in Connections PROVE ShapeOf(d)'
    BY <2>1, <2>2 DEF ShapeOf
  <2>4. ASSUME NEW k \in Keys PROVE PlayerShape(k)'
    BY <2>1, <2>2 DEF PlayerShape, Online
  <2>5. ASSUME NEW g \in Commands PROVE CommandShape(g)'
    <3>1. CASE g = h
      <4>1. CASE Exists(Target(h)) /\ Continue(h, "act")
        BY <2>1, <2>2, <3>1, <4>1 DEF Continue, CommandShape, Target
      <4>2. CASE Finish(h)
        BY <3>1, <4>2 DEF Finish, Over, CommandShape, At
      <4> QED
        BY <1>15, <4>1, <4>2 DEF StoreBan
    <3>2. CASE g # h
      <4>1. command'[g] = command[g]
        BY <1>15, <3>2 DEF StoreBan, Continue, Finish
      <4> QED
        BY <2>2, <4>1, Ordered DEF CommandShape, At, Target, Steps
    <3> QED
      BY <3>1, <3>2
  <2> QED
    BY <2>3, <2>4, <2>5
<1>16. ASSUME NEW h \in Commands, KickBanned(h) PROVE Shape'
  <2>1. ASSUME NEW d \in Connections PROVE ShapeOf(d)'
    BY <1>16, Ordered DEF KickBanned, Removed, Steps, ShapeOf, Exists
  <2>2. ASSUME NEW k \in Keys PROVE PlayerShape(k)'
    BY <1>16, Ordered DEF KickBanned, Removed, Steps, PlayerShape, Online, Exists
  <2>3. ASSUME NEW g \in Commands PROVE CommandShape(g)'
    BY <1>16, Ordered DEF KickBanned, Removed, Steps, Continue, Finish, Over, CommandShape, At, Target, Exists
  <2> QED
    BY <2>1, <2>2, <2>3
<1>17. ASSUME NEW h \in Commands, StoreUnban(h) PROVE Shape'
  <2>1. /\ Target(h) \in Keys
        /\ UNCHANGED <<live, stage, copy, task, message>>
    BY <1>17, Ordered DEF StoreUnban, Steps
  <2>2. ASSUME NEW k \in Keys, Exists(k) PROVE Exists(k)'
    <3>1. CASE /\ Exists(Target(h))
               /\ account' = [account EXCEPT ![Target(h)] = WithBan(Target(h), FALSE)]
      <4>1. WithBan(Target(h), FALSE) \in Account
        BY <1>17, <2>1, <3>1, RowTyped DEF StoreUnban, Steps
      <4> QED
        BY <2>1, <2>2, <3>1, <4>1, RowsStay
    <3>2. CASE UNCHANGED account
      BY <2>2, <3>2 DEF Exists
    <3> QED
      BY <1>17, <3>1, <3>2 DEF StoreUnban
  <2>3. ASSUME NEW d \in Connections PROVE ShapeOf(d)'
    BY <2>1, <2>2 DEF ShapeOf
  <2>4. ASSUME NEW k \in Keys PROVE PlayerShape(k)'
    BY <2>1, <2>2 DEF PlayerShape, Online
  <2>5. ASSUME NEW g \in Commands PROVE CommandShape(g)'
    <3>1. CASE g = h
      BY <1>17, <2>1, <2>2, <3>1 DEF StoreUnban, Continue, Finish, Over, CommandShape, At, Target
    <3>2. CASE g # h
      <4>1. command'[g] = command[g]
        BY <1>17, <3>2 DEF StoreUnban, Continue, Finish
      <4> QED
        BY <2>2, <4>1, Ordered DEF CommandShape, At, Target, Steps
    <3> QED
      BY <3>1, <3>2
  <2> QED
    BY <2>3, <2>4, <2>5
<1>18. ASSUME NEW h \in Commands, LookToPromote(h) PROVE Shape'
  <2>1. ASSUME NEW d \in Connections PROVE ShapeOf(d)'
    BY <1>18, Ordered DEF LookToPromote, Steps, ShapeOf, Exists
  <2>2. ASSUME NEW k \in Keys PROVE PlayerShape(k)'
    BY <1>18, Ordered DEF LookToPromote, Steps, PlayerShape, Online, Exists
  <2>3. ASSUME NEW g \in Commands PROVE CommandShape(g)'
    BY <1>18, Ordered DEF LookToPromote, Steps, Continue, Finish, Over, CommandShape, At, Target, Exists
  <2> QED
    BY <2>1, <2>2, <2>3
<1>19. ASSUME NEW h \in Commands, StoreRole(h) PROVE Shape'
  <2>1. /\ Target(h) \in Keys
        /\ UNCHANGED <<live, stage, copy, task, message>>
    BY <1>19, Ordered DEF StoreRole, Steps
  <2>2. ASSUME NEW k \in Keys, Exists(k) PROVE Exists(k)'
    <3>1. CASE /\ Exists(Target(h))
               /\ account' = [account EXCEPT ![Target(h)] = WithRole(Target(h), command[h].order.role)]
      <4>1. WithRole(Target(h), command[h].order.role) \in Account
        BY <1>19, <2>1, <3>1, RowTyped, Ordered DEF StoreRole, Steps
      <4> QED
        BY <2>1, <2>2, <3>1, <4>1, RowsStay
    <3>2. CASE UNCHANGED account
      BY <2>2, <3>2 DEF Exists
    <3> QED
      BY <1>19, <3>1, <3>2 DEF StoreRole
  <2>3. ASSUME NEW d \in Connections PROVE ShapeOf(d)'
    BY <2>1, <2>2 DEF ShapeOf
  <2>4. ASSUME NEW k \in Keys PROVE PlayerShape(k)'
    BY <2>1, <2>2 DEF PlayerShape, Online
  <2>5. ASSUME NEW g \in Commands PROVE CommandShape(g)'
    <3>1. CASE g = h
      BY <1>19, <2>1, <2>2, <3>1 DEF StoreRole, Continue, Finish, Over, CommandShape, At, Target, RoleNotStored
    <3>2. CASE g # h
      <4>1. command'[g] = command[g]
        BY <1>19, <3>2 DEF StoreRole, Continue, Finish, RoleNotStored
      <4> QED
        BY <2>2, <4>1, Ordered DEF CommandShape, At, Target, Steps
    <3> QED
      BY <3>1, <3>2
  <2> QED
    BY <2>3, <2>4, <2>5
<1>20. ASSUME NEW h \in Commands, SetPlayerRole(h) PROVE Shape'
  <2>1. ASSUME NEW d \in Connections PROVE ShapeOf(d)'
    BY <1>20, Ordered DEF SetPlayerRole, Session, Steps, ShapeOf, Exists
  <2>2. ASSUME NEW k \in Keys PROVE PlayerShape(k)'
    BY <1>20, Ordered DEF SetPlayerRole, Session, Steps, PlayerShape, Online, Exists
  <2>3. ASSUME NEW g \in Commands PROVE CommandShape(g)'
    BY <1>20, Ordered DEF SetPlayerRole, Session, Steps, Continue, Finish, Over, CommandShape, At, Target, Exists
  <2> QED
    BY <2>1, <2>2, <2>3
<1>21. ASSUME NEW h \in Commands, SetMaintenance(h) PROVE Shape'
  <2>1. ASSUME NEW d \in Connections PROVE ShapeOf(d)'
    BY <1>21, Ordered DEF SetMaintenance, Steps, ShapeOf, Exists
  <2>2. ASSUME NEW k \in Keys PROVE PlayerShape(k)'
    BY <1>21, Ordered DEF SetMaintenance, Steps, PlayerShape, Online, Exists
  <2>3. ASSUME NEW g \in Commands PROVE CommandShape(g)'
    BY <1>21, Ordered DEF SetMaintenance, Steps, Continue, Finish, Over, CommandShape, At, Target, Exists
  <2> QED
    BY <2>1, <2>2, <2>3
<1>22. CASE UNCHANGED vars
  BY <1>22 DEF ShapeOf, PlayerShape, CommandShape, Exists, Online, At, Target
<1> QED
  BY <1>1, <1>2, <1>3, <1>4, <1>5, <1>6, <1>7, <1>8, <1>9, <1>10, <1>11, <1>12, <1>13, <1>14, <1>15, <1>16, <1>17, <1>18, <1>19, <1>20, <1>21, <1>22
  DEF Next, Connecting, Naming, Playing, Given, Carried, Console, Chat, InWorld, Online, Staff

LEMMA BansStep == TypedShape /\ TypedShape' /\ Bans /\ [Next]_vars => Bans'
<1> SUFFICES ASSUME TypedShape, TypedShape', Bans, [Next]_vars
             PROVE  Bans'
  OBVIOUS
<1> USE KeyOfAssumption, Values
<1> USE DEF TypedShape, TypeOK, vars, connectionVars, historyVars, Bans
<1>1. ASSUME NEW c \in Connections, Read(c) PROVE Bans'
  <2>1. ASSUME NEW k \in Keys PROVE SentencedRow(k)'
    BY <1>1 DEF Read, End, SentencedRow, Exists, Account
  <2>2. ASSUME NEW d \in Connections PROVE EarlyOnly(d)'
    BY <1>1 DEF Read, End, EarlyOnly, SentencedRow, Shape, ShapeOf, Banned, Exists, Account
  <2>3. BansHold'
    BY <1>1 DEF Read, End, BansHold, EarlyOnly, Online
  <2> QED
    BY <2>1, <2>2, <2>3
<1>2. ASSUME NEW c \in Connections, Admit(c) PROVE Bans'
  <2>1. ASSUME NEW k \in Keys PROVE SentencedRow(k)'
    BY <1>2 DEF Admit, End, IsNew, SentencedRow, Exists, Account
  <2>2. ASSUME NEW d \in Connections PROVE EarlyOnly(d)'
    BY <1>2 DEF Admit, End, IsNew, EarlyOnly, SentencedRow, Shape, ShapeOf, Banned, Exists, Account
  <2>3. BansHold'
    BY <1>2 DEF Admit, End, IsNew, BansHold, EarlyOnly, Online
  <2> QED
    BY <2>1, <2>2, <2>3
<1>3. ASSUME NEW c \in Connections, Load(c) PROVE Bans'
  <2>1. ASSUME NEW k \in Keys PROVE SentencedRow(k)'
    BY <1>3 DEF Load, End, SentencedRow, Exists, Account
  <2>2. ASSUME NEW d \in Connections PROVE EarlyOnly(d)'
    BY <1>3 DEF Load, End, EarlyOnly, SentencedRow, Shape, ShapeOf, Banned, Exists, Account
  <2>3. BansHold'
    BY <1>3 DEF Load, End, BansHold, EarlyOnly, Online
  <2> QED
    BY <2>1, <2>2, <2>3
<1>4. ASSUME NEW c \in Connections, SubmitName(c) PROVE Bans'
  <2>1. ASSUME NEW k \in Keys PROVE SentencedRow(k)'
    BY <1>4 DEF SubmitName, SentencedRow, Exists, Account
  <2>2. ASSUME NEW d \in Connections PROVE EarlyOnly(d)'
    BY <1>4 DEF SubmitName, EarlyOnly, SentencedRow, Shape, ShapeOf, Banned, Exists, Account
  <2>3. BansHold'
    BY <1>4 DEF SubmitName, BansHold, EarlyOnly, Online
  <2> QED
    BY <2>1, <2>2, <2>3
<1>5. ASSUME NEW c \in Connections, Create(c) PROVE Bans'
  <2>1. ASSUME NEW k \in Keys PROVE SentencedRow(k)'
    BY <1>5 DEF Create, Exists, SentencedRow, Exists, Account
  <2>2. ASSUME NEW d \in Connections PROVE EarlyOnly(d)'
    BY <1>5 DEF Create, Exists, EarlyOnly, SentencedRow, Shape, ShapeOf, Banned, Exists, Account
  <2>3. BansHold'
    BY <1>5 DEF Create, Exists, BansHold, EarlyOnly, Online
  <2> QED
    BY <2>1, <2>2, <2>3
<1>6. ASSUME NEW c \in Connections, Created(c) PROVE Bans'
  <2>1. ASSUME NEW k \in Keys PROVE SentencedRow(k)'
    BY <1>6 DEF Created, StartJoin, End, SentencedRow, Exists, Account
  <2>2. ASSUME NEW d \in Connections PROVE EarlyOnly(d)'
    BY <1>6 DEF Created, StartJoin, End, EarlyOnly, SentencedRow, Shape, ShapeOf, Banned, Exists, Account
  <2>3. BansHold'
    BY <1>6 DEF Created, StartJoin, End, BansHold, EarlyOnly, Online
  <2> QED
    BY <2>1, <2>2, <2>3
<1>7. ASSUME NEW c \in Connections, Join(c) PROVE Bans'
  <2>1. ASSUME NEW k \in Keys PROVE SentencedRow(k)'
    BY <1>7 DEF Join, Session, SentencedRow, Exists, Account
  <2>2. ASSUME NEW d \in Connections PROVE EarlyOnly(d)'
    BY <1>7 DEF Join, Session, EarlyOnly, SentencedRow, Shape, ShapeOf, Banned, Exists, Account
  <2>3. BansHold'
    BY <1>7 DEF Join, Session, BansHold, EarlyOnly, Online
  <2> QED
    BY <2>1, <2>2, <2>3
<1>8. ASSUME NEW c \in Connections, Joined(c) PROVE Bans'
  <2>1. ASSUME NEW k \in Keys PROVE SentencedRow(k)'
    BY <1>8 DEF Joined, SentencedRow, Exists, Account
  <2>2. ASSUME NEW d \in Connections PROVE EarlyOnly(d)'
    BY <1>8 DEF Joined, EarlyOnly, SentencedRow, Shape, ShapeOf, Banned, Exists, Account
  <2>3. BansHold'
    BY <1>8 DEF Joined, BansHold, EarlyOnly, Online
  <2> QED
    BY <2>1, <2>2, <2>3
<1>9. ASSUME NEW c \in Connections, Quit(c) PROVE Bans'
  <2>1. ASSUME NEW k \in Keys PROVE SentencedRow(k)'
    BY <1>9 DEF Quit, End, SentencedRow, Exists, Account
  <2>2. ASSUME NEW d \in Connections PROVE EarlyOnly(d)'
    BY <1>9 DEF Quit, End, EarlyOnly, SentencedRow, Shape, ShapeOf, Banned, Exists, Account
  <2>3. BansHold'
    BY <1>9 DEF Quit, End, BansHold, EarlyOnly, Online
  <2> QED
    BY <2>1, <2>2, <2>3
<1>10. ASSUME NEW c \in Connections, Leave(c) PROVE Bans'
  <2>1. ASSUME NEW k \in Keys PROVE SentencedRow(k)'
    BY <1>10 DEF Leave, End, InWorld, SentencedRow, Exists, Account
  <2>2. ASSUME NEW d \in Connections PROVE EarlyOnly(d)'
    BY <1>10 DEF Leave, End, InWorld, EarlyOnly, SentencedRow, Shape, ShapeOf, Banned, Exists, Account
  <2>3. BansHold'
    BY <1>10 DEF Leave, End, InWorld, BansHold, EarlyOnly, Online
  <2> QED
    BY <2>1, <2>2, <2>3
<1>11. ASSUME NEW c \in Connections, Notice(c) PROVE Bans'
  <2>1. ASSUME NEW k \in Keys PROVE SentencedRow(k)'
    BY <1>11 DEF Notice, SentencedRow, Exists, Account
  <2>2. ASSUME NEW d \in Connections PROVE EarlyOnly(d)'
    BY <1>11 DEF Notice, EarlyOnly, SentencedRow, Shape, ShapeOf, Banned, Exists, Account
  <2>3. BansHold'
    BY <1>11 DEF Notice, BansHold, EarlyOnly, Online
  <2> QED
    BY <2>1, <2>2, <2>3
<1>12. ASSUME NEW h \in Commands, NEW order \in Orders, NEW by \in Staff, Begin(h, order, by)
      PROVE  Bans'
  <2>1. ASSUME NEW k \in Keys PROVE SentencedRow(k)'
    BY <1>12 DEF Begin, SentencedRow, Exists, Account
  <2>2. ASSUME NEW d \in Connections PROVE EarlyOnly(d)'
    BY <1>12 DEF Begin, EarlyOnly, SentencedRow, Shape, ShapeOf, Banned, Exists, Account
  <2>3. BansHold'
    BY <1>12 DEF Begin, BansHold, EarlyOnly, Online
  <2> QED
    BY <2>1, <2>2, <2>3
<1>13. ASSUME NEW h \in Commands, LookToKick(h) PROVE Bans'
  <2>1. ASSUME NEW k \in Keys PROVE SentencedRow(k)'
    BY <1>13, Ordered DEF LookToKick, Steps, SentencedRow, Exists, Account
  <2>2. ASSUME NEW d \in Connections PROVE EarlyOnly(d)'
    BY <1>13, Ordered DEF LookToKick, Steps, EarlyOnly, SentencedRow, Shape, ShapeOf, Banned, Exists, Account
  <2>3. BansHold'
    BY <1>13, Ordered DEF LookToKick, Steps, BansHold, EarlyOnly, Online
  <2> QED
    BY <2>1, <2>2, <2>3
<1>14. ASSUME NEW h \in Commands, Kick(h) PROVE Bans'
  <2>1. ASSUME NEW k \in Keys PROVE SentencedRow(k)'
    BY <1>14, Ordered DEF Kick, Removed, Steps, SentencedRow, Exists, Account
  <2>2. ASSUME NEW d \in Connections PROVE EarlyOnly(d)'
    BY <1>14, Ordered DEF Kick, Removed, Steps, EarlyOnly, SentencedRow, Shape, ShapeOf, Banned, Exists, Account
  <2>3. BansHold'
    BY <1>14, Ordered DEF Kick, Removed, Steps, BansHold, EarlyOnly, Online
  <2> QED
    BY <2>1, <2>2, <2>3
<1>15. ASSUME NEW h \in Commands, StoreBan(h) PROVE Bans'
  <2>1. ASSUME NEW k \in Keys PROVE SentencedRow(k)'
    <3>1. CASE /\ Exists(Target(h))
               /\ account' = [account EXCEPT ![Target(h)] = WithBan(Target(h), TRUE)]
      <4>1. Target(h) \in Keys /\ WithBan(Target(h), TRUE) \in Account
        BY <1>15, <3>1, RowTyped, Ordered DEF StoreBan, Steps
      <4> QED
        BY <1>15, <2>1, <3>1, <4>1 DEF StoreBan, WithBan, SentencedRow, Exists
    <3>2. CASE UNCHANGED account
      BY <1>15, <2>1, <3>2 DEF StoreBan, SentencedRow, Exists
    <3> QED
      BY <1>15, <3>1, <3>2 DEF StoreBan
  <2>2. ASSUME NEW d \in Connections PROVE EarlyOnly(d)'
    BY <1>15, Ordered DEF StoreBan, WithBan, Steps, EarlyOnly, SentencedRow, Shape, ShapeOf, Banned, Exists, Account
  <2>3. BansHold'
    BY <1>15, Ordered DEF StoreBan, WithBan, Steps, BansHold, EarlyOnly, Online
  <2> QED
    BY <2>1, <2>2, <2>3
<1>16. ASSUME NEW h \in Commands, KickBanned(h) PROVE Bans'
  <2>1. ASSUME NEW k \in Keys PROVE SentencedRow(k)'
    <3>1. Exists(Target(h))
      BY <1>16 DEF Shape, CommandShape, KickBanned
    <3> QED
      BY <1>16, <2>1, <3>1 DEF KickBanned, SentencedRow, Exists
  <2>2. ASSUME NEW d \in Connections PROVE EarlyOnly(d)'
    BY <1>16, Ordered DEF KickBanned, Removed, HoldingFor, Holding, Steps, EarlyOnly, SentencedRow, Shape, ShapeOf, Banned, Exists, Account
  <2>3. BansHold'
    BY <1>16, Ordered DEF KickBanned, Removed, HoldingFor, Holding, Steps, BansHold, EarlyOnly, Online
  <2> QED
    BY <2>1, <2>2, <2>3
<1>17. ASSUME NEW h \in Commands, StoreUnban(h) PROVE Bans'
  <2>1. ASSUME NEW k \in Keys PROVE SentencedRow(k)'
    BY <1>17, Ordered DEF StoreUnban, WithBan, Steps, SentencedRow, Exists, Account
  <2>2. ASSUME NEW d \in Connections PROVE EarlyOnly(d)'
    BY <1>17, Ordered DEF StoreUnban, WithBan, Steps, EarlyOnly, SentencedRow, Shape, ShapeOf, Banned, Exists, Account
  <2>3. BansHold'
    BY <1>17, Ordered DEF StoreUnban, WithBan, Steps, BansHold, EarlyOnly, Online
  <2> QED
    BY <2>1, <2>2, <2>3
<1>18. ASSUME NEW h \in Commands, LookToPromote(h) PROVE Bans'
  <2>1. ASSUME NEW k \in Keys PROVE SentencedRow(k)'
    BY <1>18, Ordered DEF LookToPromote, Steps, SentencedRow, Exists, Account
  <2>2. ASSUME NEW d \in Connections PROVE EarlyOnly(d)'
    BY <1>18, Ordered DEF LookToPromote, Steps, EarlyOnly, SentencedRow, Shape, ShapeOf, Banned, Exists, Account
  <2>3. BansHold'
    BY <1>18, Ordered DEF LookToPromote, Steps, BansHold, EarlyOnly, Online
  <2> QED
    BY <2>1, <2>2, <2>3
<1>19. ASSUME NEW h \in Commands, StoreRole(h) PROVE Bans'
  <2>1. ASSUME NEW k \in Keys PROVE SentencedRow(k)'
    <3>1. CASE /\ Exists(Target(h))
               /\ account' = [account EXCEPT ![Target(h)] = WithRole(Target(h), command[h].order.role)]
      <4>1. Target(h) \in Keys /\ WithRole(Target(h), command[h].order.role) \in Account
        BY <1>19, <3>1, RowTyped, Ordered DEF StoreRole, Steps
      <4> QED
        BY <1>19, <2>1, <3>1, <4>1 DEF StoreRole, WithRole, SentencedRow, Exists
    <3>2. CASE UNCHANGED account
      BY <1>19, <2>1, <3>2 DEF StoreRole, SentencedRow, Exists
    <3> QED
      BY <1>19, <3>1, <3>2 DEF StoreRole
  <2>2. ASSUME NEW d \in Connections PROVE EarlyOnly(d)'
    BY <1>19, Ordered DEF StoreRole, WithRole, RoleNotStored, Steps, EarlyOnly, SentencedRow, Shape, ShapeOf, Banned, Exists, Account
  <2>3. BansHold'
    BY <1>19, Ordered DEF StoreRole, WithRole, RoleNotStored, Steps, BansHold, EarlyOnly, Online
  <2> QED
    BY <2>1, <2>2, <2>3
<1>20. ASSUME NEW h \in Commands, SetPlayerRole(h) PROVE Bans'
  <2>1. ASSUME NEW k \in Keys PROVE SentencedRow(k)'
    BY <1>20, Ordered DEF SetPlayerRole, Session, Steps, SentencedRow, Exists, Account
  <2>2. ASSUME NEW d \in Connections PROVE EarlyOnly(d)'
    BY <1>20, Ordered DEF SetPlayerRole, Session, Steps, EarlyOnly, SentencedRow, Shape, ShapeOf, Banned, Exists, Account
  <2>3. BansHold'
    BY <1>20, Ordered DEF SetPlayerRole, Session, Steps, BansHold, EarlyOnly, Online
  <2> QED
    BY <2>1, <2>2, <2>3
<1>21. ASSUME NEW h \in Commands, SetMaintenance(h) PROVE Bans'
  <2>1. ASSUME NEW k \in Keys PROVE SentencedRow(k)'
    BY <1>21, Ordered DEF SetMaintenance, Steps, SentencedRow, Exists, Account
  <2>2. ASSUME NEW d \in Connections PROVE EarlyOnly(d)'
    BY <1>21, Ordered DEF SetMaintenance, Steps, EarlyOnly, SentencedRow, Shape, ShapeOf, Banned, Exists, Account
  <2>3. BansHold'
    BY <1>21, Ordered DEF SetMaintenance, Steps, BansHold, EarlyOnly, Online
  <2> QED
    BY <2>1, <2>2, <2>3
<1>22. CASE UNCHANGED vars
  BY <1>22 DEF SentencedRow, EarlyOnly, BansHold, Exists, Online
<1> QED
  BY <1>1, <1>2, <1>3, <1>4, <1>5, <1>6, <1>7, <1>8, <1>9, <1>10, <1>11, <1>12, <1>13, <1>14, <1>15, <1>16, <1>17, <1>18, <1>19, <1>20, <1>21, <1>22
  DEF Next, Connecting, Naming, Playing, Given, Carried, Console, Chat, InWorld, Online, Staff

LEMMA DoorStep == TypedShape /\ TypedShape' /\ Door /\ [Next]_vars => Door'
<1> SUFFICES ASSUME TypedShape, TypedShape', Door, [Next]_vars
             PROVE  Door'
  OBVIOUS
<1> USE KeyOfAssumption, Values
<1> USE DEF TypedShape, TypeOK, vars, connectionVars, historyVars, Door
<1>1. ASSUME NEW c \in Connections, Read(c) PROVE Door'
  <2>1. (maintenance \/ since = {})'
    BY <1>1 DEF Read, End, Door
  <2>2. ASSUME NEW d \in Connections PROVE StaffOnly(d)'
    BY <1>1 DEF Read, End, StaffOnly, Shape, ShapeOf, AllowsConnection
  <2>3. MaintenanceAdmitsStaffOnly'
    BY <1>1 DEF Read, End, MaintenanceAdmitsStaffOnly, StaffOnly, Shape, ShapeOf, PlayerShape, Online, InProgram
  <2> QED
    BY <2>1, <2>2, <2>3
<1>2. ASSUME NEW c \in Connections, Admit(c) PROVE Door'
  <2>1. (maintenance \/ since = {})'
    BY <1>2 DEF Admit, End, IsNew, Door
  <2>2. ASSUME NEW d \in Connections PROVE StaffOnly(d)'
    BY <1>2 DEF Admit, End, IsNew, StaffOnly, Shape, ShapeOf, AllowsConnection
  <2>3. MaintenanceAdmitsStaffOnly'
    BY <1>2 DEF Admit, End, IsNew, MaintenanceAdmitsStaffOnly, StaffOnly, Shape, ShapeOf, PlayerShape, Online, InProgram
  <2> QED
    BY <2>1, <2>2, <2>3
<1>3. ASSUME NEW c \in Connections, Load(c) PROVE Door'
  <2>1. (maintenance \/ since = {})'
    BY <1>3 DEF Load, End, Door
  <2>2. ASSUME NEW d \in Connections PROVE StaffOnly(d)'
    BY <1>3 DEF Load, End, StaffOnly, Shape, ShapeOf, AllowsConnection
  <2>3. MaintenanceAdmitsStaffOnly'
    BY <1>3 DEF Load, End, MaintenanceAdmitsStaffOnly, StaffOnly, Shape, ShapeOf, PlayerShape, Online, InProgram
  <2> QED
    BY <2>1, <2>2, <2>3
<1>4. ASSUME NEW c \in Connections, SubmitName(c) PROVE Door'
  <2>1. (maintenance \/ since = {})'
    BY <1>4 DEF SubmitName, Door
  <2>2. ASSUME NEW d \in Connections PROVE StaffOnly(d)'
    BY <1>4 DEF SubmitName, StaffOnly, Shape, ShapeOf, AllowsConnection
  <2>3. MaintenanceAdmitsStaffOnly'
    BY <1>4 DEF SubmitName, MaintenanceAdmitsStaffOnly, StaffOnly, Shape, ShapeOf, PlayerShape, Online, InProgram
  <2> QED
    BY <2>1, <2>2, <2>3
<1>5. ASSUME NEW c \in Connections, Create(c) PROVE Door'
  <2>1. (maintenance \/ since = {})'
    BY <1>5 DEF Create, Exists, Door
  <2>2. ASSUME NEW d \in Connections PROVE StaffOnly(d)'
    BY <1>5 DEF Create, Exists, StaffOnly, Shape, ShapeOf, AllowsConnection
  <2>3. MaintenanceAdmitsStaffOnly'
    BY <1>5 DEF Create, Exists, MaintenanceAdmitsStaffOnly, StaffOnly, Shape, ShapeOf, PlayerShape, Online, InProgram
  <2> QED
    BY <2>1, <2>2, <2>3
<1>6. ASSUME NEW c \in Connections, Created(c) PROVE Door'
  <2>1. (maintenance \/ since = {})'
    BY <1>6 DEF Created, StartJoin, End, Door
  <2>2. ASSUME NEW d \in Connections PROVE StaffOnly(d)'
    BY <1>6 DEF Created, StartJoin, End, StaffOnly, Shape, ShapeOf, AllowsConnection
  <2>3. MaintenanceAdmitsStaffOnly'
    BY <1>6 DEF Created, StartJoin, End, MaintenanceAdmitsStaffOnly, StaffOnly, Shape, ShapeOf, PlayerShape, Online, InProgram
  <2> QED
    BY <2>1, <2>2, <2>3
<1>7. ASSUME NEW c \in Connections, Join(c) PROVE Door'
  <2>1. (maintenance \/ since = {})'
    BY <1>7 DEF Join, Session, Door
  <2>2. ASSUME NEW d \in Connections PROVE StaffOnly(d)'
    BY <1>7 DEF Join, Session, StaffOnly, Shape, ShapeOf, AllowsConnection
  <2>3. MaintenanceAdmitsStaffOnly'
    BY <1>7 DEF Join, Session, MaintenanceAdmitsStaffOnly, StaffOnly, Shape, ShapeOf, PlayerShape, Online, InProgram
  <2> QED
    BY <2>1, <2>2, <2>3
<1>8. ASSUME NEW c \in Connections, Joined(c) PROVE Door'
  <2>1. (maintenance \/ since = {})'
    BY <1>8 DEF Joined, Door
  <2>2. ASSUME NEW d \in Connections PROVE StaffOnly(d)'
    BY <1>8 DEF Joined, StaffOnly, Shape, ShapeOf, AllowsConnection
  <2>3. MaintenanceAdmitsStaffOnly'
    BY <1>8 DEF Joined, MaintenanceAdmitsStaffOnly, StaffOnly, Shape, ShapeOf, PlayerShape, Online, InProgram
  <2> QED
    BY <2>1, <2>2, <2>3
<1>9. ASSUME NEW c \in Connections, Quit(c) PROVE Door'
  <2>1. (maintenance \/ since = {})'
    BY <1>9 DEF Quit, End, Door
  <2>2. ASSUME NEW d \in Connections PROVE StaffOnly(d)'
    BY <1>9 DEF Quit, End, StaffOnly, Shape, ShapeOf, AllowsConnection
  <2>3. MaintenanceAdmitsStaffOnly'
    BY <1>9 DEF Quit, End, MaintenanceAdmitsStaffOnly, StaffOnly, Shape, ShapeOf, PlayerShape, Online, InProgram
  <2> QED
    BY <2>1, <2>2, <2>3
<1>10. ASSUME NEW c \in Connections, Leave(c) PROVE Door'
  <2>1. (maintenance \/ since = {})'
    BY <1>10 DEF Leave, End, InWorld, Door
  <2>2. ASSUME NEW d \in Connections PROVE StaffOnly(d)'
    BY <1>10 DEF Leave, End, InWorld, StaffOnly, Shape, ShapeOf, AllowsConnection
  <2>3. MaintenanceAdmitsStaffOnly'
    BY <1>10 DEF Leave, End, InWorld, MaintenanceAdmitsStaffOnly, StaffOnly, Shape, ShapeOf, PlayerShape, Online, InProgram
  <2> QED
    BY <2>1, <2>2, <2>3
<1>11. ASSUME NEW c \in Connections, Notice(c) PROVE Door'
  <2>1. (maintenance \/ since = {})'
    BY <1>11 DEF Notice, Door
  <2>2. ASSUME NEW d \in Connections PROVE StaffOnly(d)'
    BY <1>11 DEF Notice, StaffOnly, Shape, ShapeOf, AllowsConnection
  <2>3. MaintenanceAdmitsStaffOnly'
    BY <1>11 DEF Notice, MaintenanceAdmitsStaffOnly, StaffOnly, Shape, ShapeOf, PlayerShape, Online, InProgram
  <2> QED
    BY <2>1, <2>2, <2>3
<1>12. ASSUME NEW h \in Commands, NEW order \in Orders, NEW by \in Staff, Begin(h, order, by)
      PROVE  Door'
  <2>1. (maintenance \/ since = {})'
    BY <1>12 DEF Begin, FirstStep, Door
  <2>2. ASSUME NEW d \in Connections PROVE StaffOnly(d)'
    BY <1>12 DEF Begin, FirstStep, StaffOnly, Shape, ShapeOf, AllowsConnection
  <2>3. MaintenanceAdmitsStaffOnly'
    BY <1>12 DEF Begin, FirstStep, MaintenanceAdmitsStaffOnly, StaffOnly, Shape, ShapeOf, PlayerShape, Online, InProgram
  <2> QED
    BY <2>1, <2>2, <2>3
<1>13. ASSUME NEW h \in Commands, LookToKick(h) PROVE Door'
  <2>1. (maintenance \/ since = {})'
    BY <1>13, Ordered DEF LookToKick, Steps, Continue, Finish, Over, Door
  <2>2. ASSUME NEW d \in Connections PROVE StaffOnly(d)'
    BY <1>13, Ordered DEF LookToKick, Steps, Continue, Finish, Over, StaffOnly, Shape, ShapeOf, AllowsConnection
  <2>3. MaintenanceAdmitsStaffOnly'
    BY <1>13, Ordered DEF LookToKick, Steps, Continue, Finish, Over, MaintenanceAdmitsStaffOnly, StaffOnly, Shape, ShapeOf, PlayerShape, Online, InProgram
  <2> QED
    BY <2>1, <2>2, <2>3
<1>14. ASSUME NEW h \in Commands, Kick(h) PROVE Door'
  <2>1. (maintenance \/ since = {})'
    BY <1>14, Ordered DEF Kick, Removed, Steps, Continue, Finish, Over, Door
  <2>2. ASSUME NEW d \in Connections PROVE StaffOnly(d)'
    BY <1>14, Ordered DEF Kick, Removed, Steps, Continue, Finish, Over, StaffOnly, Shape, ShapeOf, AllowsConnection
  <2>3. MaintenanceAdmitsStaffOnly'
    BY <1>14, Ordered DEF Kick, Removed, Steps, Continue, Finish, Over, MaintenanceAdmitsStaffOnly, StaffOnly, Shape, ShapeOf, PlayerShape, Online, InProgram
  <2> QED
    BY <2>1, <2>2, <2>3
<1>15. ASSUME NEW h \in Commands, StoreBan(h) PROVE Door'
  <2>1. (maintenance \/ since = {})'
    BY <1>15, Ordered DEF StoreBan, WithBan, Steps, Continue, Finish, Over, Door
  <2>2. ASSUME NEW d \in Connections PROVE StaffOnly(d)'
    BY <1>15, Ordered DEF StoreBan, WithBan, Steps, Continue, Finish, Over, StaffOnly, Shape, ShapeOf, AllowsConnection
  <2>3. MaintenanceAdmitsStaffOnly'
    BY <1>15, Ordered DEF StoreBan, WithBan, Steps, Continue, Finish, Over, MaintenanceAdmitsStaffOnly, StaffOnly, Shape, ShapeOf, PlayerShape, Online, InProgram
  <2> QED
    BY <2>1, <2>2, <2>3
<1>16. ASSUME NEW h \in Commands, KickBanned(h) PROVE Door'
  <2>1. (maintenance \/ since = {})'
    BY <1>16, Ordered DEF KickBanned, Removed, Steps, Continue, Finish, Over, Door
  <2>2. ASSUME NEW d \in Connections PROVE StaffOnly(d)'
    BY <1>16, Ordered DEF KickBanned, Removed, Steps, Continue, Finish, Over, StaffOnly, Shape, ShapeOf, AllowsConnection
  <2>3. MaintenanceAdmitsStaffOnly'
    BY <1>16, Ordered DEF KickBanned, Removed, Steps, Continue, Finish, Over, MaintenanceAdmitsStaffOnly, StaffOnly, Shape, ShapeOf, PlayerShape, Online, InProgram
  <2> QED
    BY <2>1, <2>2, <2>3
<1>17. ASSUME NEW h \in Commands, StoreUnban(h) PROVE Door'
  <2>1. (maintenance \/ since = {})'
    BY <1>17, Ordered DEF StoreUnban, WithBan, Steps, Continue, Finish, Over, Door
  <2>2. ASSUME NEW d \in Connections PROVE StaffOnly(d)'
    BY <1>17, Ordered DEF StoreUnban, WithBan, Steps, Continue, Finish, Over, StaffOnly, Shape, ShapeOf, AllowsConnection
  <2>3. MaintenanceAdmitsStaffOnly'
    BY <1>17, Ordered DEF StoreUnban, WithBan, Steps, Continue, Finish, Over, MaintenanceAdmitsStaffOnly, StaffOnly, Shape, ShapeOf, PlayerShape, Online, InProgram
  <2> QED
    BY <2>1, <2>2, <2>3
<1>18. ASSUME NEW h \in Commands, LookToPromote(h) PROVE Door'
  <2>1. (maintenance \/ since = {})'
    BY <1>18, Ordered DEF LookToPromote, Steps, Continue, Finish, Over, Door
  <2>2. ASSUME NEW d \in Connections PROVE StaffOnly(d)'
    BY <1>18, Ordered DEF LookToPromote, Steps, Continue, Finish, Over, StaffOnly, Shape, ShapeOf, AllowsConnection
  <2>3. MaintenanceAdmitsStaffOnly'
    BY <1>18, Ordered DEF LookToPromote, Steps, Continue, Finish, Over, MaintenanceAdmitsStaffOnly, StaffOnly, Shape, ShapeOf, PlayerShape, Online, InProgram
  <2> QED
    BY <2>1, <2>2, <2>3
<1>19. ASSUME NEW h \in Commands, StoreRole(h) PROVE Door'
  <2>1. (maintenance \/ since = {})'
    BY <1>19, Ordered DEF StoreRole, WithRole, RoleNotStored, HoldingFor, Steps, Continue, Finish, Over, Door
  <2>2. ASSUME NEW d \in Connections PROVE StaffOnly(d)'
    BY <1>19, Ordered DEF StoreRole, WithRole, RoleNotStored, HoldingFor, Steps, Continue, Finish, Over, StaffOnly, Shape, ShapeOf, AllowsConnection
  <2>3. MaintenanceAdmitsStaffOnly'
    BY <1>19, Ordered DEF StoreRole, WithRole, RoleNotStored, HoldingFor, Steps, Continue, Finish, Over, MaintenanceAdmitsStaffOnly, StaffOnly, Shape, ShapeOf, PlayerShape, Online, InProgram
  <2> QED
    BY <2>1, <2>2, <2>3
<1>20. ASSUME NEW h \in Commands, SetPlayerRole(h) PROVE Door'
  <2>1. (maintenance \/ since = {})'
    BY <1>20, Ordered DEF SetPlayerRole, Session, Steps, Continue, Finish, Over, Door
  <2>2. ASSUME NEW d \in Connections PROVE StaffOnly(d)'
    BY <1>20, Ordered DEF SetPlayerRole, Session, Steps, Continue, Finish, Over, StaffOnly, Shape, ShapeOf, AllowsConnection
  <2>3. MaintenanceAdmitsStaffOnly'
    BY <1>20, Ordered DEF SetPlayerRole, Session, Steps, Continue, Finish, Over, MaintenanceAdmitsStaffOnly, StaffOnly, Shape, ShapeOf, PlayerShape, Online, InProgram
  <2> QED
    BY <2>1, <2>2, <2>3
<1>21. ASSUME NEW h \in Commands, SetMaintenance(h) PROVE Door'
  <2>1. (maintenance \/ since = {})'
    BY <1>21, Ordered DEF SetMaintenance, Steps, Continue, Finish, Over, Door
  <2>2. ASSUME NEW d \in Connections PROVE StaffOnly(d)'
    BY <1>21, Ordered DEF SetMaintenance, Steps, Continue, Finish, Over, StaffOnly, Shape, ShapeOf, AllowsConnection
  <2>3. MaintenanceAdmitsStaffOnly'
    BY <1>21, Ordered DEF SetMaintenance, Steps, Continue, Finish, Over, MaintenanceAdmitsStaffOnly, StaffOnly, Shape, ShapeOf, PlayerShape, Online, InProgram
  <2> QED
    BY <2>1, <2>2, <2>3
<1>22. CASE UNCHANGED vars
  BY <1>22 DEF StaffOnly, MaintenanceAdmitsStaffOnly, Online
<1> QED
  BY <1>1, <1>2, <1>3, <1>4, <1>5, <1>6, <1>7, <1>8, <1>9, <1>10, <1>11, <1>12, <1>13, <1>14, <1>15, <1>16, <1>17, <1>18, <1>19, <1>20, <1>21, <1>22
  DEF Next, Connecting, Naming, Playing, Given, Carried, Console, Chat, InWorld, Online, Staff

(* A role still agrees when neither its session nor the stored role changes *)
(* and no promotion of it was between its two writes and is not any more.  *)
PromotedNow(k) == \E g \in Commands : At(g, "promote", "act") /\ Target(g) = k

RoleAgrees(k) ==
  \/ ~Online(k) \/ live[k].by \in behind \/ k \in crossed \/ PromotedNow(k)
  \/ live[k].role = account[k].role

LEMMA RolesOneByOne ==
  /\ RolesAgree <=> \A k \in Keys : RoleAgrees(k)
  /\ RolesAgree' <=> \A k \in Keys : RoleAgrees(k)'
BY DEF RolesAgree, RoleAgrees, PromotedNow, At, Target, Online

LEMMA RoleStays ==
  ASSUME NEW k \in Keys, RolesAgree,
         live'[k] = live[k], account'[k].role = account[k].role,
         behind \subseteq behind', crossed \subseteq crossed',
         PromotedNow(k) => PromotedNow(k)'
  PROVE  RoleAgrees(k)'
BY DEF RolesAgree, RoleAgrees, PromotedNow, Online

(* Of the steps of one command, only SetPlayerRole ends such a promotion.   *)
LEMMA PromotionsStay ==
  ASSUME NEW k \in Keys, NEW h \in Commands, ~At(h, "promote", "act"),
         \A g \in Commands \ {h} : command'[g] = command[g]
  PROVE  PromotedNow(k) => PromotedNow(k)'
BY DEF PromotedNow, At, Target

LEMMA PromotionsStep == TypedShape /\ TypedShape' /\ Promotions /\ [Next]_vars => Promotions'
<1> SUFFICES ASSUME TypedShape, TypedShape', Promotions, [Next]_vars
             PROVE  Promotions'
  OBVIOUS
<1> USE KeyOfAssumption, Values
<1> USE DEF TypedShape, TypeOK, vars, connectionVars, historyVars, Promotions
<1>1. ASSUME NEW c \in Connections, Read(c) PROVE Promotions'
  <2>1. ASSUME NEW d \in Connections PROVE CopyAgrees(d)'
    BY <1>1 DEF Read, End, CopyAgrees, Holding, Shape, ShapeOf, Exists, Account
  <2>2. ASSUME NEW g \in Commands PROVE PromotionAgrees(g)'
    BY <1>1 DEF Read, End, PromotionAgrees, At, Target, Shape, CommandShape, Exists
  <2>3. RolesAgree'
    BY <1>1 DEF Read, End, RolesAgree, CopyAgrees, PromotionAgrees, Holding, At, Target, Shape, PlayerShape, Online, Exists
  <2> QED
    BY <2>1, <2>2, <2>3
<1>2. ASSUME NEW c \in Connections, Admit(c) PROVE Promotions'
  <2>1. ASSUME NEW d \in Connections PROVE CopyAgrees(d)'
    BY <1>2 DEF Admit, End, IsNew, CopyAgrees, Holding, Shape, ShapeOf, Exists, Account
  <2>2. ASSUME NEW g \in Commands PROVE PromotionAgrees(g)'
    BY <1>2 DEF Admit, End, IsNew, PromotionAgrees, At, Target, Shape, CommandShape, Exists
  <2>3. RolesAgree'
    BY <1>2 DEF Admit, End, IsNew, RolesAgree, CopyAgrees, PromotionAgrees, Holding, At, Target, Shape, PlayerShape, Online, Exists
  <2> QED
    BY <2>1, <2>2, <2>3
<1>3. ASSUME NEW c \in Connections, Load(c) PROVE Promotions'
  <2>1. ASSUME NEW d \in Connections PROVE CopyAgrees(d)'
    BY <1>3 DEF Load, End, CopyAgrees, Holding, Shape, ShapeOf, Exists, Account
  <2>2. ASSUME NEW g \in Commands PROVE PromotionAgrees(g)'
    BY <1>3 DEF Load, End, PromotionAgrees, At, Target, Shape, CommandShape, Exists
  <2>3. RolesAgree'
    BY <1>3 DEF Load, End, RolesAgree, CopyAgrees, PromotionAgrees, Holding, At, Target, Shape, PlayerShape, Online, Exists
  <2> QED
    BY <2>1, <2>2, <2>3
<1>4. ASSUME NEW c \in Connections, SubmitName(c) PROVE Promotions'
  <2>1. ASSUME NEW d \in Connections PROVE CopyAgrees(d)'
    BY <1>4 DEF SubmitName, CopyAgrees, Holding, Shape, ShapeOf, Exists, Account
  <2>2. ASSUME NEW g \in Commands PROVE PromotionAgrees(g)'
    BY <1>4 DEF SubmitName, PromotionAgrees, At, Target, Shape, CommandShape, Exists
  <2>3. RolesAgree'
    BY <1>4 DEF SubmitName, RolesAgree, CopyAgrees, PromotionAgrees, Holding, At, Target, Shape, PlayerShape, Online, Exists
  <2> QED
    BY <2>1, <2>2, <2>3
<1>5. ASSUME NEW c \in Connections, Create(c) PROVE Promotions'
  <2>1. ASSUME NEW d \in Connections PROVE CopyAgrees(d)'
    BY <1>5 DEF Create, Exists, CopyAgrees, Holding, Shape, ShapeOf, Exists, Account
  <2>2. ASSUME NEW g \in Commands PROVE PromotionAgrees(g)'
    <3> SUFFICES ASSUME At(g, "promote", "act")
                 PROVE  \/ Target(g) \in crossed
                        \/ command[g].order.role = account'[Target(g)].role
      BY <1>5 DEF Create, PromotionAgrees, At, Target
    <3>1. Target(g) \in Keys /\ Exists(Target(g))
      BY Ordered DEF Shape, CommandShape, Steps
    <3>2. account'[Target(g)] = account[Target(g)]
      BY <1>5, <3>1 DEF Create, Exists
    <3> QED
      BY <3>2 DEF PromotionAgrees
  <2>3. RolesAgree'
    <3> SUFFICES ASSUME NEW k \in Keys, Online(k) PROVE RoleAgrees(k)'
      BY <1>5, RolesOneByOne DEF Create, RoleAgrees, Online
    <3>1. account'[k] = account[k]
      BY <1>5 DEF Create, Shape, PlayerShape
    <3>2. PromotedNow(k) => PromotedNow(k)'
      BY <1>5 DEF Create, PromotedNow, At, Target
    <3> QED
      BY <1>5, <3>1, <3>2, RoleStays DEF Create
  <2> QED
    BY <2>1, <2>2, <2>3
<1>6. ASSUME NEW c \in Connections, Created(c) PROVE Promotions'
  <2>1. ASSUME NEW d \in Connections PROVE CopyAgrees(d)'
    BY <1>6 DEF Created, StartJoin, End, CopyAgrees, Holding, Shape, ShapeOf, Exists, Account
  <2>2. ASSUME NEW g \in Commands PROVE PromotionAgrees(g)'
    BY <1>6 DEF Created, StartJoin, End, PromotionAgrees, At, Target, Shape, CommandShape, Exists
  <2>3. RolesAgree'
    BY <1>6 DEF Created, StartJoin, End, RolesAgree, CopyAgrees, PromotionAgrees, Holding, At, Target, Shape, PlayerShape, Online, Exists
  <2> QED
    BY <2>1, <2>2, <2>3
<1>7. ASSUME NEW c \in Connections, Join(c) PROVE Promotions'
  <2>1. ASSUME NEW d \in Connections PROVE CopyAgrees(d)'
    BY <1>7 DEF Join, Session, CopyAgrees, Holding, Shape, ShapeOf, Exists, Account
  <2>2. ASSUME NEW g \in Commands PROVE PromotionAgrees(g)'
    BY <1>7 DEF Join, Session, PromotionAgrees, At, Target, Shape, CommandShape, Exists
  <2>3. RolesAgree'
    BY <1>7 DEF Join, Session, RolesAgree, CopyAgrees, PromotionAgrees, Holding, At, Target, Shape, PlayerShape, Online, Exists
  <2> QED
    BY <2>1, <2>2, <2>3
<1>8. ASSUME NEW c \in Connections, Joined(c) PROVE Promotions'
  <2>1. ASSUME NEW d \in Connections PROVE CopyAgrees(d)'
    BY <1>8 DEF Joined, CopyAgrees, Holding, Shape, ShapeOf, Exists, Account
  <2>2. ASSUME NEW g \in Commands PROVE PromotionAgrees(g)'
    BY <1>8 DEF Joined, PromotionAgrees, At, Target, Shape, CommandShape, Exists
  <2>3. RolesAgree'
    BY <1>8 DEF Joined, RolesAgree, CopyAgrees, PromotionAgrees, Holding, At, Target, Shape, PlayerShape, Online, Exists
  <2> QED
    BY <2>1, <2>2, <2>3
<1>9. ASSUME NEW c \in Connections, Quit(c) PROVE Promotions'
  <2>1. ASSUME NEW d \in Connections PROVE CopyAgrees(d)'
    BY <1>9 DEF Quit, End, CopyAgrees, Holding, Shape, ShapeOf, Exists, Account
  <2>2. ASSUME NEW g \in Commands PROVE PromotionAgrees(g)'
    BY <1>9 DEF Quit, End, PromotionAgrees, At, Target, Shape, CommandShape, Exists
  <2>3. RolesAgree'
    BY <1>9 DEF Quit, End, RolesAgree, CopyAgrees, PromotionAgrees, Holding, At, Target, Shape, PlayerShape, Online, Exists
  <2> QED
    BY <2>1, <2>2, <2>3
<1>10. ASSUME NEW c \in Connections, Leave(c) PROVE Promotions'
  <2>1. ASSUME NEW d \in Connections PROVE CopyAgrees(d)'
    BY <1>10 DEF Leave, End, InWorld, CopyAgrees, Holding, Shape, ShapeOf, Exists, Account
  <2>2. ASSUME NEW g \in Commands PROVE PromotionAgrees(g)'
    BY <1>10 DEF Leave, End, InWorld, PromotionAgrees, At, Target, Shape, CommandShape, Exists
  <2>3. RolesAgree'
    BY <1>10 DEF Leave, End, InWorld, RolesAgree, CopyAgrees, PromotionAgrees, Holding, At, Target, Shape, PlayerShape, Online, Exists
  <2> QED
    BY <2>1, <2>2, <2>3
<1>11. ASSUME NEW c \in Connections, Notice(c) PROVE Promotions'
  <2>1. ASSUME NEW d \in Connections PROVE CopyAgrees(d)'
    BY <1>11 DEF Notice, CopyAgrees, Holding, Shape, ShapeOf, Exists, Account
  <2>2. ASSUME NEW g \in Commands PROVE PromotionAgrees(g)'
    BY <1>11 DEF Notice, PromotionAgrees, At, Target, Shape, CommandShape, Exists
  <2>3. RolesAgree'
    BY <1>11 DEF Notice, RolesAgree, CopyAgrees, PromotionAgrees, Holding, At, Target, Shape, PlayerShape, Online, Exists
  <2> QED
    BY <2>1, <2>2, <2>3
<1>12. ASSUME NEW h \in Commands, NEW order \in Orders, NEW by \in Staff, Begin(h, order, by)
      PROVE  Promotions'
  <2>1. ASSUME NEW d \in Connections PROVE CopyAgrees(d)'
    BY <1>12 DEF Begin, FirstStep, CopyAgrees, Holding, Shape, ShapeOf, Exists, Account
  <2>2. ASSUME NEW g \in Commands PROVE PromotionAgrees(g)'
    BY <1>12 DEF Begin, FirstStep, PromotionAgrees, At, Target, Shape, CommandShape, Exists
  <2>3. RolesAgree'
    <3> SUFFICES ASSUME NEW k \in Keys, Online(k), live[k].by \notin behind,
                        k \notin crossed
                 PROVE  \/ \E g \in Commands :
                             At(g, "promote", "act")' /\ Target(g)' = k
                        \/ live[k].role = account'[k].role
      BY <1>12 DEF Begin, RolesAgree, Online
    <3>1. ASSUME NEW g \in Commands, At(g, "promote", "act")
          PROVE  command'[g] = command[g]
      BY <1>12, <3>1 DEF Begin, At, NotGiven
    <3> QED
      BY <1>12, <3>1 DEF Begin, RolesAgree, At, Target
  <2> QED
    BY <2>1, <2>2, <2>3
<1>13. ASSUME NEW h \in Commands, LookToKick(h) PROVE Promotions'
  <2>1. ASSUME NEW d \in Connections PROVE CopyAgrees(d)'
    BY <1>13, Ordered DEF LookToKick, Steps, Continue, Finish, Over, CopyAgrees, Holding, Shape, ShapeOf, Exists, Account
  <2>2. ASSUME NEW g \in Commands PROVE PromotionAgrees(g)'
    BY <1>13, Ordered DEF LookToKick, Steps, Continue, Finish, Over, PromotionAgrees, At, Target, Shape, CommandShape, Exists
  <2>3. RolesAgree'
    BY <1>13, Ordered DEF LookToKick, Steps, Continue, Finish, Over, RolesAgree, CopyAgrees, PromotionAgrees, Holding, At, Target, Shape, PlayerShape, Online, Exists
  <2> QED
    BY <2>1, <2>2, <2>3
<1>14. ASSUME NEW h \in Commands, Kick(h) PROVE Promotions'
  <2>1. ASSUME NEW d \in Connections PROVE CopyAgrees(d)'
    BY <1>14, Ordered DEF Kick, Removed, Steps, Continue, Finish, Over, CopyAgrees, Holding, Shape, ShapeOf, Exists, Account
  <2>2. ASSUME NEW g \in Commands PROVE PromotionAgrees(g)'
    BY <1>14, Ordered DEF Kick, Removed, Steps, Continue, Finish, Over, PromotionAgrees, At, Target, Shape, CommandShape, Exists
  <2>3. RolesAgree'
    BY <1>14, Ordered DEF Kick, Removed, Steps, Continue, Finish, Over, RolesAgree, CopyAgrees, PromotionAgrees, Holding, At, Target, Shape, PlayerShape, Online, Exists
  <2> QED
    BY <2>1, <2>2, <2>3
<1>15. ASSUME NEW h \in Commands, StoreBan(h) PROVE Promotions'
  <2>1. ASSUME NEW d \in Connections PROVE CopyAgrees(d)'
    BY <1>15, Ordered DEF StoreBan, WithBan, Steps, Continue, Finish, Over, CopyAgrees, Holding, Shape, ShapeOf, Exists, Account
  <2>2. ASSUME NEW g \in Commands PROVE PromotionAgrees(g)'
    BY <1>15, Ordered DEF StoreBan, WithBan, Steps, Continue, Finish, Over, PromotionAgrees, At, Target, Shape, CommandShape, Exists
  <2>3. RolesAgree'
    <3> SUFFICES ASSUME NEW k \in Keys, Online(k), live[k].by \notin behind,
                        k \notin crossed
                 PROVE  \/ \E g \in Commands :
                             At(g, "promote", "act")' /\ Target(g)' = k
                        \/ live[k].role = account'[k].role
      BY <1>15 DEF StoreBan, RolesAgree, Online
    <3>1. ASSUME NEW g \in Commands, At(g, "promote", "act")
          PROVE  command'[g] = command[g]
      BY <1>15, <3>1 DEF StoreBan, At, Continue, Finish
    <3>2. account'[k].role = account[k].role
      BY <1>15, Ordered DEF StoreBan, WithBan, Steps
    <3> QED
      BY <3>1, <3>2 DEF RolesAgree, At, Target
  <2> QED
    BY <2>1, <2>2, <2>3
<1>16. ASSUME NEW h \in Commands, KickBanned(h) PROVE Promotions'
  <2>1. ASSUME NEW d \in Connections PROVE CopyAgrees(d)'
    BY <1>16, Ordered DEF KickBanned, Removed, Steps, Continue, Finish, Over, CopyAgrees, Holding, Shape, ShapeOf, Exists, Account
  <2>2. ASSUME NEW g \in Commands PROVE PromotionAgrees(g)'
    BY <1>16, Ordered DEF KickBanned, Removed, Steps, Continue, Finish, Over, PromotionAgrees, At, Target, Shape, CommandShape, Exists
  <2>3. RolesAgree'
    BY <1>16, Ordered DEF KickBanned, Removed, Steps, Continue, Finish, Over, RolesAgree, CopyAgrees, PromotionAgrees, Holding, At, Target, Shape, PlayerShape, Online, Exists
  <2> QED
    BY <2>1, <2>2, <2>3
<1>17. ASSUME NEW h \in Commands, StoreUnban(h) PROVE Promotions'
  <2>1. ASSUME NEW d \in Connections PROVE CopyAgrees(d)'
    BY <1>17, Ordered DEF StoreUnban, WithBan, Steps, Continue, Finish, Over, CopyAgrees, Holding, Shape, ShapeOf, Exists, Account
  <2>2. ASSUME NEW g \in Commands PROVE PromotionAgrees(g)'
    BY <1>17, Ordered DEF StoreUnban, WithBan, Steps, Continue, Finish, Over, PromotionAgrees, At, Target, Shape, CommandShape, Exists
  <2>3. RolesAgree'
    <3> SUFFICES ASSUME NEW k \in Keys PROVE RoleAgrees(k)'
      BY RolesOneByOne
    <3>1. account'[k].role = account[k].role
      BY <1>17, Ordered DEF StoreUnban, WithBan, Steps, Exists
    <3>2. ~At(h, "promote", "act") /\ \A g \in Commands \ {h} : command'[g] = command[g]
      BY <1>17 DEF StoreUnban, At, Continue, Finish
    <3> QED
      BY <1>17, <3>1, <3>2, RoleStays, PromotionsStay DEF StoreUnban
  <2> QED
    BY <2>1, <2>2, <2>3
<1>18. ASSUME NEW h \in Commands, LookToPromote(h) PROVE Promotions'
  <2>1. ASSUME NEW d \in Connections PROVE CopyAgrees(d)'
    BY <1>18, Ordered DEF LookToPromote, Steps, Continue, Finish, Over, CopyAgrees, Holding, Shape, ShapeOf, Exists, Account
  <2>2. ASSUME NEW g \in Commands PROVE PromotionAgrees(g)'
    BY <1>18, Ordered DEF LookToPromote, Steps, Continue, Finish, Over, PromotionAgrees, At, Target, Shape, CommandShape, Exists
  <2>3. RolesAgree'
    <3> SUFFICES ASSUME NEW k \in Keys PROVE RoleAgrees(k)'
      BY RolesOneByOne
    <3>1. account'[k].role = account[k].role
      BY <1>18, Ordered DEF LookToPromote, Steps, Exists
    <3>2. ~At(h, "promote", "act") /\ \A g \in Commands \ {h} : command'[g] = command[g]
      BY <1>18 DEF LookToPromote, At, Continue, Finish
    <3> QED
      BY <1>18, <3>1, <3>2, RoleStays, PromotionsStay DEF LookToPromote
  <2> QED
    BY <2>1, <2>2, <2>3
<1>19. ASSUME NEW h \in Commands, StoreRole(h) PROVE Promotions'
  <2>1. ASSUME NEW d \in Connections PROVE CopyAgrees(d)'
    BY <1>19, Ordered DEF StoreRole, WithRole, RoleNotStored, HoldingFor, Steps, Continue, Finish, Over, CopyAgrees, Holding, Shape, ShapeOf, Exists, Account
  <2>2. ASSUME NEW g \in Commands PROVE PromotionAgrees(g)'
    <3>1. Target(h) \in Keys
      BY <1>19, Ordered DEF StoreRole, Steps
    <3>2. CASE g = h
      <4>1. CASE Continue(h, "act")
        BY <1>19, <3>1, <3>2, <4>1, Ordered
        DEF StoreRole, WithRole, RoleNotStored, Continue, Finish, Over, Steps,
            PromotionAgrees, At, Target
      <4>2. CASE Finish(h)
        BY <3>2, <4>2 DEF Finish, Over, PromotionAgrees, At
      <4> QED
        BY <1>19, <4>1, <4>2 DEF StoreRole, RoleNotStored
    <3>3. CASE g # h
      <4> SUFFICES ASSUME At(g, "promote", "act")'
                   PROVE  Target(g)' \in crossed' \/
                          command'[g].order.role = account'[Target(g)'].role
        BY DEF PromotionAgrees
      <4>1. command'[g] = command[g]
        BY <1>19, <3>3 DEF StoreRole, RoleNotStored, Continue, Finish
      <4>2. At(g, "promote", "act") /\ Target(g)' = Target(g)
        BY <4>1 DEF At, Target
      <4>3. crossed \subseteq crossed'
        BY <1>19 DEF StoreRole
      <4>4. CASE Target(g) = Target(h) /\ Continue(h, "act")
        <5>1. PromotingToo(h)
          BY <3>3, <4>2, <4>4 DEF PromotingToo
        <5>2. Continue(h, "act") => ~Finish(h)
          BY DEF Continue, Finish, Over, TypeOK
        <5> QED
          BY <1>19, <4>2, <4>4, <5>1, <5>2 DEF StoreRole, RoleNotStored
      <4>5. CASE account'[Target(g)] = account[Target(g)]
        BY <4>1, <4>2, <4>3, <4>5 DEF PromotionAgrees
      <4>6. CASE Target(g) # Target(h)
        <5>1. Target(g) \in Keys
          BY <4>2, Ordered DEF Steps
        <5>2. account'[Target(g)] = account[Target(g)]
          BY <1>19, <3>1, <4>6, <5>1 DEF StoreRole
        <5> QED
          BY <4>5, <5>2
      <4> QED
        BY <1>19, <4>4, <4>5, <4>6 DEF StoreRole, RoleNotStored
    <3> QED
      BY <3>2, <3>3
  <2>3. RolesAgree'
    <3> SUFFICES ASSUME NEW k \in Keys PROVE RoleAgrees(k)'
      BY RolesOneByOne
    <3>1. ~At(h, "promote", "act") /\ \A g \in Commands \ {h} : command'[g] = command[g]
      BY <1>19 DEF StoreRole, RoleNotStored, At, Continue, Finish
    <3>2. CASE k = Target(h) /\ Exists(k) /\ Continue(h, "act")
      <4>1. (At(h, "promote", "act") /\ Target(h) = k)'
        BY <1>19, <3>2 DEF StoreRole, Continue, At, Target
      <4> QED
        BY <4>1 DEF RoleAgrees, PromotedNow
    <3>3. CASE account'[k].role = account[k].role
      BY <1>19, <3>1, <3>3, RoleStays, PromotionsStay DEF StoreRole
    <3>4. CASE k # Target(h)
      <4>1. account'[k] = account[k]
        BY <1>19, <3>4 DEF StoreRole
      <4> QED
        BY <3>3, <4>1
    <3> QED
      BY <1>19, <3>2, <3>3, <3>4 DEF StoreRole
  <2> QED
    BY <2>1, <2>2, <2>3
<1>20. ASSUME NEW h \in Commands, SetPlayerRole(h) PROVE Promotions'
  <2>1. ASSUME NEW d \in Connections PROVE CopyAgrees(d)'
    BY <1>20, Ordered DEF SetPlayerRole, Session, Steps, Continue, Finish, Over, CopyAgrees, Holding, Shape, ShapeOf, Exists, Account
  <2>2. ASSUME NEW g \in Commands PROVE PromotionAgrees(g)'
    BY <1>20, Ordered DEF SetPlayerRole, Session, Steps, Continue, Finish, Over, PromotionAgrees, At, Target, Shape, CommandShape, Exists
  <2>3. RolesAgree'
    <3> SUFFICES ASSUME NEW k \in Keys PROVE RoleAgrees(k)'
      BY RolesOneByOne
    <3>1. CASE k = Target(h) /\ k \in crossed
      BY <1>20, <3>1 DEF SetPlayerRole, RoleAgrees
    <3>2. CASE k = Target(h) /\ k \notin crossed
      <4>1. Online(k)' => live'[k] = Session(live[k].by, command[h].order.role)
        BY <1>20, <3>2 DEF SetPlayerRole, Online
      <4>2. command[h].order.role = account'[k].role
        BY <1>20, <3>2 DEF SetPlayerRole, PromotionAgrees
      <4> QED
        BY <4>1, <4>2 DEF Session, RoleAgrees, Online
    <3>3. CASE k # Target(h)
      <4>1. live'[k] = live[k]
        BY <1>20, <3>3 DEF SetPlayerRole
      <4>2. PromotedNow(k) => PromotedNow(k)'
        BY <1>20, <3>3 DEF SetPlayerRole, Finish, PromotedNow, At, Target
      <4> QED
        BY <1>20, <4>1, <4>2, RoleStays DEF SetPlayerRole
    <3> QED
      BY <3>1, <3>2, <3>3
  <2> QED
    BY <2>1, <2>2, <2>3
<1>21. ASSUME NEW h \in Commands, SetMaintenance(h) PROVE Promotions'
  <2>1. ASSUME NEW d \in Connections PROVE CopyAgrees(d)'
    BY <1>21, Ordered DEF SetMaintenance, Steps, Continue, Finish, Over, CopyAgrees, Holding, Shape, ShapeOf, Exists, Account
  <2>2. ASSUME NEW g \in Commands PROVE PromotionAgrees(g)'
    BY <1>21, Ordered DEF SetMaintenance, Steps, Continue, Finish, Over, PromotionAgrees, At, Target, Shape, CommandShape, Exists
  <2>3. RolesAgree'
    BY <1>21, Ordered DEF SetMaintenance, Steps, Continue, Finish, Over, RolesAgree, CopyAgrees, PromotionAgrees, Holding, At, Target, Shape, PlayerShape, Online, Exists
  <2> QED
    BY <2>1, <2>2, <2>3
<1>22. CASE UNCHANGED vars
  BY <1>22 DEF CopyAgrees, PromotionAgrees, RolesAgree, Holding, Online, At, Target
<1> QED
  BY <1>1, <1>2, <1>3, <1>4, <1>5, <1>6, <1>7, <1>8, <1>9, <1>10, <1>11, <1>12, <1>13, <1>14, <1>15, <1>16, <1>17, <1>18, <1>19, <1>20, <1>21, <1>22
  DEF Next, Connecting, Naming, Playing, Given, Carried, Console, Chat, InWorld, Online, Staff

LEMMA InitBansPromotionsDoor == Init => Bans /\ Promotions /\ Door
BY DEF Init, Bans, SentencedRow, EarlyOnly, BansHold, Promotions, CopyAgrees,
       Holding, PromotionAgrees, At, NotGiven, RolesAgree, Online, Door, StaffOnly,
       MaintenanceAdmitsStaffOnly

LEMMA TypedShapeHolds == Spec => []TypedShape
<1>1. TypedShape /\ [Next]_vars => TypedShape'
  BY TypeStep, ShapeStep DEF TypedShape
<1> QED
  BY <1>1, InitTypedShape, PTL DEF Spec

(* The characters table, the registry and the connections always hold what *)
(* their declarations say: in particular nobody joins without a role.      *)
THEOREM TypeCorrect == Spec => []TypeOK
<1>1. TypedShape => TypeOK
  BY DEF TypedShape
<1> QED
  BY <1>1, TypedShapeHolds, PTL

(* A ban that was carried out keeps the character out of the world, except *)
(* for connections that had read it before.                                *)
THEOREM BansAlwaysHold == Spec => []BansHold
<1>1. Bans => BansHold
  BY DEF Bans
<1> QED
  BY <1>1, TypedShapeHolds, InitBansPromotionsDoor, BansStep, PTL DEF Spec

(* Outside a promotion the role in the world is the stored one, whatever   *)
(* fails and whoever leaves and comes back in between.                     *)
THEOREM RolesAlwaysAgree == Spec => []RolesAgree
<1>1. Promotions => RolesAgree
  BY DEF Promotions
<1> QED
  BY <1>1, TypedShapeHolds, InitBansPromotionsDoor, PromotionsStep, PTL DEF Spec

(* Who connects during maintenance and gets into the world is staff.       *)
THEOREM MaintenanceAlwaysAdmitsStaffOnly == Spec => []MaintenanceAdmitsStaffOnly
<1>1. Door => MaintenanceAdmitsStaffOnly
  BY DEF Door
<1> QED
  BY <1>1, TypedShapeHolds, InitBansPromotionsDoor, DoorStep, PTL DEF Spec
=============================================================================
