------------------------------ MODULE Accounts ------------------------------
(***************************************************************************)
(* Who may be in the world of UnderShell: the characters table             *)
(* (src/src/repository/character.go), the connections that read it, create *)
(* characters and join (ui/session.go, ui/game_model.go), and the staff    *)
(* commands that ban, promote, kick and close the door                     *)
(* (src/src/admin/handler.go).                                             *)
(*                                                                         *)
(* Every connection and every command is a goroutine: each action is one   *)
(* statement sent to the database, one request to the world or one message *)
(* of the terminal program, and what was read in one step is used in a     *)
(* later one.  A character is named by its key: the database allows one    *)
(* character per key, and commands find players by a name that is unique.  *)
(* Where players stand and what they own is left to other modules.         *)
(***************************************************************************)
EXTENDS FiniteSets

CONSTANTS
  Keys,          \* SSH keys, each of at most one character
  Connections,   \* connections ever made; each is used once
  KeyOf,         \* [Connections -> Keys]
  Commands,      \* staff commands ever given; each is one run of Handler.execute
  FirstAccounts  \* the contents the characters table may start with

Staff == {"moderator", "admin"}
Roles == Staff \cup {"user"}
Account == [role : Roles, banned : BOOLEAN]

NoAccount == [role |-> "none"]
Nobody == [by |-> "none"]
NewAccount == [role |-> "user", banned |-> FALSE]

ASSUME KeyOfAssumption == KeyOf \in [Connections -> Keys]

ASSUME FirstAccountsAssumption ==
  FirstAccounts \subseteq [Keys -> Account \cup {NoAccount}]

VARIABLES
  account,      \* [Keys -> the row of the characters table, or NoAccount]
  live,         \* [Keys -> the session in the world and its role, or Nobody]
  maintenance,  \* Handler.maintenance
  stage,        \* [Connections -> how far Runner.Run and the program have come]
  copy,         \* [Connections -> the character as this connection read it]
  task,         \* [Connections -> the command the program's goroutine runs]
  message,      \* [Connections -> the result waiting for Update]
  command,      \* [Commands -> a run of Handler.execute]
  (* History, read by the properties only. *)
  sentenced,    \* keys whose ban has been carried out and not been lifted
  early,        \* connections that held their copy when the ban was carried out
  behind,       \* connections that held their copy when a role was stored
  crossed,      \* keys that two promotions were storing at once
  since         \* connections made in the maintenance that still lasts

connectionVars == <<stage, copy, task, message>>
historyVars == <<sentenced, early, behind, crossed, since>>
vars == <<account, live, maintenance, connectionVars, command, historyVars>>

Stages == {"new", "read", "loading", "naming", "joining", "playing",
           "leaving", "gone"}
Tasks == {"none", "create", "join"}
Messages == {"none", "created", "exists", "failed", "joined"}

(* What a command asks for, and how far Handler.execute has come with it.   *)
Orders ==
  [kind : {"kick", "ban", "unban"}, target : Keys]
  \cup [kind : {"promote"}, target : Keys, role : Staff]
  \cup [kind : {"open", "close"}]

Steps == {"look", "store", "act"}
NotGiven == [step |-> "idle"]
Over == [step |-> "done"]
Command == [step : Steps, order : Orders, by : Staff] \cup {NotGiven, Over}

Exists(k) == account[k] # NoAccount
Online(k) == live[k] # Nobody
InWorld(c) == Online(KeyOf[c]) /\ live[KeyOf[c]].by = c

WithBan(k, banned) == [role |-> account[k].role, banned |-> banned]
WithRole(k, role) == [role |-> role, banned |-> account[k].banned]
Session(c, role) == [by |-> c, role |-> role]

(* The connections that will join with what they have already read.         *)
Holding(c) ==
  \/ stage[c] \in {"read", "loading"} /\ copy[c] # NoAccount
  \/ task[c] = "join"
  \/ message[c] = "created"

HoldingFor(k) == {c \in Connections : KeyOf[c] = k /\ Holding(c)}

-----------------------------------------------------------------------------
(* Runner.Run: read the character, look whether it may come in, load the    *)
(* rest and start the program.                                              *)

BannedButIn(char) == FALSE
Banned(char) == char # NoAccount /\ char.banned

AllowsNewcomers(char) == maintenance => (char = NoAccount \/ char.role \in Staff)
AllowsConnection(char) == maintenance => char # NoAccount /\ char.role \in Staff

NeverNew(char) == FALSE
IsNew(char) == char = NoAccount

End(c) ==
  /\ stage' = [stage EXCEPT ![c] = "gone"]
  /\ message' = [message EXCEPT ![c] = "none"]

(* FindByFingerprint: the row, nothing for a new key, or an error.          *)
Read(c) ==
  /\ stage[c] = "new"
  /\ \/ /\ stage' = [stage EXCEPT ![c] = "read"]
        /\ copy' = [copy EXCEPT ![c] = account[KeyOf[c]]]
        /\ UNCHANGED message
     \/ End(c) /\ UNCHANGED copy
  /\ since' = IF maintenance THEN since \cup {c} ELSE since
  /\ UNCHANGED <<account, live, maintenance, task, command,
                 sentenced, early, behind, crossed>>

(* The ban, the maintenance and, for a new key, the rate of registrations,  *)
(* which may refuse anyone.                                                 *)
Admit(c) ==
  /\ stage[c] = "read"
  /\ \/ /\ ~Banned(copy[c]) /\ AllowsConnection(copy[c])
        /\ stage' = [stage EXCEPT
             ![c] = IF IsNew(copy[c]) THEN "naming" ELSE "loading"]
        /\ UNCHANGED message
     \/ /\ \/ Banned(copy[c])
           \/ ~AllowsConnection(copy[c])
           \/ copy[c] = NoAccount
        /\ End(c)
  /\ UNCHANGED <<account, live, maintenance, copy, task, command, historyVars>>

(* Inventory and quests, which may fail; then Init asks to join.            *)
Load(c) ==
  /\ stage[c] = "loading"
  /\ \/ /\ stage' = [stage EXCEPT ![c] = "joining"]
        /\ task' = [task EXCEPT ![c] = "join"]
        /\ UNCHANGED message
     \/ End(c) /\ UNCHANGED task
  /\ UNCHANGED <<account, live, maintenance, copy, command, historyVars>>

-----------------------------------------------------------------------------
(* Creating a character.                                                    *)

SubmitName(c) ==
  /\ stage[c] = "naming" /\ task[c] = "none" /\ message[c] = "none"
  /\ task' = [task EXCEPT ![c] = "create"]
  /\ UNCHANGED <<account, live, maintenance, stage, copy, message, command,
                 historyVars>>

(* Insert the row, then create its inventory; the goroutine runs on when    *)
(* the program has ended and its answer is thrown away.                     *)
Create(c) ==
  LET k == KeyOf[c]
      Answer(m) == message' = [message EXCEPT
                     ![c] = IF stage[c] = "gone" THEN "none" ELSE m]
  IN  /\ task[c] = "create"
      /\ task' = [task EXCEPT ![c] = "none"]
      /\ \/ /\ ~Exists(k)
            /\ account' = [account EXCEPT ![k] = NewAccount]
            /\ \/ Answer("created") /\ copy' = [copy EXCEPT ![c] = NewAccount]
               \/ Answer("failed") /\ UNCHANGED copy
         \/ Exists(k) /\ Answer("exists") /\ UNCHANGED <<account, copy>>
         \/ Answer("failed") /\ UNCHANGED <<account, copy>>
      /\ UNCHANGED <<live, maintenance, stage, command, historyVars>>

StartJoin(c) ==
  /\ stage' = [stage EXCEPT ![c] = "joining"]
  /\ task' = [task EXCEPT ![c] = "join"]
  /\ message' = [message EXCEPT ![c] = "none"]

(* characterCreatedMsg.  Another connection of the same key may have been   *)
(* first: its character is read again, and its ban is looked at again.      *)
(* If that fails, or its inventory cannot be read, a name may be given again. *)
Created(c) ==
  LET found == account[KeyOf[c]]
  IN  /\ stage[c] = "naming"
      /\ \/ message[c] = "created" /\ StartJoin(c) /\ UNCHANGED copy
         \/ /\ message[c] = "exists" /\ Banned(found)
            /\ End(c)
            /\ UNCHANGED <<copy, task>>
         \/ /\ message[c] = "exists" /\ ~Banned(found)
            /\ StartJoin(c)
            /\ copy' = [copy EXCEPT ![c] = found]
         \/ /\ message[c] \in {"exists", "failed"}
            /\ message' = [message EXCEPT ![c] = "none"]
            /\ \/ message[c] = "exists" /\ copy' = [copy EXCEPT ![c] = found]
               \/ UNCHANGED copy
            /\ UNCHANGED <<stage, task>>
      /\ UNCHANGED <<account, live, maintenance, command, historyVars>>

-----------------------------------------------------------------------------
(* In the world.                                                            *)

(* The world replaces whoever played this character; the goroutine asks     *)
(* even when the program that started it has ended.                         *)
Join(c) ==
  /\ task[c] = "join"
  /\ live' = [live EXCEPT ![KeyOf[c]] = Session(c, copy[c].role)]
  /\ task' = [task EXCEPT ![c] = "none"]
  /\ message' = [message EXCEPT
       ![c] = IF stage[c] = "gone" THEN "none" ELSE "joined"]
  /\ UNCHANGED <<account, maintenance, stage, copy, command, historyVars>>

Joined(c) ==
  /\ stage[c] = "joining" /\ message[c] = "joined"
  /\ stage' = [stage EXCEPT ![c] = "playing"]
  /\ message' = [message EXCEPT ![c] = "none"]
  /\ UNCHANGED <<account, live, maintenance, copy, task, command, historyVars>>

(* The program ends at any moment: a key, a lost connection.  leaveWorld    *)
(* leaves only a world the program knows it has joined.                     *)
Quit(c) ==
  /\ stage[c] \in {"naming", "joining", "playing"}
  /\ IF stage[c] = "playing"
       THEN stage' = [stage EXCEPT ![c] = "leaving"] /\ UNCHANGED message
       ELSE End(c)
  /\ UNCHANGED <<account, live, maintenance, copy, task, command, historyVars>>

Leave(c) ==
  /\ stage[c] = "leaving"
  /\ live' = [live EXCEPT ![KeyOf[c]] = IF InWorld(c) THEN Nobody ELSE @]
  /\ End(c)
  /\ UNCHANGED <<account, maintenance, copy, task, command, historyVars>>

(* The channels of a session that was replaced or kicked are closed, and    *)
(* the program quits when it hears of it.                                   *)
Notice(c) ==
  /\ stage[c] = "playing" /\ ~InWorld(c)
  /\ stage' = [stage EXCEPT ![c] = "leaving"]
  /\ UNCHANGED <<account, live, maintenance, copy, task, message, command,
                 historyVars>>
-----------------------------------------------------------------------------
(* Handler.execute: who may give which command.                             *)

FirstStep(kind) == IF kind \in {"kick", "promote"} THEN "look" ELSE "store"

MayGive(kind, role) == kind \in {"promote", "ban", "unban"} => role = "admin"

Begin(h, order, by) ==
  /\ command[h] = NotGiven
  /\ MayGive(order.kind, by)
  /\ command' = [command EXCEPT
       ![h] = [step |-> FirstStep(order.kind), order |-> order, by |-> by]]
  /\ UNCHANGED <<account, live, maintenance, connectionVars, historyVars>>

Console(h, order) == Begin(h, order, "admin")

(* In chat the world is asked for the role of the session that speaks.      *)
Chat(h, c, order) ==
  /\ stage[c] \in {"playing", "leaving"}
  /\ InWorld(c) /\ live[KeyOf[c]].role \in Staff
  /\ Begin(h, order, live[KeyOf[c]].role)

Continue(h, step) ==
  command' = [command EXCEPT
    ![h] = [step |-> step, order |-> command[h].order, by |-> command[h].by]]
Finish(h) == command' = [command EXCEPT ![h] = Over]

At(h, kind, step) == command[h].step = step /\ command[h].order.kind = kind
Target(h) == command[h].order.target

(* kick: find the player and look at its role, then kick the name.          *)
MayKick(h, player) == command[h].by = "moderator" => player.role # "admin"

LookToKick(h) ==
  LET k == Target(h)
  IN  /\ At(h, "kick", "look")
      /\ IF Online(k) /\ MayKick(h, live[k]) THEN Continue(h, "act")
                                             ELSE Finish(h)
      /\ UNCHANGED <<account, live, maintenance, connectionVars, historyVars>>

Removed(k) == [live EXCEPT ![k] = Nobody]
NotRemoved(k) == live

Kick(h) ==
  /\ At(h, "kick", "act")
  /\ live' = Removed(Target(h))
  /\ Finish(h)
  /\ UNCHANGED <<account, maintenance, connectionVars, historyVars>>

(* ban: SetBanned, then kick the name.                                      *)
StoreBan(h) ==
  LET k == Target(h)
  IN  /\ At(h, "ban", "store")
      /\ \/ /\ Exists(k)
            /\ account' = [account EXCEPT ![k] = WithBan(k, TRUE)]
            /\ Continue(h, "act")
         \/ Finish(h) /\ UNCHANGED account
      /\ UNCHANGED <<live, maintenance, connectionVars, historyVars>>

KickBanned(h) ==
  LET k == Target(h)
  IN  /\ At(h, "ban", "act")
      /\ live' = Removed(k)
      /\ Finish(h)
      /\ sentenced' = IF account[k].banned THEN sentenced \cup {k} ELSE sentenced
      /\ early' = early \cup HoldingFor(k)
      /\ UNCHANGED <<account, maintenance, connectionVars, behind, crossed, since>>

StoreUnban(h) ==
  LET k == Target(h)
  IN  /\ At(h, "unban", "store")
      /\ \/ /\ Exists(k)
            /\ account' = [account EXCEPT ![k] = WithBan(k, FALSE)]
            /\ sentenced' = sentenced \ {k}
         \/ UNCHANGED <<account, sentenced>>
      /\ Finish(h)
      /\ UNCHANGED <<live, maintenance, connectionVars, early, behind, crossed,
                     since>>

(* promote: find the player, store the role, then set it in the world.      *)
LookToPromote(h) ==
  LET k == Target(h)
  IN  /\ At(h, "promote", "look")
      /\ IF Online(k) /\ live[k].role \notin {"admin", command[h].order.role}
           THEN Continue(h, "store")
           ELSE Finish(h)
      /\ UNCHANGED <<account, live, maintenance, connectionVars, historyVars>>

PromotingToo(h) ==
  \E g \in Commands \ {h} :
    /\ At(g, "promote", "store") \/ At(g, "promote", "act")
    /\ Target(g) = Target(h)

RoleNotStoredButSet(h) == Continue(h, "act")
RoleNotStored(h) == Finish(h)

(* UpdateRole, which may fail: then the world is not asked.                 *)
StoreRole(h) ==
  LET k == Target(h)
  IN  /\ At(h, "promote", "store")
      /\ \/ /\ Exists(k)
            /\ account' = [account EXCEPT ![k] = WithRole(k, command[h].order.role)]
            /\ Continue(h, "act")
            /\ behind' = behind \cup HoldingFor(k)
            /\ crossed' = IF PromotingToo(h) THEN crossed \cup {k} ELSE crossed
         \/ RoleNotStored(h) /\ UNCHANGED <<account, behind, crossed>>
      /\ UNCHANGED <<live, maintenance, connectionVars, sentenced, early, since>>

SetPlayerRole(h) ==
  LET k == Target(h)
  IN  /\ At(h, "promote", "act")
      /\ live' = [live EXCEPT
           ![k] = IF Online(k) THEN Session(live[k].by, command[h].order.role)
                               ELSE Nobody]
      /\ Finish(h)
      /\ UNCHANGED <<account, maintenance, connectionVars, historyVars>>

(* maintenance on and off.                                                  *)
SetMaintenance(h) ==
  /\ At(h, "open", "store") \/ At(h, "close", "store")
  /\ maintenance' = At(h, "close", "store")
  /\ Finish(h)
  /\ since' = IF At(h, "open", "store") THEN {} ELSE since
  /\ UNCHANGED <<account, live, connectionVars, sentenced, early, behind, crossed>>
-----------------------------------------------------------------------------
Init ==
  /\ account \in FirstAccounts
  /\ live = [k \in Keys |-> Nobody]
  /\ maintenance = FALSE
  /\ stage = [c \in Connections |-> "new"]
  /\ copy = [c \in Connections |-> NoAccount]
  /\ task = [c \in Connections |-> "none"]
  /\ message = [c \in Connections |-> "none"]
  /\ command = [h \in Commands |-> NotGiven]
  /\ sentenced = {} /\ early = {} /\ behind = {} /\ crossed = {} /\ since = {}

Connecting(c) == Read(c) \/ Admit(c) \/ Load(c)
Naming(c) == SubmitName(c) \/ Create(c) \/ Created(c)
Playing(c) == Join(c) \/ Joined(c) \/ Quit(c) \/ Leave(c) \/ Notice(c)

Given(h) ==
  \E order \in Orders :
    Console(h, order) \/ \E c \in Connections : Chat(h, c, order)

Carried(h) ==
  \/ LookToKick(h) \/ Kick(h)
  \/ StoreBan(h) \/ KickBanned(h) \/ StoreUnban(h)
  \/ LookToPromote(h) \/ StoreRole(h) \/ SetPlayerRole(h)
  \/ SetMaintenance(h)

Next ==
  \/ \E c \in Connections : Connecting(c) \/ Naming(c) \/ Playing(c)
  \/ \E h \in Commands : Given(h) \/ Carried(h)

Spec == Init /\ [][Next]_vars
-----------------------------------------------------------------------------
TypeOK ==
  /\ account \in [Keys -> Account \cup {NoAccount}]
  /\ live \in [Keys -> [by : Connections, role : Roles] \cup {Nobody}]
  /\ maintenance \in BOOLEAN
  /\ stage \in [Connections -> Stages]
  /\ copy \in [Connections -> Account \cup {NoAccount}]
  /\ task \in [Connections -> Tasks]
  /\ message \in [Connections -> Messages]
  /\ command \in [Commands -> Command]
  /\ sentenced \subseteq Keys /\ crossed \subseteq Keys
  /\ early \subseteq Connections /\ behind \subseteq Connections
  /\ since \subseteq Connections

(* Once a ban has been carried out, nobody plays that character but a       *)
(* connection that had read it, unbanned, before and had not joined yet.    *)
BansHold ==
  \A k \in sentenced : Online(k) => live[k].by \in early

(* Outside a promotion, the role a session plays with is the stored one:    *)
(* also after failed stores, players that left between the two steps and    *)
(* reconnected, and sessions replaced meanwhile.  Excepted are connections  *)
(* that had read the character before the role was stored, and characters   *)
(* two staff members promoted at the same time.                             *)
RolesAgree ==
  \A k \in Keys :
    \/ ~Online(k) \/ live[k].by \in behind \/ k \in crossed
    \/ \E h \in Commands : At(h, "promote", "act") /\ Target(h) = k
    \/ live[k].role = account[k].role

(* Who connects while the door is closed plays only as staff, however long  *)
(* it takes to load, to name a character or to find that it exists.         *)
MaintenanceAdmitsStaffOnly ==
  \A k \in Keys : Online(k) /\ live[k].by \in since =>
                    copy[live[k].by].role \in Staff
=============================================================================
