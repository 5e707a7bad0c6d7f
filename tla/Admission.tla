------------------------------ MODULE Admission ------------------------------
(* Admission control of the SSH server (sshserver/admission.go and the        *)
(* callbacks of sshserver/server.go): how many connections and sessions may   *)
(* be open, in all and per address, and how many handshakes and registrations *)
(* an address may make per window of time.                                    *)
(*                                                                            *)
(* Connections and sessions run concurrently.  A call that takes one mutex is *)
(* one step; acquireConnection takes two, one after the other, and is two.    *)
(* The time a limiter is asked about is read before its mutex is taken, so it *)
(* may be old by up to Delay when it is used.                                 *)
EXTENDS Integers, FiniteSets, Functions

CONSTANTS
  Connections,         \* TCP connections; one that has ended may come again
  Sessions,            \* SSH sessions, each of one connection
  Addresses,           \* remote addresses without their ports
  Address,             \* the address of each connection
  Carrier,             \* the connection of each session
  Configs,             \* configurations the server may be started with
  Window,              \* of the limiters "handshakes" and "registrations"
  SweepAt,             \* entries a limiter keeps before it forgets old ones
  Delay,               \* ticks between reading the clock and its use, at most
  MaxTime,             \* bound of the clock
  Until                \* bound of the clock under each configuration

ASSUME AddressAssumption ==
  /\ Address \in [Connections -> Addresses]
  /\ Carrier \in [Sessions -> Connections]
  /\ IsFiniteSet(Connections) /\ IsFiniteSet(Sessions)

Limiters == {"handshakes", "registrations"}

AdmissionConfig == [MaxConnections : Nat, MaxConnectionsPerIP : Nat,
                    MaxSessions : Nat, limit : [Limiters -> Int]]

ASSUME LimitsAssumption ==
  /\ Configs \subseteq AdmissionConfig
  /\ Window \in [Limiters -> Nat \ {0}]
  /\ SweepAt \in Nat /\ MaxTime \in Nat /\ Until \in [Configs -> 0..MaxTime]
  /\ Delay \in Nat /\ \A l \in Limiters : Delay < Window[l]

VARIABLES
  config,       \* admissionController.config, which never changes
  conn,         \* what each connection is doing
  session,      \* what each session is doing
  stamp,        \* the time each connection and each session has read
  connections, connectionsByIP, sessions,  \* the controller's counters
  entries,      \* fixedWindowLimiter.entries, for both limiters
  clock,
  granted       \* history: when each limiter let each address through, for as
                \* long as its window is

vars == <<config, conn, session, stamp, connections, connectionsByIP, sessions,
          entries, clock, granted>>

(* A connection is away, asks a limiter ("asking"), asks for a place          *)
(* ("allowed"), is open, and is closed; a session is away, runs, and may ask  *)
(* to register ("registering") and be answered ("registered").                *)
Open(ip) == {c \in Connections : conn[c] = "open" /\ Address[c] = ip}
AllOpen == {c \in Connections : conn[c] = "open"}
Running == {s \in Sessions : session[s] # "away"}

(* The zero value that a map lookup finds for an address without an entry.    *)
NoEntry == [started |-> -1, seen |-> -1, count |-> 0]

Entry == [started : 0..MaxTime, seen : 0..MaxTime, count : Nat]

-----------------------------------------------------------------------------
(* The fixed window limiter.                                                  *)

Over(l, entry, now) == entry = NoEntry \/ now - entry.started >= Window[l]

(* The entry as it is when the request is judged.                             *)
Current(l, ip, now) ==
  LET entry == entries[l][ip] IN
  IF Over(l, entry, now) THEN [started |-> now, seen |-> now, count |-> 0]
                         ELSE [entry EXCEPT !.seen = now]

\* The limit taken for the first request refused.
AllowsOneMore(l, ip, now) == config.limit[l] > 0 /\ Current(l, ip, now).count <= config.limit[l]

Allows(l, ip, now) == config.limit[l] > 0 /\ Current(l, ip, now).count < config.limit[l]

(* A limiter that has grown forgets the addresses not seen for two windows.   *)
Swept(l, kept, now) ==
  IF Cardinality({ip \in Addresses : kept[ip] # NoEntry}) <= SweepAt THEN kept
  ELSE [ip \in Addresses |->
          IF kept[ip] # NoEntry /\ now - kept[ip].seen >= 2 * Window[l]
          THEN NoEntry ELSE kept[ip]]

Counted(l, ip, now) ==
  LET entry == Current(l, ip, now) IN
  IF Allows(l, ip, now)
  THEN Swept(l, [entries[l] EXCEPT ![ip] = [entry EXCEPT !.count = @ + 1]], now)
  ELSE IF config.limit[l] > 0 THEN [entries[l] EXCEPT ![ip] = entry] ELSE entries[l]

(* One call of allow: the answer is Allows(l, ip, now).                       *)
Ask(l, ip, now) ==
  /\ entries' = [entries EXCEPT ![l] = Counted(l, ip, now)]
  /\ granted' = IF Allows(l, ip, now) THEN [granted EXCEPT ![l][ip][clock] = @ + 1]
                                      ELSE granted

-----------------------------------------------------------------------------
(* Connections.                                                               *)

(* ConnCallback reads the clock and calls acquireConnection.                  *)
Arrive(c) ==
  /\ conn[c] \in {"away", "closed"}
  /\ conn' = [conn EXCEPT ![c] = "asking"]
  /\ stamp' = [stamp EXCEPT ![c] = clock]
  /\ UNCHANGED <<config, session, connections, connectionsByIP, sessions, entries, clock, granted>>

AskHandshake(c) ==
  /\ conn[c] = "asking"
  /\ Ask("handshakes", Address[c], stamp[c])
  /\ conn' = [conn EXCEPT ![c] = IF Allows("handshakes", Address[c], stamp[c])
                                 THEN "allowed" ELSE "away"]
  /\ UNCHANGED <<config, session, stamp, connections, connectionsByIP, sessions, clock>>

\* One connection too many.
HasRoomForOneMore(ip) == /\ connections <= config.MaxConnections
                         /\ connectionsByIP[ip] < config.MaxConnectionsPerIP

HasRoom(ip) == /\ connections < config.MaxConnections
               /\ connectionsByIP[ip] < config.MaxConnectionsPerIP

Acquire(c) ==
  /\ conn[c] = "allowed"
  /\ IF HasRoom(Address[c])
     THEN /\ connections' = connections + 1
          /\ connectionsByIP' = [connectionsByIP EXCEPT ![Address[c]] = @ + 1]
          /\ conn' = [conn EXCEPT ![c] = "open"]
     ELSE /\ conn' = [conn EXCEPT ![c] = "away"]
          /\ UNCHANGED <<connections, connectionsByIP>>
  /\ UNCHANGED <<config, session, stamp, sessions, entries, clock, granted>>

(* admittedConn.once lets only the first Close of a connection through, and   *)
(* releaseConnection gives nothing back for an address that has nothing.      *)
\* Without the Once.
ReleasesAgain(c) == connectionsByIP[Address[c]] # 0

\* Without the Once and without the guard.
ReleasesAlways(c) == TRUE

Releases(c) == conn[c] = "open" /\ connectionsByIP[Address[c]] # 0

(* A connection is closed by its handler, by a timer or by shutdown, and may  *)
(* be closed again by another of them.                                        *)
Close(c) ==
  /\ conn[c] \in {"open", "closed"}
  /\ conn' = [conn EXCEPT ![c] = "closed"]
  /\ IF Releases(c)
     THEN /\ connections' = connections - 1
          /\ connectionsByIP' = [connectionsByIP EXCEPT ![Address[c]] = @ - 1]
     ELSE UNCHANGED <<connections, connectionsByIP>>
  /\ UNCHANGED <<config, session, stamp, sessions, entries, clock, granted>>

-----------------------------------------------------------------------------
(* Sessions.  A session outlives its connection until its handler returns.    *)

SessionRoom == sessions < config.MaxSessions

OpenSession(s) ==
  /\ session[s] = "away" /\ conn[Carrier[s]] = "open" /\ SessionRoom
  /\ session' = [session EXCEPT ![s] = "running"]
  /\ sessions' = sessions + 1
  /\ UNCHANGED <<config, conn, stamp, connections, connectionsByIP, entries, clock, granted>>

(* A key without a character asks to register, with the time it reads.        *)
Register(s) ==
  /\ session[s] = "running"
  /\ session' = [session EXCEPT ![s] = "registering"]
  /\ stamp' = [stamp EXCEPT ![s] = clock]
  /\ UNCHANGED <<config, conn, connections, connectionsByIP, sessions, entries, clock, granted>>

(* AllowRegistration; a refused session goes on to return from its handler.   *)
AskRegistration(s) ==
  /\ session[s] = "registering"
  /\ Ask("registrations", Address[Carrier[s]], stamp[s])
  /\ session' = [session EXCEPT ![s] = "registered"]
  /\ UNCHANGED <<config, conn, stamp, connections, connectionsByIP, sessions, clock>>

(* The handler returns: its deferred releaseSession.                          *)
CloseSession(s) ==
  /\ session[s] \in {"running", "registered"}
  /\ session' = [session EXCEPT ![s] = "away"]
  /\ sessions' = IF sessions = 0 THEN 0 ELSE sessions - 1
  /\ UNCHANGED <<config, conn, stamp, connections, connectionsByIP, entries, clock, granted>>

-----------------------------------------------------------------------------
(* Those that have read the clock and not used what they read.                *)
Asking == {c \in Connections : conn[c] = "asking"}
            \cup {s \in Sessions : session[s] = "registering"}

Tick ==
  /\ clock < Until[config]
  /\ \A x \in Asking : clock + 1 - stamp[x] <= Delay
  /\ clock' = clock + 1
  /\ granted' = [l \in Limiters |-> [ip \in Addresses |-> [t \in 0..MaxTime |->
                   IF t + Window[l] <= clock' THEN 0 ELSE granted[l][ip][t]]]]
  /\ UNCHANGED <<config, conn, session, stamp, connections, connectionsByIP, sessions, entries>>

Init ==
  /\ config \in Configs
  /\ conn = [c \in Connections |-> "away"]
  /\ session = [s \in Sessions |-> "away"]
  /\ stamp = [x \in Connections \cup Sessions |-> 0]
  /\ connections = 0 /\ sessions = 0
  /\ connectionsByIP = [ip \in Addresses |-> 0]
  /\ entries = [l \in Limiters |-> [ip \in Addresses |-> NoEntry]]
  /\ clock = 0
  /\ granted = [l \in Limiters |-> [ip \in Addresses |-> [t \in 0..MaxTime |-> 0]]]

Next ==
  \/ \E c \in Connections : Arrive(c) \/ AskHandshake(c) \/ Acquire(c) \/ Close(c)
  \/ \E s \in Sessions : \/ OpenSession(s) \/ Register(s)
                         \/ AskRegistration(s) \/ CloseSession(s)
  \/ Tick

Spec == Init /\ [][Next]_vars

-----------------------------------------------------------------------------
(* Every variable has the shape the controller's fields have; an entry is     *)
(* never stored without the time it was started (admission.go:27-40).         *)
TypeOK ==
  /\ config \in Configs
  /\ conn \in [Connections -> {"away", "asking", "allowed", "open", "closed"}]
  /\ session \in [Sessions -> {"away", "running", "registering", "registered"}]
  /\ stamp \in [Connections \cup Sessions -> 0..MaxTime]
  /\ connections \in Nat /\ sessions \in Nat
  /\ connectionsByIP \in [Addresses -> Nat]
  /\ entries \in [Limiters -> [Addresses -> Entry \cup {NoEntry}]]
  /\ clock \in 0..MaxTime
  /\ granted \in [Limiters -> [Addresses -> [0..MaxTime -> Nat]]]

(* The counters are the open connections, in all and of each address, and the *)
(* sessions whose handler has not returned: whatever ends a connection, and   *)
(* however often it is closed, gives back what it took and nothing else       *)
(* (releaseConnection, admittedConn.Close, releaseSession).                   *)
CountsMatch ==
  /\ connections = Cardinality(AllOpen)
  /\ \A ip \in Addresses : connectionsByIP[ip] = Cardinality(Open(ip))
  /\ sessions = Cardinality(Running)

(* However arrivals race between the two mutexes of acquireConnection, no     *)
(* limit of the configuration is exceeded by what is really open.             *)
LimitsHold ==
  /\ Cardinality(AllOpen) <= config.MaxConnections
  /\ \A ip \in Addresses : Cardinality(Open(ip)) <= config.MaxConnectionsPerIP
  /\ Cardinality(Running) <= config.MaxSessions

GrantedWithin(l, ip, from, to) == SumFunctionOnSet(granted[l][ip], from..to)

(* A fixed window lets less than two windows' worth through around a reset,   *)
(* even when the times it is asked about come late and out of order and       *)
(* entries are swept (fixedWindowLimiter.allow).  A late time shortens the    *)
(* span for which that is so by its lateness.                                 *)
WindowsLimit ==
  \A l \in Limiters, ip \in Addresses :
    \A from \in 0..MaxTime : \A to \in from..(from + Window[l] - Delay - 1) :
      to <= MaxTime
        => GrantedWithin(l, ip, from, to) <= IF config.limit[l] > 0 THEN 2 * config.limit[l] - 1 ELSE 0

==============================================================================
