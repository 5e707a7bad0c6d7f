--------------------------- MODULE AdmissionProofs ---------------------------
(* What holds of admission control for any numbers of connections, addresses  *)
(* and sessions, any limits and windows and any clock.                        *)
EXTENDS Admission, Sums

(* The counters equal what they count, and none is above its limit.  The      *)
(* equality alone is not inductive: a step must know the kinds of the two     *)
(* state functions to know which sets change, and by one element.             *)
Kinds ==
  /\ config \in AdmissionConfig
  /\ conn \in [Connections -> {"away", "asking", "allowed", "open", "closed"}]
  /\ session \in [Sessions -> {"away", "running", "registering", "registered"}]
  /\ DOMAIN connectionsByIP = Addresses

WithinLimits ==
  /\ connections <= config.MaxConnections
  /\ \A ip \in Addresses : connectionsByIP[ip] <= config.MaxConnectionsPerIP
  /\ sessions <= config.MaxSessions

CountsInv == Kinds /\ CountsMatch /\ WithinLimits

LEMMA LimitsAreNumbers ==
  ASSUME CountsInv
  PROVE  /\ config.MaxConnections \in Nat
         /\ config.MaxConnectionsPerIP \in Nat
         /\ config.MaxSessions \in Nat
BY DEF CountsInv, Kinds, AdmissionConfig

LEMMA OpenFinite ==
  /\ IsFiniteSet(AllOpen) /\ Cardinality(AllOpen) \in Nat
  /\ \A ip : IsFiniteSet(Open(ip)) /\ Cardinality(Open(ip)) \in Nat
  /\ IsFiniteSet(Running) /\ Cardinality(Running) \in Nat
<1>1. AllOpen \subseteq Connections /\ Running \subseteq Sessions
  BY DEF AllOpen, Running
<1>2. \A ip : Open(ip) \subseteq Connections
  BY DEF Open
<1>3. IsFiniteSet(AllOpen) /\ IsFiniteSet(Running)
  BY <1>1, FS_Subset, AddressAssumption
<1>4. \A ip : IsFiniteSet(Open(ip))
  BY <1>2, FS_Subset, AddressAssumption
<1> QED
  BY <1>3, <1>4, FS_CardinalityType

(* What a step that leaves the open connections alone owes to CountsInv.      *)
LEMMA ConnectionsKept ==
  ASSUME CountsInv,
         conn' \in [Connections -> {"away", "asking", "allowed", "open", "closed"}],
         \A c \in Connections : conn'[c] = "open" <=> conn[c] = "open",
         UNCHANGED <<config, session, connections, connectionsByIP, sessions>>
  PROVE  CountsInv'
<1>1. AllOpen' = AllOpen /\ Running' = Running
  BY DEF AllOpen, Running
<1>2. \A ip : Open(ip)' = Open(ip)
  BY DEF Open
<1> QED
  BY <1>1, <1>2 DEF CountsInv, Kinds, CountsMatch, WithinLimits

(* What a step of the sessions owes to CountsInv for the connections.         *)
LEMMA ConnectionsUntouched ==
  ASSUME CountsInv, UNCHANGED <<config, conn, connections, connectionsByIP>>
  PROVE  /\ connections' = Cardinality(AllOpen')
         /\ \A ip \in Addresses : connectionsByIP'[ip] = Cardinality(Open(ip)')
         /\ connections' <= config'.MaxConnections
         /\ \A ip \in Addresses : connectionsByIP'[ip] <= config'.MaxConnectionsPerIP
<1>1. AllOpen' = AllOpen
  BY DEF AllOpen
<1>2. \A ip : Open(ip)' = Open(ip)
  BY DEF Open
<1> QED
  BY <1>1, <1>2 DEF CountsInv, CountsMatch, WithinLimits

LEMMA InitCounts == Init => CountsInv
<1> SUFFICES ASSUME Init PROVE CountsInv
  OBVIOUS
<1>1. AllOpen = {} /\ Running = {}
  BY DEF Init, AllOpen, Running
<1>2. \A ip : Open(ip) = {}
  BY DEF Init, Open
<1>3. Cardinality({}) = 0
  BY FS_EmptySet
<1>4. Kinds
  BY LimitsAssumption DEF Init, Kinds
<1>5. CountsMatch
  BY <1>1, <1>2, <1>3 DEF Init, CountsMatch
<1>6. WithinLimits
  BY LimitsAssumption DEF Init, WithinLimits, AdmissionConfig
<1> QED
  BY <1>4, <1>5, <1>6 DEF CountsInv

(* The two decisions that change the open connections.                        *)
LEMMA AcquireCounts ==
  ASSUME CountsInv, NEW c \in Connections, Acquire(c)
  PROVE  CountsInv'
<1> DEFINE a == Address[c]
<1>0. a \in Addresses
  BY AddressAssumption
<1>1. CASE ~HasRoom(a)
  <2>1. /\ conn' = [conn EXCEPT ![c] = "away"]
        /\ UNCHANGED <<config, session, connections, connectionsByIP, sessions>>
    BY <1>1 DEF Acquire
  <2>2. conn[c] = "allowed"
    BY DEF Acquire
  <2> QED
    BY <2>1, <2>2, ConnectionsKept DEF CountsInv, Kinds
<1>2. CASE HasRoom(a)
  <2>1. /\ connections' = connections + 1
        /\ connectionsByIP' = [connectionsByIP EXCEPT ![a] = @ + 1]
        /\ conn' = [conn EXCEPT ![c] = "open"]
        /\ UNCHANGED <<config, session, sessions>>
        /\ conn[c] = "allowed"
    BY <1>2 DEF Acquire
  <2>2. /\ AllOpen' = AllOpen \cup {c} /\ c \notin AllOpen
        /\ Running' = Running
    BY <2>1 DEF CountsInv, Kinds, AllOpen, Running
  <2>3. Open(a)' = Open(a) \cup {c} /\ c \notin Open(a)
    BY <2>1 DEF CountsInv, Kinds, Open
  <2>4. \A ip \in Addresses \ {a} : Open(ip)' = Open(ip)
    BY <2>1 DEF CountsInv, Kinds, Open
  <2>5. Cardinality(AllOpen') = Cardinality(AllOpen) + 1
    BY <2>2, OpenFinite, FS_AddElement
  <2>6. Cardinality(Open(a)') = Cardinality(Open(a)) + 1
    BY <2>3, OpenFinite, FS_AddElement
  <2>7. Kinds'
    BY <2>1 DEF CountsInv, Kinds
  <2>8. \A ip \in Addresses : connectionsByIP'[ip] = Cardinality(Open(ip)')
    BY <2>1, <2>4, <2>6, <1>0 DEF CountsInv, Kinds, CountsMatch
  <2>9. CountsMatch'
    BY <2>1, <2>2, <2>5, <2>8 DEF CountsInv, CountsMatch
  <2>10. connections' <= config'.MaxConnections
    BY <2>1, <1>2, OpenFinite, LimitsAreNumbers DEF HasRoom, CountsInv, CountsMatch
  <2>11. \A ip \in Addresses : connectionsByIP'[ip] <= config'.MaxConnectionsPerIP
    BY <2>1, <1>2, <1>0, OpenFinite, LimitsAreNumbers
       DEF HasRoom, CountsInv, Kinds, CountsMatch, WithinLimits
  <2> QED
    BY <2>1, <2>7, <2>9, <2>10, <2>11 DEF CountsInv, WithinLimits
<1> QED
  BY <1>1, <1>2

LEMMA CloseCounts ==
  ASSUME CountsInv, NEW c \in Connections, Close(c)
  PROVE  CountsInv'
<1> DEFINE a == Address[c]
<1>0. a \in Addresses
  BY AddressAssumption
<1>1. CASE conn[c] # "open"
  <2>1. /\ conn' = [conn EXCEPT ![c] = "closed"]
        /\ UNCHANGED <<config, session, connections, connectionsByIP, sessions>>
    BY <1>1 DEF Close, Releases
  <2> QED
    BY <2>1, <1>1, ConnectionsKept DEF CountsInv, Kinds
<1>2. CASE conn[c] = "open"
  <2>1. c \in AllOpen /\ c \in Open(a)
    BY <1>2 DEF AllOpen, Open
  <2>2. Cardinality(Open(a)) # 0
    BY <2>1, OpenFinite, FS_EmptySet
  <2>3. Releases(c)
    BY <1>0, <1>2, <2>2 DEF Releases, CountsInv, CountsMatch
  <2>4. /\ connections' = connections - 1
        /\ connectionsByIP' = [connectionsByIP EXCEPT ![a] = @ - 1]
        /\ conn' = [conn EXCEPT ![c] = "closed"]
        /\ UNCHANGED <<config, session, sessions>>
    BY <2>3 DEF Close
  <2>5. AllOpen' = AllOpen \ {c} /\ Running' = Running
    BY <2>4 DEF CountsInv, Kinds, AllOpen, Running
  <2>6. Open(a)' = Open(a) \ {c}
    BY <2>4 DEF CountsInv, Kinds, Open
  <2>7. \A ip \in Addresses \ {a} : Open(ip)' = Open(ip)
    BY <2>4 DEF CountsInv, Kinds, Open
  <2>8. Cardinality(AllOpen') = Cardinality(AllOpen) - 1
    <3>1. IsFiniteSet(AllOpen)
      BY OpenFinite
    <3>2. Cardinality(AllOpen \ {c}) = Cardinality(AllOpen) - 1
      BY <2>1, <3>1, FS_RemoveElement
    <3> QED
      BY <2>5, <3>2
  <2>9. Cardinality(Open(a)') = Cardinality(Open(a)) - 1
    <3>1. IsFiniteSet(Open(a))
      BY OpenFinite
    <3>2. Cardinality(Open(a) \ {c}) = Cardinality(Open(a)) - 1
      BY <2>1, <3>1, FS_RemoveElement
    <3> QED
      BY <2>6, <3>2
  <2>10. Kinds'
    BY <2>4 DEF CountsInv, Kinds
  <2>11. \A ip \in Addresses : connectionsByIP'[ip] = Cardinality(Open(ip)')
    BY <2>4, <2>7, <2>9, <1>0 DEF CountsInv, Kinds, CountsMatch
  <2>12. CountsMatch'
    BY <2>4, <2>5, <2>8, <2>11 DEF CountsInv, CountsMatch
  <2>13. connections' <= config'.MaxConnections
    BY <2>4, OpenFinite, LimitsAreNumbers DEF CountsInv, CountsMatch, WithinLimits
  <2>14. \A ip \in Addresses : connectionsByIP'[ip] <= config'.MaxConnectionsPerIP
    BY <2>4, <1>0, OpenFinite, LimitsAreNumbers
       DEF CountsInv, Kinds, CountsMatch, WithinLimits
  <2> QED
    BY <2>4, <2>10, <2>12, <2>13, <2>14 DEF CountsInv, WithinLimits
<1> QED
  BY <1>1, <1>2

(* The two that change the running sessions.                                  *)
LEMMA OpenSessionCounts ==
  ASSUME CountsInv, NEW s \in Sessions, OpenSession(s)
  PROVE  CountsInv'
<1>1. /\ session[s] = "away" /\ session' = [session EXCEPT ![s] = "running"]
      /\ sessions' = sessions + 1 /\ sessions < config.MaxSessions
      /\ UNCHANGED <<config, conn, connections, connectionsByIP>>
  BY DEF OpenSession, SessionRoom
<1>2. Running' = Running \cup {s} /\ s \notin Running
  BY <1>1 DEF CountsInv, Kinds, Running
<1>3. Cardinality(Running') = Cardinality(Running) + 1
  BY <1>2, OpenFinite, FS_AddElement
<1>4. Kinds'
  BY <1>1 DEF CountsInv, Kinds
<1>5. sessions' = Cardinality(Running') /\ sessions' <= config'.MaxSessions
  BY <1>1, <1>3, OpenFinite, LimitsAreNumbers DEF CountsInv, CountsMatch
<1> QED
  BY <1>1, <1>4, <1>5, ConnectionsUntouched DEF CountsInv, CountsMatch, WithinLimits

LEMMA CloseSessionCounts ==
  ASSUME CountsInv, NEW s \in Sessions, CloseSession(s)
  PROVE  CountsInv'
<1>1. /\ session[s] \in {"running", "registered"}
      /\ session' = [session EXCEPT ![s] = "away"]
      /\ sessions' = IF sessions = 0 THEN 0 ELSE sessions - 1
      /\ UNCHANGED <<config, conn, connections, connectionsByIP>>
  BY DEF CloseSession
<1>2. s \in Running /\ Running' = Running \ {s}
  BY <1>1 DEF CountsInv, Kinds, Running
<1>3. Cardinality(Running') = Cardinality(Running) - 1 /\ Cardinality(Running) # 0
  BY <1>2, OpenFinite, FS_RemoveElement, FS_EmptySet
<1>4. Kinds'
  BY <1>1 DEF CountsInv, Kinds
<1>5. sessions' = Cardinality(Running') /\ sessions' <= config'.MaxSessions
  BY <1>1, <1>3, OpenFinite, LimitsAreNumbers DEF CountsInv, CountsMatch, WithinLimits
<1> QED
  BY <1>1, <1>4, <1>5, ConnectionsUntouched DEF CountsInv, CountsMatch, WithinLimits

LEMMA SessionKeepsRunning ==
  ASSUME CountsInv, NEW s \in Sessions, session[s] # "away",
         NEW next \in {"running", "registering", "registered"},
         session' = [session EXCEPT ![s] = next],
         UNCHANGED <<config, conn, connections, connectionsByIP, sessions>>
  PROVE  CountsInv'
<1>1. Running' = Running
  BY DEF CountsInv, Kinds, Running
<1>2. Kinds'
  BY DEF CountsInv, Kinds
<1>3. sessions' = Cardinality(Running') /\ sessions' <= config'.MaxSessions
  BY <1>1 DEF CountsInv, CountsMatch, WithinLimits
<1> QED
  BY <1>2, <1>3, ConnectionsUntouched DEF CountsInv, CountsMatch, WithinLimits

LEMMA NextCounts == CountsInv /\ [Next]_vars => CountsInv'
<1> SUFFICES ASSUME CountsInv, [Next]_vars PROVE CountsInv'
  OBVIOUS
<1>1. ASSUME NEW c \in Connections, Arrive(c) PROVE CountsInv'
  BY <1>1, ConnectionsKept DEF Arrive, CountsInv, Kinds
<1>2. ASSUME NEW c \in Connections, AskHandshake(c) PROVE CountsInv'
  <2>1. /\ conn[c] = "asking"
        /\ \E x \in {"allowed", "away"} : conn' = [conn EXCEPT ![c] = x]
        /\ UNCHANGED <<config, session, connections, connectionsByIP, sessions>>
    BY <1>2 DEF AskHandshake
  <2> QED
    BY <2>1, ConnectionsKept DEF CountsInv, Kinds
<1>3. ASSUME NEW s \in Sessions, Register(s) PROVE CountsInv'
  BY <1>3, SessionKeepsRunning DEF Register
<1>4. ASSUME NEW s \in Sessions, AskRegistration(s) PROVE CountsInv'
  BY <1>4, SessionKeepsRunning DEF AskRegistration
<1>5. CASE Tick \/ UNCHANGED vars
  BY <1>5, ConnectionsKept DEF Tick, vars, CountsInv, Kinds
<1> QED
  BY <1>1, <1>2, <1>3, <1>4, <1>5, AcquireCounts, CloseCounts,
     OpenSessionCounts, CloseSessionCounts DEF Next

(* The controller's counters are what is really open, whatever closes a       *)
(* connection and however often.                                              *)
THEOREM CountsAlwaysMatch == Spec => []CountsMatch
<1>1. CountsInv => CountsMatch
  BY DEF CountsInv
<1> QED
  BY <1>1, InitCounts, NextCounts, PTL DEF Spec

(* No race of arrivals exceeds a limit on what is really open.                *)
THEOREM LimitsAlwaysHold == Spec => []LimitsHold
<1>1. CountsInv => LimitsHold
  BY DEF CountsInv, CountsMatch, WithinLimits, LimitsHold
<1> QED
  BY <1>1, InitCounts, NextCounts, PTL DEF Spec

-----------------------------------------------------------------------------
(* Types.  Counters stay natural numbers only because they are what they count, *)
(* and entries keep their times within the clock's because the times the       *)
(* limiters are asked about do.                                                *)
LEMMA EntryParts ==
  \A entry \in Entry :
    /\ entry.started \in 0..MaxTime /\ entry.seen \in 0..MaxTime /\ entry.count \in Nat
    /\ \A t \in 0..MaxTime : [entry EXCEPT !.seen = t] \in Entry
    /\ [entry EXCEPT !.count = @ + 1] \in Entry
BY DEF Entry

LEMMA CountedTyped ==
  ASSUME TypeOK, NEW l \in Limiters, NEW ip \in Addresses, NEW now \in 0..MaxTime
  PROVE  Counted(l, ip, now) \in [Addresses -> Entry \cup {NoEntry}]
<1>1. entries[l] \in [Addresses -> Entry \cup {NoEntry}]
  BY DEF TypeOK
<1>2. Current(l, ip, now) \in Entry
  <2>1. CASE Over(l, entries[l][ip], now)
    BY <2>1 DEF Current, Entry
  <2>2. CASE ~Over(l, entries[l][ip], now)
    BY <1>1, <2>2, EntryParts DEF Current, Over
  <2> QED
    BY <2>1, <2>2
<1>3. \A kept \in [Addresses -> Entry \cup {NoEntry}] :
        Swept(l, kept, now) \in [Addresses -> Entry \cup {NoEntry}]
  BY DEF Swept
<1> DEFINE entry == Current(l, ip, now)
           more == [entry EXCEPT !.count = @ + 1]
<1>4. more \in Entry
  BY <1>2, EntryParts
<1>5. /\ [entries[l] EXCEPT ![ip] = more] \in [Addresses -> Entry \cup {NoEntry}]
      /\ [entries[l] EXCEPT ![ip] = entry] \in [Addresses -> Entry \cup {NoEntry}]
  <2> HIDE DEF entry, more
  <2> QED
    BY <1>1, <1>2, <1>4 DEF entry
<1> QED
  BY <1>1, <1>3, <1>5 DEF Counted

LEMMA AskTyped ==
  ASSUME TypeOK, NEW l \in Limiters, NEW ip \in Addresses, NEW now \in 0..MaxTime,
         Ask(l, ip, now)
  PROVE  /\ entries' \in [Limiters -> [Addresses -> Entry \cup {NoEntry}]]
         /\ granted' \in [Limiters -> [Addresses -> [0..MaxTime -> Nat]]]
<1>1. entries' = [entries EXCEPT ![l] = Counted(l, ip, now)]
  BY DEF Ask
<1>2. entries' \in [Limiters -> [Addresses -> Entry \cup {NoEntry}]]
  BY <1>1, CountedTyped DEF TypeOK
<1>3. granted' \in {granted, [granted EXCEPT ![l][ip][clock] = @ + 1]}
  BY DEF Ask
<1>4. [granted EXCEPT ![l][ip][clock] = @ + 1]
        \in [Limiters -> [Addresses -> [0..MaxTime -> Nat]]]
  <2> DEFINE windows == [granted[l][ip] EXCEPT ![clock] = @ + 1]
             addresses == [granted[l] EXCEPT ![ip] = windows]
  <2>1. /\ granted \in [Limiters -> [Addresses -> [0..MaxTime -> Nat]]]
        /\ granted[l] \in [Addresses -> [0..MaxTime -> Nat]]
        /\ granted[l][ip] \in [0..MaxTime -> Nat]
        /\ clock \in 0..MaxTime
    BY DEF TypeOK
  <2>2. windows \in [0..MaxTime -> Nat]
    BY <2>1
  <2>3. addresses \in [Addresses -> [0..MaxTime -> Nat]]
    <3> HIDE DEF windows
    <3> QED
      BY <2>1, <2>2 DEF addresses
  <2>4. [granted EXCEPT ![l] = addresses] \in [Limiters -> [Addresses -> [0..MaxTime -> Nat]]]
    <3> HIDE DEF addresses
    <3> QED
      BY <2>1, <2>3
  <2> QED
    BY <2>4
<1>5. granted \in [Limiters -> [Addresses -> [0..MaxTime -> Nat]]]
  BY DEF TypeOK
<1> QED
  BY <1>2, <1>3, <1>4, <1>5

LEMMA TypeStep == TypeOK /\ CountsInv /\ [Next]_vars => TypeOK'
<1> SUFFICES ASSUME TypeOK, CountsInv, [Next]_vars PROVE TypeOK'
  OBVIOUS
<1>1. ASSUME NEW c \in Connections, Arrive(c) PROVE TypeOK'
  BY <1>1 DEF Arrive, TypeOK
<1>2. ASSUME NEW c \in Connections, AskHandshake(c) PROVE TypeOK'
  <2>1. Address[c] \in Addresses /\ stamp[c] \in 0..MaxTime /\ "handshakes" \in Limiters
    BY AddressAssumption DEF TypeOK, Limiters
  <2>2. Ask("handshakes", Address[c], stamp[c])
    BY <1>2 DEF AskHandshake
  <2>3. /\ entries' \in [Limiters -> [Addresses -> Entry \cup {NoEntry}]]
        /\ granted' \in [Limiters -> [Addresses -> [0..MaxTime -> Nat]]]
    BY <2>1, <2>2, AskTyped
  <2>4. /\ \E x \in {"allowed", "away"} : conn' = [conn EXCEPT ![c] = x]
        /\ UNCHANGED <<config, session, stamp, connections, connectionsByIP, sessions, clock>>
    BY <1>2 DEF AskHandshake
  <2> QED
    BY <2>3, <2>4 DEF TypeOK
<1>3. ASSUME NEW c \in Connections, Acquire(c) PROVE TypeOK'
  <2>1. Address[c] \in Addresses
    BY AddressAssumption
  <2>2. /\ \E x \in {"open", "away"} : conn' = [conn EXCEPT ![c] = x]
        /\ UNCHANGED <<config, session, stamp, sessions, entries, clock, granted>>
    BY <1>3 DEF Acquire
  <2>3. \/ /\ connections' = connections + 1
           /\ connectionsByIP' = [connectionsByIP EXCEPT ![Address[c]] = @ + 1]
        \/ UNCHANGED <<connections, connectionsByIP>>
    BY <1>3 DEF Acquire
  <2>4. connections' \in Nat
    BY <2>3 DEF TypeOK
  <2>5. connectionsByIP' \in [Addresses -> Nat]
    <3>1. connectionsByIP[Address[c]] + 1 \in Nat
      BY <2>1 DEF TypeOK
    <3> QED
      BY <2>3, <3>1 DEF TypeOK
  <2> QED
    BY <2>2, <2>4, <2>5 DEF TypeOK
<1>4. ASSUME NEW c \in Connections, Close(c) PROVE TypeOK'
  <2>1. Address[c] \in Addresses
    BY AddressAssumption
  <2>2. CASE Releases(c)
    <3>1. c \in AllOpen
      BY <2>2 DEF Releases, AllOpen
    <3>2. connections # 0
      BY <3>1, OpenFinite, FS_EmptySet DEF CountsInv, CountsMatch
    <3>3. connectionsByIP[Address[c]] # 0
      BY <2>2 DEF Releases
    <3>4. /\ connections' = connections - 1
          /\ connectionsByIP' = [connectionsByIP EXCEPT ![Address[c]] = @ - 1]
      BY <1>4, <2>2 DEF Close
    <3>5. connections' \in Nat
      BY <3>2, <3>4 DEF TypeOK
    <3>6. connectionsByIP[Address[c]] - 1 \in Nat
      BY <2>1, <3>3 DEF TypeOK
    <3>7. connectionsByIP' \in [Addresses -> Nat]
      BY <3>4, <3>6 DEF TypeOK
    <3> QED
      BY <1>4, <3>5, <3>7 DEF Close, TypeOK
  <2>3. CASE ~Releases(c)
    BY <1>4, <2>3 DEF Close, TypeOK
  <2> QED
    BY <2>2, <2>3
<1>5. ASSUME NEW s \in Sessions, OpenSession(s) PROVE TypeOK'
  BY <1>5 DEF OpenSession, TypeOK
<1>6. ASSUME NEW s \in Sessions, Register(s) PROVE TypeOK'
  BY <1>6 DEF Register, TypeOK
<1>7. ASSUME NEW s \in Sessions, AskRegistration(s) PROVE TypeOK'
  <2>1. /\ Address[Carrier[s]] \in Addresses /\ stamp[s] \in 0..MaxTime
        /\ "registrations" \in Limiters
    BY AddressAssumption DEF TypeOK, Limiters
  <2>2. Ask("registrations", Address[Carrier[s]], stamp[s])
    BY <1>7 DEF AskRegistration
  <2>3. /\ entries' \in [Limiters -> [Addresses -> Entry \cup {NoEntry}]]
        /\ granted' \in [Limiters -> [Addresses -> [0..MaxTime -> Nat]]]
    BY <2>1, <2>2, AskTyped
  <2> QED
    BY <1>7, <2>3 DEF AskRegistration, TypeOK
<1>8. ASSUME NEW s \in Sessions, CloseSession(s) PROVE TypeOK'
  <2>1. sessions' \in Nat
    BY <1>8 DEF CloseSession, TypeOK
  <2> QED
    BY <1>8, <2>1 DEF CloseSession, TypeOK
<1>9. CASE Tick
  <2>1. Until[config] \in 0..MaxTime
    BY LimitsAssumption DEF TypeOK
  <2>2. clock' \in 0..MaxTime
    BY <1>9, <2>1, LimitsAssumption DEF Tick, TypeOK
  <2>3. granted' \in [Limiters -> [Addresses -> [0..MaxTime -> Nat]]]
    <3>1. \A l \in Limiters, ip \in Addresses, t \in 0..MaxTime : granted[l][ip][t] \in Nat
      <4>1. granted \in [Limiters -> [Addresses -> [0..MaxTime -> Nat]]]
        BY DEF TypeOK
      <4> SUFFICES ASSUME NEW l \in Limiters, NEW ip \in Addresses, NEW t \in 0..MaxTime
                   PROVE  granted[l][ip][t] \in Nat
        OBVIOUS
      <4>2. granted[l] \in [Addresses -> [0..MaxTime -> Nat]]
        BY <4>1
      <4>3. granted[l][ip] \in [0..MaxTime -> Nat]
        BY <4>2
      <4> QED
        BY <4>3
    <3>2. \A l \in Limiters, ip \in Addresses, t \in 0..MaxTime :
            (IF t + Window[l] <= clock' THEN 0 ELSE granted[l][ip][t]) \in Nat
      BY <3>1
    <3>3. granted' = [l \in Limiters |-> [ip \in Addresses |-> [t \in 0..MaxTime |->
                       IF t + Window[l] <= clock' THEN 0 ELSE granted[l][ip][t]]]]
      BY <1>9 DEF Tick
    <3> QED
      BY <3>2, <3>3, Zenon
  <2> QED
    BY <1>9, <2>2, <2>3 DEF Tick, TypeOK
<1>10. CASE UNCHANGED vars
  BY <1>10 DEF vars, TypeOK
<1> QED
  BY <1>1, <1>2, <1>3, <1>4, <1>5, <1>6, <1>7, <1>8, <1>9, <1>10 DEF Next

(* The controller's fields and the limiters' entries keep their kinds: no      *)
(* counter goes below zero and no entry holds a time that was never read.      *)
THEOREM TypeCorrect == Spec => []TypeOK
<1>1. Init => TypeOK
  BY LimitsAssumption DEF Init, TypeOK, Limiters
<1>2. TypeOK /\ CountsInv /\ [Next]_vars => TypeOK' /\ CountsInv'
  BY TypeStep, NextCounts
<1> QED
  BY <1>1, <1>2, InitCounts, PTL DEF Spec

-----------------------------------------------------------------------------
(* Windows.                                                                   *)

(* Who has read the clock uses it soon.                                       *)
Prompt == \A x \in Asking : stamp[x] <= clock /\ clock - stamp[x] <= Delay

Within(given, from, to) == SumFunctionOnSet(given, from..to)
Since(given, from) == Within(given, from, MaxTime)

(* What a limiter has granted one address, by its entry: nothing older than   *)
(* a window is kept.                                                          *)
Recent(given, now, window) == \A t \in 0..MaxTime : given[t] > 0 => t <= now /\ now < t + window

Nothing(given) == \A t \in 0..MaxTime : given[t] = 0

(* A window has opened by entry.started + Delay with its first grant: what    *)
(* was granted after that is at most the rest of the count, and what was      *)
(* granted for as long as matters at most the count and, of the window before *)
(* it, all but the first grant.                                               *)
Behind(given, entry, now, limit, window) ==
  /\ entry.count \in 1..limit
  /\ \A t \in 0..MaxTime : given[t] > 0 => t <= entry.seen + Delay
  /\ \A from \in 0..MaxTime : from > now - window + Delay => Since(given, from) <= entry.count + limit - 1
  /\ \A from \in 0..MaxTime : from > entry.started + Delay => Since(given, from) <= entry.count - 1

Short(given, limit, window) ==
  \A from \in 0..MaxTime : \A to \in from..MaxTime :
    to - from < window - Delay => Within(given, from, to) <= 2 * limit - 1

Fits(given, entry, now, limit, window) ==
  /\ Recent(given, now, window)
  /\ limit <= 0 \/ entry = NoEntry => Nothing(given)
  /\ entry # NoEntry => Behind(given, entry, now, limit, window)
  /\ limit > 0 => Short(given, limit, window)

Windows ==
  \A l \in Limiters, ip \in Addresses :
    Fits(granted[l][ip], entries[l][ip], clock, config.limit[l], Window[l])

WindowsInv == TypeOK /\ Prompt /\ Windows

LEMMA Bounds ==
  /\ MaxTime \in Nat /\ Delay \in Nat
  /\ \A l \in Limiters : Window[l] \in Nat /\ Window[l] > 0 /\ Delay < Window[l]
BY LimitsAssumption

LEMMA SpanFinite ==
  ASSUME NEW from \in 0..MaxTime, NEW to \in 0..MaxTime
  PROVE  IsFiniteSet(from..to) /\ from..to \subseteq 0..MaxTime /\ from \in Int /\ to \in Int
BY Bounds, FS_Interval

LEMMA WithinType ==
  ASSUME NEW given \in [0..MaxTime -> Nat], NEW from \in 0..MaxTime, NEW to \in 0..MaxTime
  PROVE  Within(given, from, to) \in Nat
<1>1. IsFiniteSet(from..to) /\ \A t \in from..to : given[t] \in Nat
  BY SpanFinite
<1> QED
  BY <1>1, SumOfNaturals DEF Within

LEMMA WithinNothing ==
  ASSUME NEW given, NEW from \in 0..MaxTime, NEW to \in 0..MaxTime,
         \A t \in from..to : given[t] = 0
  PROVE  Within(given, from, to) = 0
<1>1. IsFiniteSet(from..to)
  BY SpanFinite
<1> QED
  BY <1>1, SumOfNothing DEF Within

(* A span grants no more than a longer one.                                   *)
LEMMA WithinSince ==
  ASSUME NEW given \in [0..MaxTime -> Nat], NEW from \in 0..MaxTime, NEW to \in from..MaxTime
  PROVE  Within(given, from, to) <= Since(given, from)
<1> DEFINE S == from..MaxTime
           R == from..to
<1>1. MaxTime \in 0..MaxTime /\ to \in 0..MaxTime
  BY Bounds
<1>2. IsFiniteSet(S) /\ R \in SUBSET S /\ S \subseteq 0..MaxTime
  BY <1>1, SpanFinite
<1>3. \A t \in S : given[t] \in Nat
  BY <1>2
<1> HIDE DEF S, R
<1>4. IsFiniteSet(S) /\ R \in SUBSET S
  BY <1>2
<1>5. SumFunctionOnSet(given, R) <= SumFunctionOnSet(given, S)
  BY <1>3, <1>4, SumOfFewer
<1> QED
  BY <1>5 DEF Within, Since, S, R

(* One grant more.                                                            *)
OneMore(now, given, more) ==
  /\ given \in [0..MaxTime -> Nat] /\ more \in [0..MaxTime -> Nat]
  /\ more[now] = given[now] + 1 /\ \A t \in (0..MaxTime) \ {now} : given[t] = more[t]

LEMMA WithinMore ==
  ASSUME NEW given, NEW more, NEW now \in 0..MaxTime, OneMore(now, given, more),
         NEW from \in 0..MaxTime, NEW to \in 0..MaxTime
  PROVE  Within(more, from, to) <= Within(given, from, to) + 1
<1> DEFINE S == from..to
<1>1. IsFiniteSet(S) /\ S \subseteq 0..MaxTime
  BY SpanFinite
<1>2. \A t \in S : given[t] \in Int /\ more[t] \in Int
  BY <1>1 DEF OneMore
<1>3. \A t \in S \ {now} : given[t] = more[t]
  BY <1>1 DEF OneMore
<1> HIDE DEF S
<1>4. IsFiniteSet(S) /\ \A t \in S : given[t] \in Int
  BY <1>1, <1>2
<1>5. SumFunctionOnSet(given, S) \in Int
  BY <1>4, SumType
<1>6. CASE now \in S
  <2>1. SumFunctionOnSet(given, S) = given[now] + SumFunctionOnSet(given, S \ {now})
    BY <1>4, <1>6, SumTakesOut
  <2>2. IsFiniteSet(S) /\ \A t \in S : more[t] \in Int
    BY <1>2, <1>4
  <2>3. SumFunctionOnSet(more, S) = more[now] + SumFunctionOnSet(more, S \ {now})
    BY <1>6, <2>2, SumTakesOut
  <2>4. IsFiniteSet(S \ {now})
    BY <1>4, FS_Subset
  <2>5. SumFunctionOnSet(given, S \ {now}) = SumFunctionOnSet(more, S \ {now})
    BY <1>3, <2>4, SumSame
  <2>6. SumFunctionOnSet(given, S \ {now}) \in Int
    BY <1>2, <2>4, SumType
  <2>7. given[now] \in Int /\ more[now] = given[now] + 1
    BY DEF OneMore
  <2>8. SumFunctionOnSet(more, S) = SumFunctionOnSet(given, S) + 1
    BY <2>1, <2>3, <2>5, <2>6, <2>7
  <2> QED
    BY <1>5, <2>8 DEF Within, S
<1>7. CASE now \notin S
  <2>1. \A t \in S : given[t] = more[t]
    BY <1>3, <1>7
  <2>2. SumFunctionOnSet(given, S) = SumFunctionOnSet(more, S)
    BY <1>4, <2>1, SumSame
  <2> QED
    BY <1>5, <2>2 DEF Within, S
<1> QED
  BY <1>6, <1>7

LEMMA WithinSame ==
  ASSUME NEW given, NEW more, NEW now, OneMore(now, given, more),
         NEW from \in 0..MaxTime, NEW to \in 0..MaxTime, now \notin from..to
  PROVE  Within(more, from, to) = Within(given, from, to)
<1>1. IsFiniteSet(from..to) /\ from..to \subseteq 0..MaxTime
  BY SpanFinite
<1>2. \A t \in from..to : given[t] = more[t]
  BY <1>1 DEF OneMore
<1> QED
  BY <1>1, <1>2, SumSame DEF Within

LEMMA WithinLess ==
  ASSUME NEW given \in [0..MaxTime -> Nat], NEW less \in [0..MaxTime -> Nat],
         \A t \in 0..MaxTime : less[t] <= given[t],
         NEW from \in 0..MaxTime, NEW to \in 0..MaxTime
  PROVE  Within(less, from, to) <= Within(given, from, to)
<1> DEFINE S == from..to
<1>1. IsFiniteSet(S) /\ S \subseteq 0..MaxTime
  BY SpanFinite
<1>2. \A t \in S : less[t] \in Int /\ given[t] \in Int /\ less[t] <= given[t]
  BY <1>1
<1> HIDE DEF S
<1>3. SumFunctionOnSet(less, S) <= SumFunctionOnSet(given, S)
  BY <1>1, <1>2, SumGrows
<1> QED
  BY <1>3 DEF Within, S

LEMMA SinceNothing ==
  ASSUME NEW given \in [0..MaxTime -> Nat], NEW from \in 0..MaxTime,
         \A t \in 0..MaxTime : t >= from => given[t] = 0
  PROVE  Since(given, from) = 0
<1>1. MaxTime \in 0..MaxTime /\ \A t \in from..MaxTime : given[t] = 0
  BY Bounds
<1> QED
  BY <1>1, WithinNothing DEF Since

LEMMA SinceType ==
  ASSUME NEW given \in [0..MaxTime -> Nat], NEW from \in 0..MaxTime
  PROVE  Since(given, from) \in Nat
<1>1. MaxTime \in 0..MaxTime
  BY Bounds
<1> QED
  BY <1>1, WithinType DEF Since

(* One grant more, counted in a new window or in the one that is open.        *)
Opens(entry, after, asked, window) ==
  /\ entry = NoEntry \/ asked - entry.started >= window
  /\ after.started = asked /\ after.count = 1

Counts(entry, after, limit) ==
  /\ entry # NoEntry /\ entry.count < limit
  /\ after.started = entry.started /\ after.count = entry.count + 1

Moment(now, asked, limit, window) ==
  /\ now \in 0..MaxTime /\ asked \in 0..MaxTime /\ asked <= now /\ now - asked <= Delay
  /\ limit \in Int /\ limit > 0 /\ window \in Nat /\ Delay < window

LEMMA SinceMore ==
  ASSUME NEW now \in 0..MaxTime, NEW given, NEW more, OneMore(now, given, more), NEW from \in 0..MaxTime
  PROVE  /\ Since(given, from) \in Nat /\ Since(more, from) \in Nat
         /\ Since(more, from) <= Since(given, from) + 1
<1>1. MaxTime \in 0..MaxTime
  BY Bounds
<1>2. given \in [0..MaxTime -> Nat] /\ more \in [0..MaxTime -> Nat]
  BY DEF OneMore
<1> QED
  BY <1>1, <1>2, SinceType, WithinMore DEF Since

LEMMA FitsGrant ==
  ASSUME NEW now, NEW asked, NEW limit, NEW window, Moment(now, asked, limit, window),
         NEW given, NEW more, OneMore(now, given, more),
         NEW entry \in Entry \cup {NoEntry}, NEW after \in Entry, after.seen = asked,
         Fits(given, entry, now, limit, window),
         Opens(entry, after, asked, window) \/ Counts(entry, after, limit)
  PROVE  Fits(more, after, now, limit, window)
<1>1. /\ entry # NoEntry => entry.started \in Int /\ entry.count \in Int
      /\ after.started \in Int /\ after.count \in Int /\ after.count \in Nat
  BY Bounds DEF Entry
<1>2. /\ now \in 0..MaxTime /\ now \in Int /\ asked \in Int /\ asked <= now /\ now - asked <= Delay
      /\ limit \in Int /\ limit > 0 /\ window \in Int /\ Delay < window /\ Delay \in Int /\ MaxTime \in Int
  BY Bounds DEF Moment
<1>3. given \in [0..MaxTime -> Nat] /\ more \in [0..MaxTime -> Nat]
  BY DEF OneMore
<1>4. Recent(given, now, window)
  BY DEF Fits
<1>5. Recent(more, now, window)
  <2>1. \A t \in 0..MaxTime : t # now => given[t] = more[t]
    BY DEF OneMore
  <2> QED
    BY <1>2, <1>4, <2>1 DEF Recent
<1>6. after.count \in 1..limit
  <2>1. CASE Opens(entry, after, asked, window)
    BY <1>2, <2>1 DEF Opens
  <2>2. CASE Counts(entry, after, limit)
    <3>1. entry.count \in Int /\ entry.count >= 1 /\ entry.count < limit
      BY <1>1, <1>2, <2>2 DEF Counts, Fits, Behind
    <3>2. after.count = entry.count + 1
      BY <2>2 DEF Counts
    <3> QED
      BY <1>2, <3>1, <3>2
  <2> QED
    BY <2>1, <2>2
<1>7. after # NoEntry
  <2>1. after.count # NoEntry.count
    BY <1>2, <1>6 DEF NoEntry
  <2> QED
    BY <2>1
<1>8. \A t \in 0..MaxTime : more[t] > 0 => t <= after.seen + Delay
  BY <1>2, <1>5 DEF Recent
<1>9. ASSUME NEW from \in 0..MaxTime, from > now - window + Delay
      PROVE  Since(more, from) <= after.count + limit - 1
  <2>0. /\ Since(given, from) \in Int /\ Since(more, from) \in Int /\ from \in Int
        /\ Since(more, from) <= Since(given, from) + 1
    BY <1>2, SinceMore
  <2>1. CASE entry = NoEntry
    <3>1. Since(given, from) = 0
      BY <1>3, <2>1, SinceNothing DEF Fits, Nothing
    <3>2. after.count >= 1
      BY <1>2, <1>6
    <3> QED
      BY <1>1, <1>2, <2>0, <3>1, <3>2
  <2>2. CASE entry # NoEntry /\ Opens(entry, after, asked, window)
    <3>1. asked - entry.started >= window /\ after.count = 1 /\ entry.started \in Int /\ entry.count \in Int
      BY <1>1, <2>2 DEF Opens
    <3>2. from > entry.started + Delay
      BY <1>2, <1>9, <2>0, <3>1
    <3>3. Since(given, from) <= entry.count - 1 /\ entry.count <= limit
      BY <1>2, <2>2, <3>2 DEF Fits, Behind
    <3> QED
      BY <1>2, <2>0, <3>1, <3>3
  <2>3. CASE Counts(entry, after, limit)
    <3>1. entry # NoEntry /\ after.count = entry.count + 1 /\ entry.count \in Int
      BY <1>1, <2>3 DEF Counts
    <3>2. Since(given, from) <= entry.count + limit - 1
      BY <1>9, <3>1 DEF Fits, Behind
    <3> QED
      BY <1>2, <2>0, <3>1, <3>2
  <2> QED
    BY <2>1, <2>2, <2>3
<1>10. ASSUME NEW from \in 0..MaxTime, from > after.started + Delay
       PROVE  Since(more, from) <= after.count - 1
  <2>0. /\ Since(given, from) \in Int /\ Since(more, from) \in Int /\ from \in Int
        /\ Since(more, from) <= Since(given, from) + 1
    BY <1>2, SinceMore
  <2>1. CASE Opens(entry, after, asked, window)
    <3>1. after.started = asked /\ after.count = 1
      BY <2>1 DEF Opens
    <3>2. from > now
      BY <1>2, <1>10, <2>0, <3>1
    <3>3. \A t \in 0..MaxTime : more[t] \in Nat /\ (more[t] > 0 => t <= now)
      BY <1>3, <1>5 DEF Recent
    <3>4. \A t \in 0..MaxTime : t >= from => more[t] = 0
      BY <1>2, <2>0, <3>2, <3>3
    <3>5. Since(more, from) = 0
      BY <1>3, <3>4, SinceNothing
    <3> QED
      BY <3>1, <3>5
  <2>2. CASE Counts(entry, after, limit)
    <3>1. entry # NoEntry /\ after.count = entry.count + 1 /\ after.started = entry.started
          /\ entry.count \in Int
      BY <1>1, <2>2 DEF Counts
    <3>2. Since(given, from) <= entry.count - 1
      BY <1>10, <3>1 DEF Fits, Behind
    <3> QED
      BY <2>0, <3>1, <3>2
  <2> QED
    BY <2>1, <2>2
<1>11. Short(more, limit, window)
  <2>1. SUFFICES ASSUME NEW from \in 0..MaxTime, NEW to \in from..MaxTime,
                        to - from < window - Delay
                 PROVE  Within(more, from, to) <= 2 * limit - 1
    BY DEF Short
  <2>2. to \in 0..MaxTime /\ from \in Int /\ to \in Int
    BY <1>2
  <2>3. CASE now \in from..to
    <3>1. from > now - window + Delay
      BY <1>2, <2>1, <2>2, <2>3
    <3>2. Since(more, from) <= after.count + limit - 1
      BY <1>9, <3>1
    <3>3. Within(more, from, to) <= Since(more, from)
      BY <1>3, WithinSince
    <3>4. Within(more, from, to) \in Int /\ Since(more, from) \in Int
      BY <1>3, <2>2, WithinType, SinceType
    <3>5. after.count <= limit
      BY <1>2, <1>6
    <3> QED
      BY <1>1, <1>2, <3>2, <3>3, <3>4, <3>5
  <2>4. CASE now \notin from..to
    <3>1. Within(more, from, to) = Within(given, from, to)
      BY <2>2, <2>4, WithinSame
    <3>2. Within(given, from, to) <= 2 * limit - 1
      BY <1>2, <2>1 DEF Fits, Short
    <3> QED
      BY <3>1, <3>2
  <2> QED
    BY <2>3, <2>4
<1>12. Behind(more, after, now, limit, window)
  BY <1>6, <1>8, <1>9, <1>10 DEF Behind
<1> QED
  BY <1>2, <1>5, <1>7, <1>11, <1>12 DEF Fits

(* A refusal, which only notes that the address was seen.                     *)
LEMMA FitsRefusal ==
  ASSUME NEW now, NEW asked, NEW limit, NEW window, Moment(now, asked, limit, window),
         NEW given, NEW entry \in Entry, NEW after \in Entry, after.seen = asked,
         after.started = entry.started, after.count = entry.count, entry # NoEntry,
         Fits(given, entry, now, limit, window)
  PROVE  Fits(given, after, now, limit, window)
<1>1. /\ now \in Int /\ asked \in Int /\ asked <= now /\ now - asked <= Delay
      /\ limit \in Int /\ limit > 0 /\ Delay \in Int /\ MaxTime \in Int
  BY Bounds DEF Moment
<1>2. Behind(given, entry, now, limit, window) /\ Recent(given, now, window) /\ Short(given, limit, window)
  BY <1>1 DEF Fits
<1>3. \A t \in 0..MaxTime : given[t] > 0 => t <= after.seen + Delay
  BY <1>1, <1>2 DEF Recent
<1>4. Behind(given, after, now, limit, window)
  BY <1>2, <1>3 DEF Behind
<1>5. after # NoEntry
  <2>1. after.count \in 1..limit
    BY <1>2 DEF Behind
  <2>2. after.count # NoEntry.count
    BY <1>1, <2>1 DEF NoEntry
  <2> QED
    BY <2>2
<1> QED
  BY <1>1, <1>2, <1>4, <1>5 DEF Fits

(* An entry is forgotten long after what it granted.                          *)
LEMMA FitsForgotten ==
  ASSUME NEW now, NEW asked, NEW limit, NEW window, Moment(now, asked, limit, window),
         NEW given \in [0..MaxTime -> Nat], NEW entry \in Entry, entry # NoEntry,
         asked - entry.seen >= 2 * window, Fits(given, entry, now, limit, window)
  PROVE  Fits(given, NoEntry, now, limit, window)
<1>1. /\ now \in Int /\ asked \in Int /\ asked <= now /\ window \in Int /\ Delay < window
      /\ Delay \in Int /\ MaxTime \in Int
  BY Bounds DEF Moment
<1>2. entry.seen \in Int
  BY <1>1 DEF Entry
<1>3. ASSUME NEW t \in 0..MaxTime, given[t] > 0 PROVE FALSE
  <2>1. t <= entry.seen + Delay /\ now < t + window
    BY <1>3 DEF Fits, Behind, Recent
  <2>2. t \in Int
    BY <1>1
  <2> QED
    BY <1>1, <1>2, <2>1, <2>2
<1>4. \A t \in 0..MaxTime : given[t] \in Nat
  OBVIOUS
<1>5. Nothing(given)
  BY <1>3, <1>4 DEF Nothing
<1> QED
  BY <1>5 DEF Fits

(* What is older than a window no longer matters.                             *)
Outlived(then, window, given, less) ==
  /\ given \in [0..MaxTime -> Nat] /\ less \in [0..MaxTime -> Nat]
  /\ \A t \in 0..MaxTime : less[t] = IF t + window <= then THEN 0 ELSE given[t]

LEMMA FitsLater ==
  ASSUME NEW now \in 0..MaxTime, NEW then \in 0..MaxTime, then = now + 1,
         NEW limit \in Int, NEW window \in Nat,
         NEW given, NEW less, Outlived(then, window, given, less),
         NEW entry \in Entry \cup {NoEntry}, Fits(given, entry, now, limit, window)
  PROVE  Fits(less, entry, then, limit, window)
<1>1. /\ now \in Int /\ then \in Int /\ then = now + 1 /\ window \in Int
      /\ Delay \in Int /\ MaxTime \in Int /\ MaxTime \in 0..MaxTime
  BY Bounds
<1>2. \A t \in 0..MaxTime :
        /\ t \in Int /\ less[t] \in Int /\ given[t] \in Int /\ less[t] <= given[t]
        /\ less[t] > 0 => given[t] > 0 /\ then < t + window
        /\ given[t] = 0 => less[t] = 0
  <2>1. SUFFICES ASSUME NEW t \in 0..MaxTime
                 PROVE  /\ t \in Int /\ less[t] \in Int /\ given[t] \in Int /\ less[t] <= given[t]
                        /\ less[t] > 0 => given[t] > 0 /\ then < t + window
                        /\ given[t] = 0 => less[t] = 0
    OBVIOUS
  <2>2. given[t] \in Nat /\ less[t] = IF t + window <= then THEN 0 ELSE given[t]
    BY DEF Outlived
  <2> QED
    BY <1>1, <2>2
<1>3. ASSUME NEW from \in 0..MaxTime, NEW to \in 0..MaxTime
      PROVE  /\ Within(less, from, to) <= Within(given, from, to)
             /\ Within(less, from, to) \in Int /\ Within(given, from, to) \in Int
  <2>1. given \in [0..MaxTime -> Nat] /\ less \in [0..MaxTime -> Nat]
    BY DEF Outlived
  <2>2. \A t \in 0..MaxTime : less[t] <= given[t]
    BY <1>2
  <2>3. Within(less, from, to) <= Within(given, from, to)
    BY <2>1, <2>2, WithinLess
  <2>4. Within(less, from, to) \in Nat /\ Within(given, from, to) \in Nat
    BY <2>1, WithinType
  <2> QED
    BY <2>3, <2>4
<1>4. Recent(less, then, window)
  <2>1. Recent(given, now, window)
    BY DEF Fits
  <2> QED
    BY <1>1, <1>2, <2>1 DEF Recent
<1>5. limit <= 0 \/ entry = NoEntry => Nothing(less)
  BY <1>2 DEF Fits, Nothing
<1>6. ASSUME entry # NoEntry PROVE Behind(less, entry, then, limit, window)
  <2>1. Behind(given, entry, now, limit, window)
    BY <1>6 DEF Fits
  <2>2. entry.count \in Int /\ entry.started \in Int
    BY <1>1, <1>6 DEF Entry
  <2>3. \A t \in 0..MaxTime : less[t] > 0 => t <= entry.seen + Delay
    BY <1>2, <2>1 DEF Behind
  <2>4. ASSUME NEW from \in 0..MaxTime
        PROVE  /\ from \in Int /\ Since(less, from) \in Int /\ Since(given, from) \in Int
               /\ Since(less, from) <= Since(given, from)
    <3>1. from \in Int
      BY <1>1
    <3> QED
      BY <1>1, <1>3, <3>1 DEF Since
  <2>5. ASSUME NEW from \in 0..MaxTime, from > then - window + Delay
        PROVE  Since(less, from) <= entry.count + limit - 1
    <3>1. from > now - window + Delay
      BY <1>1, <2>4, <2>5
    <3>2. Since(given, from) <= entry.count + limit - 1
      BY <2>1, <3>1 DEF Behind
    <3> QED
      BY <2>2, <2>4, <3>2
  <2>6. ASSUME NEW from \in 0..MaxTime, from > entry.started + Delay
        PROVE  Since(less, from) <= entry.count - 1
    <3>1. Since(given, from) <= entry.count - 1
      BY <2>1, <2>6 DEF Behind
    <3> QED
      BY <2>2, <2>4, <3>1
  <2> QED
    BY <2>1, <2>3, <2>5, <2>6 DEF Behind
<1>7. ASSUME limit > 0 PROVE Short(less, limit, window)
  <2>1. SUFFICES ASSUME NEW from \in 0..MaxTime, NEW to \in from..MaxTime,
                        to - from < window - Delay
                 PROVE  Within(less, from, to) <= 2 * limit - 1
    BY DEF Short
  <2>2. Within(given, from, to) <= 2 * limit - 1
    BY <1>7, <2>1 DEF Fits, Short
  <2>3. to \in 0..MaxTime
    OBVIOUS
  <2>4. /\ Within(less, from, to) <= Within(given, from, to)
        /\ Within(less, from, to) \in Int /\ Within(given, from, to) \in Int
    BY <1>3, <2>3
  <2> QED
    BY <2>2, <2>4
<1> QED
  BY <1>4, <1>5, <1>6, <1>7 DEF Fits


LEMMA CurrentIs ==
  ASSUME TypeOK, NEW l \in Limiters, NEW ip \in Addresses, NEW now \in 0..MaxTime
  PROVE  /\ Current(l, ip, now) \in Entry /\ Current(l, ip, now).seen = now
         /\ Over(l, entries[l][ip], now) =>
              Current(l, ip, now).started = now /\ Current(l, ip, now).count = 0
         /\ ~Over(l, entries[l][ip], now) =>
              /\ entries[l][ip] \in Entry /\ entries[l][ip] # NoEntry
              /\ Current(l, ip, now).started = entries[l][ip].started
              /\ Current(l, ip, now).count = entries[l][ip].count
<1> DEFINE entry == entries[l][ip]
<1>1. entry \in Entry \cup {NoEntry}
  BY DEF TypeOK
<1>2. CASE Over(l, entry, now)
  BY <1>2 DEF Current, Entry
<1>3. CASE ~Over(l, entry, now)
  <2> HIDE DEF entry
  <2>1. entry \in Entry /\ entry # NoEntry
    BY <1>1, <1>3 DEF Over
  <2>2. Current(l, ip, now) = [entry EXCEPT !.seen = now]
    BY <1>3 DEF Current, entry
  <2>3. /\ [entry EXCEPT !.seen = now] \in Entry /\ [entry EXCEPT !.seen = now].seen = now
        /\ [entry EXCEPT !.seen = now].started = entry.started
        /\ [entry EXCEPT !.seen = now].count = entry.count
    BY <2>1 DEF Entry
  <2> QED
    BY <1>3, <2>1, <2>2, <2>3 DEF entry
<1> QED
  BY <1>2, <1>3

(* The entries of one limiter before the sweep.                               *)
Noted(l, ip, now) ==
  LET entry == Current(l, ip, now) IN
  IF Allows(l, ip, now) THEN [entries[l] EXCEPT ![ip] = [entry EXCEPT !.count = @ + 1]]
  ELSE IF config.limit[l] > 0 THEN [entries[l] EXCEPT ![ip] = entry] ELSE entries[l]

GrantedAfter(l, ip, now) ==
  IF Allows(l, ip, now) THEN [granted[l] EXCEPT ![ip] = [granted[l][ip] EXCEPT ![clock] = @ + 1]]
                            ELSE granted[l]

LEMMA LimitersTyped ==
  ASSUME TypeOK, NEW l \in Limiters
  PROVE  /\ config.limit[l] \in Int /\ Window[l] \in Nat /\ Delay < Window[l] /\ Delay \in Nat
         /\ clock \in 0..MaxTime
         /\ entries[l] \in [Addresses -> Entry \cup {NoEntry}]
         /\ granted[l] \in [Addresses -> [0..MaxTime -> Nat]]
<1>1. config \in AdmissionConfig
  BY LimitsAssumption DEF TypeOK
<1>2. config.limit \in [Limiters -> Int]
  BY <1>1 DEF AdmissionConfig
<1>3. config.limit[l] \in Int
  BY <1>2
<1> QED
  BY <1>3, Bounds DEF TypeOK

LEMMA NotedFits ==
  ASSUME TypeOK, Windows, NEW l \in Limiters, NEW ip \in Addresses,
         NEW asked \in 0..MaxTime, asked <= clock, clock - asked <= Delay, NEW jp \in Addresses
  PROVE  /\ Fits(GrantedAfter(l, ip, asked)[jp], Noted(l, ip, asked)[jp],
                 clock, config.limit[l], Window[l])
         /\ Noted(l, ip, asked)[jp] \in Entry \cup {NoEntry}
         /\ GrantedAfter(l, ip, asked)[jp] \in [0..MaxTime -> Nat]
<1> DEFINE entry == entries[l][ip]
           cur == Current(l, ip, asked)
           limit == config.limit[l]
           given == granted[l][ip]
<1>1. /\ entries[l] \in [Addresses -> Entry \cup {NoEntry}]
      /\ granted[l] \in [Addresses -> [0..MaxTime -> Nat]]
      /\ clock \in 0..MaxTime /\ limit \in Int
  BY LimitersTyped
<1>2. Fits(granted[l][jp], entries[l][jp], clock, limit, Window[l])
  BY DEF Windows
<1>3. limit > 0 => Moment(clock, asked, limit, Window[l])
  BY LimitersTyped DEF Moment
<1>4. CASE Allows(l, ip, asked)
  <2> DEFINE after == [cur EXCEPT !.count = @ + 1]
             more == [given EXCEPT ![clock] = @ + 1]
  <2>1. /\ Noted(l, ip, asked) = [entries[l] EXCEPT ![ip] = after]
        /\ GrantedAfter(l, ip, asked) = [granted[l] EXCEPT ![ip] = more]
    BY <1>1, <1>4 DEF Noted, GrantedAfter
  <2>2. /\ after \in Entry /\ after.seen = asked /\ after.started = cur.started
        /\ after.count = cur.count + 1
    <3>1. cur \in Entry /\ cur.seen = asked
      BY CurrentIs
    <3> HIDE DEF cur
    <3> QED
      BY <3>1 DEF Entry
  <2>3. limit > 0 /\ cur.count < limit
    BY <1>4 DEF Allows
  <2>4. OneMore(clock, given, more)
    <3>1. given \in [0..MaxTime -> Nat]
      BY <1>1
    <3> HIDE DEF given
    <3> QED
      BY <1>1, <3>1 DEF OneMore
  <2>5. Opens(entry, after, asked, Window[l]) \/ Counts(entry, after, limit)
    <3>1. CASE Over(l, entry, asked)
      <4>1. cur.started = asked /\ cur.count = 0
        BY <3>1, CurrentIs
      <4>2. after.started = asked /\ after.count = 1
        <5> HIDE DEF cur, after
        <5> QED
          BY <2>2, <4>1
      <4> HIDE DEF after
      <4> QED
        BY <3>1, <4>2 DEF Opens, Over
    <3>2. CASE ~Over(l, entry, asked)
      <4>1. entry # NoEntry /\ cur.started = entry.started /\ cur.count = entry.count
        BY <3>2, CurrentIs
      <4> HIDE DEF cur, after, entry, limit
      <4> QED
        BY <2>2, <2>3, <4>1 DEF Counts
    <3> QED
      BY <3>1, <3>2
  <2>6. Fits(given, entry, clock, limit, Window[l]) /\ entry \in Entry \cup {NoEntry}
    BY <1>1 DEF Windows
  <2> HIDE DEF after, more, entry, given, cur
  <2>7. Fits(more, after, clock, limit, Window[l])
    <3> HIDE DEF limit
    <3> QED
      BY <1>3, <2>2, <2>3, <2>4, <2>5, <2>6, FitsGrant
  <2>8. after \in Entry /\ more \in [0..MaxTime -> Nat]
    BY <2>2, <2>4 DEF OneMore
  <2>9. CASE jp = ip
    <3>1. Noted(l, ip, asked)[jp] = after /\ GrantedAfter(l, ip, asked)[jp] = more
      BY <1>1, <2>1, <2>9
    <3> QED
      BY <2>7, <2>8, <3>1
  <2>10. CASE jp # ip
    <3>1. /\ Noted(l, ip, asked)[jp] = entries[l][jp]
          /\ GrantedAfter(l, ip, asked)[jp] = granted[l][jp]
      BY <1>1, <2>1, <2>10
    <3> QED
      BY <1>1, <1>2, <3>1
  <2> QED
    BY <2>9, <2>10
<1>5. CASE ~Allows(l, ip, asked) /\ limit > 0
  <2>1. /\ Noted(l, ip, asked) = [entries[l] EXCEPT ![ip] = cur]
        /\ GrantedAfter(l, ip, asked) = granted[l]
    BY <1>5 DEF Noted, GrantedAfter
  <2>2. cur \in Entry /\ cur.seen = asked /\ ~(cur.count < limit)
    BY <1>5, CurrentIs DEF Allows
  <2>3. ~Over(l, entry, asked)
    <3>1. ASSUME Over(l, entry, asked) PROVE FALSE
      <4>1. cur.count = 0
        BY <3>1, CurrentIs
      <4> QED
        BY <1>5, <2>2, <4>1
    <3> QED
      BY <3>1
  <2>4. entry \in Entry /\ entry # NoEntry /\ cur.started = entry.started /\ cur.count = entry.count
    BY <2>3, CurrentIs
  <2>5. Fits(given, entry, clock, limit, Window[l])
    BY DEF Windows
  <2>6. Fits(given, cur, clock, limit, Window[l])
    <3>1. Moment(clock, asked, limit, Window[l])
      BY <1>3, <1>5
    <3> HIDE DEF cur, entry, given, limit
    <3> QED
      BY <2>2, <2>4, <2>5, <3>1, FitsRefusal
  <2> HIDE DEF cur
  <2>7. CASE jp = ip
    <3>1. Noted(l, ip, asked)[jp] = cur /\ GrantedAfter(l, ip, asked)[jp] = given
      BY <1>1, <2>1, <2>7
    <3>2. given \in [0..MaxTime -> Nat]
      BY <1>1
    <3> QED
      BY <2>2, <2>6, <3>1, <3>2
  <2>8. CASE jp # ip
    <3>1. /\ Noted(l, ip, asked)[jp] = entries[l][jp]
          /\ GrantedAfter(l, ip, asked)[jp] = granted[l][jp]
      BY <1>1, <2>1, <2>8
    <3> QED
      BY <1>1, <1>2, <3>1
  <2> QED
    BY <2>7, <2>8
<1>6. CASE ~Allows(l, ip, asked) /\ ~(limit > 0)
  <2>1. Noted(l, ip, asked) = entries[l] /\ GrantedAfter(l, ip, asked) = granted[l]
    BY <1>6 DEF Noted, GrantedAfter
  <2> QED
    BY <1>1, <1>2, <2>1
<1> QED
  BY <1>4, <1>5, <1>6


LEMMA SweptKeepsOrForgets ==
  ASSUME NEW l \in Limiters, NEW kept \in [Addresses -> Entry \cup {NoEntry}], NEW now, NEW jp \in Addresses
  PROVE  \/ Swept(l, kept, now)[jp] = kept[jp]
         \/ /\ Swept(l, kept, now)[jp] = NoEntry /\ kept[jp] # NoEntry
            /\ now - kept[jp].seen >= 2 * Window[l]
BY DEF Swept

LEMMA AskFits ==
  ASSUME TypeOK, Windows, NEW l \in Limiters, NEW ip \in Addresses,
         NEW asked \in 0..MaxTime, asked <= clock, clock - asked <= Delay,
         Ask(l, ip, asked), UNCHANGED <<config, clock>>
  PROVE  Windows'
<1>1. /\ entries \in [Limiters -> [Addresses -> Entry \cup {NoEntry}]]
      /\ granted \in [Limiters -> [Addresses -> [0..MaxTime -> Nat]]]
  BY DEF TypeOK
<1>2. entries'[l] = Counted(l, ip, asked)
  BY <1>1 DEF Ask
<1>3. granted'[l] = GrantedAfter(l, ip, asked)
  <2>1. CASE Allows(l, ip, asked)
    <3>1. granted' = [granted EXCEPT ![l][ip][clock] = @ + 1]
      BY <2>1 DEF Ask
    <3>2. granted'[l] = [granted[l] EXCEPT ![ip] = [granted[l][ip] EXCEPT ![clock] = @ + 1]]
      BY <1>1, <3>1
    <3> QED
      BY <2>1, <3>2 DEF GrantedAfter
  <2>2. CASE ~Allows(l, ip, asked)
    BY <2>2 DEF Ask, GrantedAfter
  <2> QED
    BY <2>1, <2>2
<1>4. \A m \in Limiters : m # l => entries'[m] = entries[m] /\ granted'[m] = granted[m]
  BY <1>1 DEF Ask
<1>5. ASSUME NEW jp \in Addresses
      PROVE  Fits(granted'[l][jp], entries'[l][jp], clock, config.limit[l], Window[l])
  <2> DEFINE kept == Noted(l, ip, asked)
             limit == config.limit[l]
             given == granted'[l][jp]
  <2>1. /\ Fits(given, kept[jp], clock, limit, Window[l])
        /\ kept[jp] \in Entry \cup {NoEntry} /\ given \in [0..MaxTime -> Nat]
    BY <1>3, NotedFits
  <2>2. CASE ~Allows(l, ip, asked)
    <3>1. Counted(l, ip, asked) = kept
      BY <2>2 DEF Counted, Noted
    <3> QED
      BY <1>2, <2>1, <3>1
  <2>3. CASE Allows(l, ip, asked)
    <3>1. Counted(l, ip, asked) = Swept(l, kept, asked)
      BY <2>3 DEF Counted, Noted
    <3>2. kept \in [Addresses -> Entry \cup {NoEntry}]
      <4>1. kept = [entries[l] EXCEPT ![ip] = [Current(l, ip, asked) EXCEPT !.count = @ + 1]]
        BY <2>3 DEF Noted
      <4>2. [Current(l, ip, asked) EXCEPT !.count = @ + 1] \in Entry
        <5>1. Current(l, ip, asked) \in Entry
          BY CurrentIs
        <5> QED
          BY <5>1, EntryParts
      <4>3. entries[l] \in [Addresses -> Entry \cup {NoEntry}]
        BY <1>1
      <4> HIDE DEF kept
      <4> QED
        BY <4>1, <4>2, <4>3
    <3>3. Moment(clock, asked, limit, Window[l])
      BY <2>3, LimitersTyped DEF Moment, Allows
    <3> HIDE DEF kept, given, limit
    <3>4. CASE entries'[l][jp] = kept[jp]
      BY <2>1, <3>4 DEF given, limit
    <3>5. CASE /\ entries'[l][jp] = NoEntry /\ kept[jp] # NoEntry
               /\ asked - kept[jp].seen >= 2 * Window[l]
      <4>1. Fits(given, NoEntry, clock, limit, Window[l])
        BY <2>1, <3>3, <3>5, FitsForgotten
      <4> QED
        BY <3>5, <4>1 DEF given, limit
    <3> QED
      BY <1>2, <3>1, <3>2, <3>4, <3>5, SweptKeepsOrForgets
  <2> QED
    BY <2>2, <2>3
<1>6. ASSUME NEW m \in Limiters, NEW jp \in Addresses
      PROVE  Fits(granted'[m][jp], entries'[m][jp], clock, config.limit[m], Window[m])
  BY <1>4, <1>5 DEF Windows
<1> QED
  BY <1>6 DEF Windows

LEMMA TickFits ==
  ASSUME TypeOK, TypeOK', Windows, Tick
  PROVE  Windows'
<1>1. SUFFICES ASSUME NEW l \in Limiters, NEW ip \in Addresses
               PROVE  Fits(granted[l][ip], entries[l][ip], clock, config.limit[l], Window[l])'
  BY DEF Windows
<1>2. /\ clock \in 0..MaxTime /\ clock' \in 0..MaxTime /\ clock' = clock + 1
      /\ config.limit[l] \in Int /\ Window[l] \in Nat
  BY LimitersTyped DEF TypeOK, Tick
<1>3. granted[l][ip] \in [0..MaxTime -> Nat] /\ granted'[l][ip] \in [0..MaxTime -> Nat]
  BY DEF TypeOK
<1>4. Outlived(clock', Window[l], granted[l][ip], granted'[l][ip])
  <2>1. \A t \in 0..MaxTime :
          granted'[l][ip][t] = IF t + Window[l] <= clock' THEN 0 ELSE granted[l][ip][t]
    BY DEF Tick
  <2> QED
    BY <1>3, <2>1 DEF Outlived
<1>5. entries[l][ip] \in Entry \cup {NoEntry}
  BY DEF TypeOK
<1>6. Fits(granted[l][ip], entries[l][ip], clock, config.limit[l], Window[l])
  BY DEF Windows
<1>7. Fits(granted'[l][ip], entries[l][ip], clock', config.limit[l], Window[l])
  BY <1>2, <1>4, <1>5, <1>6, FitsLater
<1>8. UNCHANGED <<config, entries>>
  BY DEF Tick
<1> QED
  BY <1>7, <1>8


LEMMA InitWindows == Init => Prompt /\ Windows
<1> SUFFICES ASSUME Init PROVE Prompt /\ Windows
  OBVIOUS
<1>1. Prompt
  BY DEF Init, Prompt, Asking
<1>2. ASSUME NEW l \in Limiters, NEW ip \in Addresses
      PROVE  Fits(granted[l][ip], entries[l][ip], clock, config.limit[l], Window[l])
  <2>1. entries[l][ip] = NoEntry /\ \A t \in 0..MaxTime : granted[l][ip][t] = 0
    BY <1>2 DEF Init
  <2>2. config.limit[l] \in Int /\ granted[l][ip] \in [0..MaxTime -> Nat]
    <3>1. config \in AdmissionConfig
      BY LimitsAssumption DEF Init
    <3>2. config.limit \in [Limiters -> Int]
      BY <3>1 DEF AdmissionConfig
    <3> QED
      BY <1>2, <3>2, Bounds DEF Init
  <2>3. Recent(granted[l][ip], clock, Window[l]) /\ Nothing(granted[l][ip])
    BY <2>1 DEF Recent, Nothing
  <2>4. ASSUME config.limit[l] > 0 PROVE Short(granted[l][ip], config.limit[l], Window[l])
    <3> DEFINE given == granted[l][ip]
    <3>1. \A t \in 0..MaxTime : given[t] = 0
      BY <2>1
    <3> HIDE DEF given
    <3>2. ASSUME NEW from \in 0..MaxTime, NEW to \in from..MaxTime
          PROVE  Within(given, from, to) <= 2 * config.limit[l] - 1
      <4>1. to \in 0..MaxTime /\ from..to \subseteq 0..MaxTime
        BY Bounds
      <4>2. Within(given, from, to) = 0
        BY <3>1, <4>1, WithinNothing
      <4> QED
        BY <2>2, <2>4, <4>2
    <3> QED
      BY <3>2 DEF Short, given
  <2> QED
    BY <2>1, <2>3, <2>4 DEF Fits
<1> QED
  BY <1>1, <1>2 DEF Windows

(* Arriving and registering are to read the clock; asking is to have used     *)
(* what was read; the clock waits for those who have not.                     *)
LEMMA PromptStep ==
  ASSUME TypeOK, TypeOK', Prompt, [Next]_vars
  PROVE  Prompt'
<1> USE DEF Prompt, Asking
<1>1. /\ Delay \in Nat /\ clock \in Int /\ clock' \in Int
      /\ \A x \in Connections \cup Sessions : stamp[x] \in Int
  BY Bounds DEF TypeOK
<1>2. ASSUME NEW c \in Connections, Arrive(c) PROVE Prompt'
  BY <1>1, <1>2 DEF Arrive, TypeOK
<1>3. ASSUME NEW c \in Connections, AskHandshake(c) \/ Acquire(c) \/ Close(c) PROVE Prompt'
  BY <1>3 DEF AskHandshake, Acquire, Close, TypeOK
<1>4. ASSUME NEW s \in Sessions, OpenSession(s) \/ AskRegistration(s) \/ CloseSession(s) PROVE Prompt'
  BY <1>4 DEF OpenSession, AskRegistration, CloseSession, TypeOK
<1>5. ASSUME NEW s \in Sessions, Register(s) PROVE Prompt'
  BY <1>1, <1>5 DEF Register, TypeOK
<1>6. ASSUME Tick PROVE Prompt'
  BY <1>1, <1>6 DEF Tick
<1>7. CASE UNCHANGED vars
  BY <1>7 DEF vars
<1> QED
  BY <1>2, <1>3, <1>4, <1>5, <1>6, <1>7 DEF Next

LEMMA WindowsStep ==
  ASSUME TypeOK, TypeOK', Prompt, Windows, [Next]_vars
  PROVE  Windows'
<1>1. ASSUME UNCHANGED <<config, entries, granted, clock>> PROVE Windows'
  BY <1>1 DEF Windows
<1>2. ASSUME NEW c \in Connections, AskHandshake(c) PROVE Windows'
  <2>1. c \in Asking /\ Address[c] \in Addresses /\ stamp[c] \in 0..MaxTime
    BY <1>2, AddressAssumption DEF AskHandshake, Asking, TypeOK
  <2>2. stamp[c] <= clock /\ clock - stamp[c] <= Delay
    BY <2>1 DEF Prompt
  <2>3. "handshakes" \in Limiters
    BY DEF Limiters
  <2>4. Ask("handshakes", Address[c], stamp[c]) /\ UNCHANGED <<config, clock>>
    BY <1>2 DEF AskHandshake
  <2> QED
    BY <2>1, <2>2, <2>3, <2>4, AskFits
<1>3. ASSUME NEW s \in Sessions, AskRegistration(s) PROVE Windows'
  <2>1. s \in Asking /\ Address[Carrier[s]] \in Addresses /\ stamp[s] \in 0..MaxTime
    BY <1>3, AddressAssumption DEF AskRegistration, Asking, TypeOK
  <2>2. stamp[s] <= clock /\ clock - stamp[s] <= Delay
    BY <2>1 DEF Prompt
  <2>3. "registrations" \in Limiters
    BY DEF Limiters
  <2>4. Ask("registrations", Address[Carrier[s]], stamp[s]) /\ UNCHANGED <<config, clock>>
    BY <1>3 DEF AskRegistration
  <2> QED
    BY <2>1, <2>2, <2>3, <2>4, AskFits
<1>4. ASSUME NEW c \in Connections, Arrive(c) \/ Acquire(c) \/ Close(c)
      PROVE  UNCHANGED <<config, entries, granted, clock>>
  BY <1>4 DEF Arrive, Acquire, Close
<1>5. ASSUME NEW s \in Sessions, OpenSession(s) \/ Register(s) \/ CloseSession(s)
      PROVE  UNCHANGED <<config, entries, granted, clock>>
  BY <1>5 DEF OpenSession, Register, CloseSession
<1>6. CASE Tick
  BY <1>6, TickFits
<1>7. CASE UNCHANGED vars
  BY <1>7, <1>1 DEF vars
<1> QED
  BY <1>1, <1>2, <1>3, <1>4, <1>5, <1>6, <1>7 DEF Next

LEMMA WindowsAreLimits == TypeOK /\ Windows => WindowsLimit
<1> SUFFICES ASSUME TypeOK, Windows, NEW l \in Limiters, NEW ip \in Addresses,
                    NEW from \in 0..MaxTime, NEW to \in from..(from + Window[l] - Delay - 1), to <= MaxTime
             PROVE  GrantedWithin(l, ip, from, to)
                      <= IF config.limit[l] > 0 THEN 2 * config.limit[l] - 1 ELSE 0
  BY DEF WindowsLimit
<1>1. config.limit[l] \in Int /\ Window[l] \in Int /\ Delay \in Int /\ MaxTime \in Int
  BY LimitersTyped, Bounds
<1>2. /\ from \in Int /\ to \in Int /\ to - from < Window[l] - Delay
      /\ to \in from..MaxTime /\ to \in 0..MaxTime
  BY <1>1
<1>3. Fits(granted[l][ip], entries[l][ip], clock, config.limit[l], Window[l])
  BY DEF Windows
<1>4. GrantedWithin(l, ip, from, to) = Within(granted[l][ip], from, to)
  BY DEF GrantedWithin, Within
<1>5. CASE config.limit[l] > 0
  BY <1>2, <1>3, <1>4, <1>5 DEF Fits, Short
<1>6. CASE ~(config.limit[l] > 0)
  <2>1. Nothing(granted[l][ip])
    BY <1>1, <1>3, <1>6 DEF Fits
  <2>2. \A t \in from..to : granted[l][ip][t] = 0
    BY <1>1, <1>2, <2>1 DEF Nothing
  <2>3. Within(granted[l][ip], from, to) = 0
    BY <1>2, <2>2, WithinNothing
  <2> QED
    BY <1>4, <1>6, <2>3
<1> QED
  BY <1>5, <1>6

(* A limiter lets less than two windows' worth through in any window of time  *)
(* shortened by the delay, for every limit, window, delay and length of run.  *)
THEOREM WindowsAlwaysLimit == Spec => []WindowsLimit
<1>1. Init => TypeOK /\ CountsInv /\ Prompt /\ Windows
  <2>1. Init => TypeOK
    BY LimitsAssumption DEF Init, TypeOK, Limiters
  <2> QED
    BY <2>1, InitCounts, InitWindows
<1>2. TypeOK /\ CountsInv /\ Prompt /\ Windows /\ [Next]_vars
        => (TypeOK /\ CountsInv /\ Prompt /\ Windows)'
  BY TypeStep, NextCounts, PromptStep, WindowsStep
<1>3. TypeOK /\ CountsInv /\ Prompt /\ Windows => WindowsLimit
  BY WindowsAreLimits
<1> QED
  BY <1>1, <1>2, <1>3, PTL DEF Spec


==============================================================================
