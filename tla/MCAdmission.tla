----------------------------- MODULE MCAdmission -----------------------------
(* Instances of Admission for TLC.                                            *)
EXTENDS Admission, TLC

CONSTANTS c1, c2, c3, s1, s2, home, cafe

(* Two connections of one address and one of another. *)
MCAddress == [c \in Connections |-> IF c = c3 THEN cafe ELSE home]

(* Both sessions share the first connection. *)
MCCarrier == [s \in Sessions |-> c1]

Admitting(inAll, perAddress) ==
  [MaxConnections |-> inAll, MaxConnectionsPerIP |-> perAddress, MaxSessions |-> 1,
   limit |-> [l \in Limiters |-> IF l = "handshakes" THEN 3 ELSE 1]]

(* A server that takes no connection, and only its limiters work.           *)
Limiting ==
  [MaxConnections |-> 0, MaxConnectionsPerIP |-> 2, MaxSessions |-> 1,
   limit |-> [l \in Limiters |-> 1]]

(* Either limit of the connections is met, in all and of an address.        *)
MCConfigs == {Admitting(2, 1), Admitting(2, 2), Admitting(1, 2), Limiting}

MCUntil == [given \in MCConfigs |-> IF given = Limiting THEN MaxTime ELSE 0]

Three == [l \in Limiters |-> 3]

(* Two connections of one address are interchangeable when neither carries  *)
(* a session, and so are two sessions of one connection.                    *)
AlikeSessions == Permutations({s1, s2})
==============================================================================
