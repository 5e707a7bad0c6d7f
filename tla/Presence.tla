------------------------------ MODULE Presence -------------------------------
(***************************************************************************)
(* What the world promises about who is in it, whatever handlers, ticks    *)
(* and channels it is built from: a character has at most one session, a   *)
(* newer one ends the older, and a session that has ended never counts     *)
(* again.                                                                  *)
(***************************************************************************)
EXTENDS Naturals

CONSTANTS
  Characters,
  Tokens      \* the sessions, numbers other than None

None == 0

VARIABLES
  present,  \* [Characters -> its session or None]
  ended,    \* the sessions that are over
  open      \* the world still accepts sessions

vars == <<present, ended, open>>

InUse == {present[c] : c \in Characters} \ {None}

Init ==
  /\ present = [c \in Characters |-> None]
  /\ ended = {}
  /\ open = TRUE

Enter(c, t) ==
  /\ open
  /\ t \notin ended \cup InUse
  /\ present' = [present EXCEPT ![c] = t]
  /\ ended' = ended \cup ({present[c]} \ {None})
  /\ open' = open

Exit(c) ==
  /\ open
  /\ present[c] # None
  /\ present' = [present EXCEPT ![c] = None]
  /\ ended' = ended \cup {present[c]}
  /\ open' = open

Shutdown ==
  /\ open
  /\ open' = FALSE
  /\ present' = [c \in Characters |-> None]
  /\ ended' = ended \cup InUse

Next ==
  \/ \E c \in Characters, t \in Tokens : Enter(c, t)
  \/ \E c \in Characters : Exit(c)
  \/ Shutdown

Spec == Init /\ [][Next]_vars
=============================================================================
