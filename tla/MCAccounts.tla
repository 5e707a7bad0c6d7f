----------------------------- MODULE MCAccounts -----------------------------
(* Two connections of one character, which is new, known or a moderator's,  *)
(* and commands from the console and from the character itself.             *)
EXTENDS Accounts, TLC

CONSTANTS key, c1, c2, h1, h2, h3

MCKeyOf == [c \in Connections |-> key]

MCFirstAccounts ==
  [Keys -> {NoAccount, NewAccount, [role |-> "moderator", banned |-> FALSE]}]

MCSymmetry == Permutations(Connections) \cup Permutations(Commands)
=============================================================================
