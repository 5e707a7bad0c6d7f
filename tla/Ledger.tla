------------------------------- MODULE Ledger -------------------------------
(***************************************************************************)
(* What the repositories promise of a character's belongings: how many of  *)
(* each item it owns, its gold and its quest, changed by one whole trade   *)
(* at a time.  No stacks, no slots, no rows, no concurrency.               *)
(***************************************************************************)
EXTENDS Integers

CONSTANTS
  Items,
  BuyPrice,    \* [Items -> Nat]
  SellPrice,   \* [Items -> Nat]
  Objective,   \* [item, quantity]: what the quest asks for
  Reward       \* gold for the quest

VARIABLES
  owned,   \* [Items -> Nat]
  purse,   \* gold
  quest    \* "none", "active", "completed"

(* Any number of one item at once.                                         *)
Gain(i) ==
  /\ owned'[i] > owned[i]
  /\ owned' = [owned EXCEPT ![i] = owned'[i]]
  /\ UNCHANGED <<purse, quest>>

Buy(i) ==
  /\ purse >= BuyPrice[i]
  /\ owned' = [owned EXCEPT ![i] = @ + 1]
  /\ purse' = purse - BuyPrice[i]
  /\ UNCHANGED quest

Sell(i) ==
  /\ owned[i] > 0
  /\ owned' = [owned EXCEPT ![i] = @ - 1]
  /\ purse' = purse + SellPrice[i]
  /\ UNCHANGED quest

Use(i) ==
  /\ owned[i] > 0
  /\ owned' = [owned EXCEPT ![i] = @ - 1]
  /\ UNCHANGED <<purse, quest>>

Accept ==
  /\ quest = "none"
  /\ quest' = "active"
  /\ UNCHANGED <<owned, purse>>

Complete ==
  /\ quest = "active"
  /\ owned[Objective.item] >= Objective.quantity
  /\ owned' = [owned EXCEPT ![Objective.item] = @ - Objective.quantity]
  /\ purse' = purse + Reward
  /\ quest' = "completed"

Init ==
  /\ owned = [i \in Items |-> 0]
  /\ purse \in Nat
  /\ quest = "none"

Next ==
  \/ \E i \in Items : Buy(i) \/ Sell(i) \/ Use(i) \/ Gain(i)
  \/ Accept
  \/ Complete

Spec == Init /\ [][Next]_<<owned, purse, quest>>

=============================================================================
