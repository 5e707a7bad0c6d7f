------------------------------ MODULE MCClient ------------------------------
(* A potion, a blade and a wreath, which may be worn and handed in; a smith *)
(* who trades and an elder who asks for a wreath.                           *)
EXTENDS Client, TLC

CONSTANTS potion, blade, wreath, s1, s2

NoDrops == [i \in Items |-> 0]
NoStacks == [i \in Slots |-> NoItem]

Base == [ground |-> NoDrops, stacks |-> NoStacks, pool |-> 20, keys |-> {}, screens |-> {},
         sessions |-> 2, presses |-> 0, gifts |-> 0, given |-> {}]

(* Loot, with a screen to open in between.                                  *)
Looting ==
  [Base EXCEPT !.ground = [NoDrops EXCEPT ![wreath] = 2], !.keys = {"pickup"},
               !.screens = {"help"}, !.presses = 3]

(* A blade worn and taken off by both sessions.                             *)
Wielding ==
  [Base EXCEPT !.stacks = [NoStacks EXCEPT ![1] = blade], !.keys = {"use"}, !.presses = 3]

(* A potion drunk by both, on one connection and on several.                *)
Drinking(n) ==
  [Base EXCEPT !.stacks = [NoStacks EXCEPT ![1] = potion], !.pool = n,
               !.keys = {"use"}, !.presses = 2]

(* A potion drunk while it is sold, and a wreath bought takes its place.    *)
Bartering ==
  [Base EXCEPT !.stacks = [NoStacks EXCEPT ![1] = potion], !.keys = {"use", "shop"},
               !.sessions = 1, !.presses = 3]

(* Trades, with a gift in between.                                          *)
Trading ==
  [Base EXCEPT !.stacks = [NoStacks EXCEPT ![1] = wreath],
               !.keys = {"shop"}, !.sessions = 1, !.presses = 2,
               !.gifts = 1, !.given = {potion}]

(* A quest, while the wreath may be worn.                                   *)
Questing ==
  [Base EXCEPT !.stacks = [NoStacks EXCEPT ![1] = wreath],
               !.keys = {"quest", "use"}, !.sessions = 1, !.presses = 4]

(* Everything one session can have under way at once.                       *)
Hurrying(n) ==
  [Base EXCEPT !.ground = [NoDrops EXCEPT ![wreath] = 1],
               !.stacks = [NoStacks EXCEPT ![1] = blade], !.pool = n,
               !.keys = {"pickup", "use", "shop"}, !.sessions = 1, !.presses = 2]

ClientScenes ==
  {Looting, Wielding, Drinking(1), Drinking(20), Bartering, Trading, Questing,
   Hurrying(1), Hurrying(20)}

SessionSymmetry == Permutations(Sessions)
=============================================================================
