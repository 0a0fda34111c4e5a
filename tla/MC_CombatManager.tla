-------------------------- MODULE MC_CombatManager --------------------------
(* Fights of different characters share nothing but the counter of their ids, *)
(* so one character is enough. With two fights it can come back into a new    *)
(* one while the old one goes on, with three a third can begin after that.    *)
EXTENDS CombatManager
CONSTANTS ann
=============================================================================
