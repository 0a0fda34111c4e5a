---------------------------- MODULE MC_Character ----------------------------
(* Two clerics that came into the world with a state of "{}", and so with the *)
(* state of a warrior: one never played, one of level 2 and one step from the  *)
(* next.  A provisioner: a cut of data/items.json, npcs.json, skill_caps.json. *)
EXTENDS Character

CONSTANTS dagger, tunic, staff, first, second

TheItems == {dagger, tunic, staff}

Item(slot, hp, mana, classes, weaponSkill, value) ==
    [slot |-> slot, hp |-> hp, mana |-> mana, level |-> 1, classes |-> classes,
     skill |-> Nothing, skillLevel |-> 0, weaponSkill |-> weaponSkill, value |-> value]

TheCatalog ==
    dagger :> Item("weapon", 0, 0, {"warrior"}, "1h_pierce", 18) @@
    tunic  :> [Item("chest", 4, 0, {"warrior", "cleric"}, Nothing, 20)
                  EXCEPT !.skill = "offense", !.skillLevel = 5] @@
    staff  :> Item("weapon", 0, 6, {"cleric"}, "1h_blunt", 16)

TheSlots == {"weapon", "chest"}

TheStock == dagger :> [price |-> 18, quantity |-> 2]

TheSellIds == {dagger}

Rule(unlock, perLevel, max) == [unlock |-> unlock, perLevel |-> perLevel, max |-> max]

Default == [s \in {"forage", "pick_lock", "meditate", "offense", "defense", "merchant",
                   "1h_slash", "1h_pierce", "1h_blunt", "bash", "kick", "block", "taunt"}
               |-> Rule(1, 3, 200)]

TheCaps ==
    "warrior" :> [Default EXCEPT !["offense"] = Rule(1, 5, 300), !["1h_slash"] = Rule(1, 5, 300),
                      !["1h_pierce"] = Rule(1, 4, 250), !["taunt"] = Rule(4, 4, 250),
                      !["merchant"] = Rule(1, 2, 100)] @@
    "cleric"  :> [Default EXCEPT !["offense"] = Rule(1, 4, 200), !["1h_blunt"] = Rule(1, 4, 200),
                      !["meditate"] = Rule(1, 5, 300), !["merchant"] = Rule(1, 2, 100)]

At(level, xp) == [level |-> level, xp |-> xp]

Naked == [s \in TheSlots |-> Nothing]

Cleric ==
    [class |-> "warrior", level |-> 2, xp |-> 440, hp |-> 90, maxHp |-> 104,
     mana |-> 3, maxMana |-> 6, gold |-> 5, weaponSkill |-> "1h_blunt",
     skills |-> "offense" :> At(7, 218) @@ "merchant" :> At(6, 0) @@ "taunt" :> At(4, 0)
                @@ "meditate" :> At(9, 272),
     inventory |-> [i \in TheItems |-> 0],
     equipment |-> [Naked EXCEPT !["weapon"] = staff, !["chest"] = tunic]]

TheCombats == {first, second}

TheHeroes == {Cleric}

TheLoots == {<<staff, 1>>}

FightsAreAlike == Permutations(Combats)

=============================================================================
