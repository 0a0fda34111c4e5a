----------------------------- MODULE Character -----------------------------
(***************************************************************************)
(* One character in one zone: what it owns, wears, knows and is worth, and *)
(* the three copies of that which must agree: the PlayerEntity of the zone *)
(* server, the row of the database and the windows of the client.  The     *)
(* handlers are those of ZoneServerInventory.cpp, the meditation and the   *)
(* debug commands of ZoneServer.cpp, and what CombatManager does to the    *)
(* state of a player while a fight goes on and when it ends.               *)
(*                                                                         *)
(* The course of a fight is CombatInstance's: here each call into it       *)
(* leaves the participant with some hit points and mana, and gives some    *)
(* skill experience.  A fight outlives the player who leaves it, as in     *)
(* CombatManager, and goes on writing to the character when it returns,    *)
(* next to the fight that the character may have started in between.       *)
(* Agility, spells, abilities and god mode are left out.                   *)
(*                                                                         *)
(* A character has two classes: that of its row, which PlayerEntity keeps  *)
(* and which caps its skills and admits it to equipment, and that of its   *)
(* state, which gives it its mana and what its client shows.  They differ  *)
(* whenever the state was read from a row that was never played.           *)
(***************************************************************************)
EXTENDS Integers, FiniteSets, FiniteSetsExt, TLC

CONSTANTS
    Items,          \* ids of data/items.json
    Catalog,        \* item -> [slot, hp, mana, level, classes, skill,
                    \*          skillLevel, weaponSkill, value]
    Slots,          \* equipment slots
    Stock,          \* merchantBuyStock of the merchant: item -> [price, quantity]
    SellIds,        \* merchantSellItemIds: what the merchant takes
    Caps,           \* class -> skill -> [unlock, perLevel, max], skill_caps.json
    RowClass,       \* characters.class_id, PlayerEntity.classId
    Charisma,       \* charisma of the character
    Heroes,         \* states in the database when the zone starts
    Empty,          \* "{}", the state_json of a character that was never played
    Quantities,     \* quantities a client asks for
    CombatEvents,   \* what the character may do in a call: "hit", "miss",
                    \* "defend" or "none"
    Combats,        \* combat ids: bounds the fights at a time
    Activities,     \* what a client may practise
    Loots,          \* what a mob may drop, item -> quantity
    Rewards,        \* experience a won fight may bring
    Nothing,        \* empty slot
    Gone,           \* no player, no fight
    QuantityWidth,  \* values of a uint16_t
    GoldWidth,      \* values of a uint32_t
    MaxEvents       \* bound of this model: events that give experience or items

MaxLevel == 60

VARIABLES
    entity,         \* PlayerEntity: [level, inCombat, state], or Gone
    fights,         \* combat id -> its CombatParticipant, [hp, maxHp, mana, maxMana],
                    \* or Gone
    near,           \* it stands next to the merchant
    stock,          \* merchantStockRemaining
    saved,          \* characters.state_json
    shown,          \* what the windows of its client show, or Gone
    events          \* experience and item events so far

vars == <<entity, fights, near, stock, saved, shown, events>>
-----------------------------------------------------------------------------
(***************************************************************************)
(* CharacterState.                                                         *)
(***************************************************************************)
Casters == {"cleric", "wizard"}

Classes == DOMAIN Caps

Skills == UNION {DOMAIN Caps[class] : class \in Classes}

Progress == [level : Nat, xp : Nat]

CharacterState ==
    [class : Classes, level : 1 .. MaxLevel, xp : Nat, hp : Nat, maxHp : Nat, mana : Nat,
     maxMana : Nat, gold : 0 .. GoldWidth - 1, weaponSkill : Skills,
     skills : UNION {[known -> Progress] : known \in SUBSET Skills},
     inventory : [Items -> 0 .. QuantityWidth - 1], equipment : [Slots -> Items \cup {Nothing}]]

\* What state_json says of a character that has been played.
Json ==
    [class : Classes, level : 1 .. MaxLevel, experience : Nat,
     vitals : Nat \X Nat \X Nat \X Nat, gold : Nat, equippedWeaponSkill : Skills,
     skills : SUBSET (Skills \X Progress), inventory : SUBSET (Items \X Nat),
     equipment : SUBSET (Slots \X Items)]

PlayerEntity == [level : 1 .. MaxLevel, inCombat : BOOLEAN, state : CharacterState]

CombatParticipant == [hp : Nat, maxHp : Nat, mana : Nat, maxMana : Nat]

\* The last inventory snapshot and the last skills snapshot.
Snapshots ==
    [bag : [gold : Nat, inventory : [Items -> Nat],
            equipment : [Slots -> Items \cup {Nothing}]],
     lore : [level : Nat, xp : Nat,
             skills : UNION {[known -> Progress] : known \in SUBSET Skills}]]

\* No item of data/items.json takes hit points or mana away from who wears it.
ASSUME CatalogAssumption ==
    /\ IsFiniteSet(Items)
    /\ SellIds \subseteq Items
    /\ DOMAIN Stock \subseteq Items
    /\ \A i \in DOMAIN Stock : Stock[i].price \in Nat /\ Stock[i].quantity \in 0 .. QuantityWidth - 1
    /\ \A i \in Items :
           /\ Catalog[i].slot \in Slots \cup {Nothing}
           /\ Catalog[i].weaponSkill \in Skills \cup {Nothing}
           /\ {Catalog[i].hp, Catalog[i].mana, Catalog[i].value} \subseteq Nat
    /\ Nothing \notin Items \cup Slots

\* A skill without a rule of its own has the default one, in every class.  No rule of
\* data/skill_caps.json ever gives a cap of 1, the level of a skill not learned before.
ASSUME RulesAssumption ==
    /\ {"warrior", RowClass} \subseteq Classes
    /\ Classes \subseteq {"warrior", "cleric", "wizard", "rogue"}
    /\ \A class \in Classes : Caps[class] \in [Skills -> [unlock : Nat, perLevel : Nat, max : Nat]]
    /\ \A class \in Classes, s \in Skills :
           Caps[class][s].perLevel # 1 /\ Caps[class][s].max # 1
    /\ {"1h_slash", "bash", "kick", "block", "taunt", "offense", "defense", "merchant", "meditate"}
           \subseteq Skills

ASSUME RequestsAssumption ==
    /\ Quantities \subseteq Nat
    /\ Rewards \subseteq Nat
    /\ Loots \subseteq Items \X Nat
    /\ Activities \subseteq Skills \cap {"forage", "pick_lock", "meditate"}
    /\ CombatEvents \subseteq {"hit", "miss", "defend", "none"}

\* A new character has 200 pieces of gold.
ASSUME WidthsAssumption ==
    /\ QuantityWidth \in Nat \ {0}
    /\ GoldWidth \in Nat /\ GoldWidth > 200
    /\ Charisma \in Nat
    /\ MaxEvents \in Nat

ASSUME AbsenceAssumption ==
    /\ Gone \notin PlayerEntity \cup CombatParticipant \cup Snapshots
    /\ Empty \notin Json

BaseHp(level) == 80 + 10 * level
BaseMana(class, level) ==
    IF class \in {"warrior", "rogue"} THEN 0 ELSE 40 + 8 * level

\* applyClassSkills: the skills a class starts with, next to those of everybody.
Trained(class) ==
    CASE class = "warrior" -> {"1h_slash", "bash", "kick", "block", "taunt"}
      [] class = "cleric"  -> {"1h_blunt", "alteration", "channeling", "meditate", "evocation"}
      [] class = "wizard"  -> {"evocation", "channeling", "meditate", "abjuration"}
      [] class = "rogue"   -> {"1h_pierce", "hide", "sneak", "pick_lock"}

FirstLevel(class, s, base) ==
    CASE s = "taunt" -> Max({1, base - 2})
      [] <<class, s>> \in {<<"cleric", "evocation">>, <<"wizard", "abjuration">>,
                          <<"rogue", "pick_lock">>} -> base \div 2
      [] OTHER -> base

FirstWeapon(class) ==
    CASE class = "warrior" -> "1h_slash" [] class = "rogue" -> "1h_pierce"
      [] class \in Casters -> "1h_blunt"

CreateDefault(class, level) ==
    [class |-> class, level |-> level, xp |-> 0, hp |-> BaseHp(level), maxHp |-> BaseHp(level),
     mana |-> BaseMana(class, level), maxMana |-> BaseMana(class, level), gold |-> 200,
     weaponSkill |-> FirstWeapon(class),
     skills |-> [s \in Trained(class) \cup {"offense", "defense", "merchant"} |->
                    [level |-> FirstLevel(class, s, 5 + level), xp |-> 0]],
     inventory |-> [i \in Items |-> 0], equipment |-> [s \in Slots |-> Nothing]]

\* Slip: the weapon skill is not written.
ToJson_NoWeaponSkill(c) ==
    [class |-> c.class, level |-> c.level, experience |-> c.xp,
     vitals |-> <<c.hp, c.maxHp, c.mana, c.maxMana>>, gold |-> c.gold,
     equippedWeaponSkill |-> FirstWeapon(c.class),
     skills |-> {<<s, c.skills[s]>> : s \in DOMAIN c.skills},
     inventory |-> {<<i, c.inventory[i]>> : i \in {j \in Items : c.inventory[j] > 0}},
     equipment |-> {<<s, c.equipment[s]>> : s \in {t \in Slots : c.equipment[t] # Nothing}}]

\* What state_json says of a state. Stacks and worn items are listed, absent ones are not.
ToJson(c) ==
    [class |-> c.class, level |-> c.level, experience |-> c.xp,
     vitals |-> <<c.hp, c.maxHp, c.mana, c.maxMana>>, gold |-> c.gold,
     equippedWeaponSkill |-> c.weaponSkill,
     skills |-> {<<s, c.skills[s]>> : s \in DOMAIN c.skills},
     inventory |-> {<<i, c.inventory[i]>> : i \in {j \in Items : c.inventory[j] > 0}},
     equipment |-> {<<s, c.equipment[s]>> : s \in {t \in Slots : c.equipment[t] # Nothing}}]

\* The value listed under a key, if there is one.
Under(list, key, absent) ==
    IF \E e \in list : e[1] = key THEN (CHOOSE e \in list : e[1] = key)[2] ELSE absent

\* What a zone makes of state_json. A character that was never played comes out as a
\* warrior of level 1, whatever class it was created with.
FromJson(json) ==
    IF json = Empty THEN CreateDefault("warrior", 1)
    ELSE [class |-> json.class, level |-> json.level, xp |-> json.experience,
          hp |-> json.vitals[1], maxHp |-> json.vitals[2],
          mana |-> json.vitals[3], maxMana |-> json.vitals[4], gold |-> json.gold,
          weaponSkill |-> json.equippedWeaponSkill,
          skills |-> [s \in {e[1] : e \in json.skills} |-> Under(json.skills, s, Nothing)],
          inventory |-> [i \in Items |-> Under(json.inventory, i, 0)],
          equipment |-> [s \in Slots |-> Under(json.equipment, s, Nothing)]]

SkillOrDefault(c, s) ==
    IF s \in DOMAIN c.skills THEN c.skills[s] ELSE [level |-> 1, xp |-> 0]

SkillLevel(c, s) == SkillOrDefault(c, s).level

\* An assignment to skills[s], whether there was such an entry or not.
WithSkill(c, s, progress) ==
    [c EXCEPT !.skills = [t \in DOMAIN @ \cup {s} |-> IF t = s THEN progress ELSE @[t]]]

AddItem(c, i, q) ==
    [c EXCEPT !.inventory[i] = (@ + q) % QuantityWidth]

RemoveItem(c, i, q) == [c EXCEPT !.inventory[i] = @ - q]

\* ItemRules::recomputeDerivedStats.  A slot holds an item of its own kind,
\* so the items worn are a set.
Recompute(c) ==
    LET worn    == {c.equipment[s] : s \in Slots} \ {Nothing}
        arms    == {i \in worn : Catalog[i].slot = "weapon"
                                 /\ Catalog[i].weaponSkill # Nothing}
        Hp(i)   == Catalog[i].hp
        Mana(i) == Catalog[i].mana
        maxHp   == BaseHp(c.level) + MapThenSumSet(Hp, worn)
        maxMana == BaseMana(c.class, c.level) + MapThenSumSet(Mana, worn)
    IN [c EXCEPT !.maxHp = maxHp, !.maxMana = maxMana,
                 !.hp = Min({@, maxHp}), !.mana = Min({@, maxMana}),
                 !.weaponSkill = IF arms = {} THEN @
                                 ELSE Catalog[CHOOSE i \in arms : TRUE].weaponSkill]
-----------------------------------------------------------------------------
(***************************************************************************)
(* Experience and skills.                                                  *)
(***************************************************************************)
ExperienceRequired(level) == IF level <= 1 THEN 0 ELSE level * level * 50

SkillExperienceToLevelUp(level) == 50 + 25 * level

\* The while loop of levelling: as long as the experience pays for the next
\* level, up to top.
Climb(Cost(_), from, top, xp) ==
    LET Level[p \in (0 .. top) \X (0 .. xp)] ==
            IF p[1] < top /\ p[2] >= Cost(p[1] + 1)
            THEN Level[<<p[1] + 1, p[2] - Cost(p[1] + 1)>>]
            ELSE [level |-> p[1], xp |-> p[2]]
    IN Level[<<from, xp>>]

\* applyCharacterLevelUp: what is worn does not count until it is next computed.
LevelUp(c) ==
    LET maxMana == IF c.maxMana > 0 \/ c.class \in Casters
                   THEN 40 + 8 * c.level ELSE c.maxMana
    IN [c EXCEPT !.maxHp = BaseHp(c.level), !.hp = BaseHp(c.level),
                 !.maxMana = maxMana, !.mana = IF maxMana > 0 THEN maxMana ELSE @]

GrantExperience(c, amount) ==
    LET reached == IF c.level < MaxLevel
                   THEN Climb(ExperienceRequired, c.level, MaxLevel, c.xp + amount)
                   ELSE [level |-> c.level, xp |-> c.xp + amount]
        grown   == [c EXCEPT !.level = reached.level, !.xp = reached.xp]
    IN IF reached.level > c.level THEN LevelUp(grown) ELSE grown

\* SkillCapCatalog::getCap
GetCap(class, s, level) ==
    LET rule == Caps[class][s]
    IN IF rule.max = 0 \/ level < rule.unlock THEN 0
       ELSE Min({rule.max, rule.perLevel * level})

\* SkillResolver::applyGain
ApplyGain(progress, amount, cap) ==
    LET Price(l) == SkillExperienceToLevelUp(l - 1)
    IN IF cap = 0 \/ progress.level >= cap THEN progress
       ELSE Climb(Price, progress.level, cap, progress.xp + amount)

\* CombatManager::applySkillXp: the cap is that of the row's class, at the level the
\* caller has.
ApplySkillXp(c, level, s, amount) ==
    LET cap == GetCap(RowClass, s, level)
    IN IF cap = 0 THEN c
       ELSE WithSkill(c, s, ApplyGain(SkillOrDefault(c, s), amount, cap))

MeditateManaGain(skill, maxMana) == Min({maxMana, 5 + skill \div 10})

ActivityGain(activity) ==
    CASE activity = "forage" -> 10 [] activity = "pick_lock" -> 12
      [] activity = "meditate" -> 5

\* Whether applyGain will change the skill: only then does applySkillXp send a snapshot.
Gains(c, level, s) == SkillLevel(c, s) < GetCap(RowClass, s, level)

\* The skills that an event of the fight is practice in.
PractisedBy(c, event) ==
    CASE event \in {"hit", "miss"} -> {"offense", c.weaponSkill}
      [] event = "defend"          -> {"defense"}
      [] event = "none"            -> {}

\* What an event of the fight teaches the one who acted.
Learn(c, level, event) ==
    LET Weapon(xp) == ApplySkillXp(ApplySkillXp(c, level, "offense", xp),
                                   level, c.weaponSkill, xp)
    IN CASE event = "hit"    -> Weapon(8)
         [] event = "miss"   -> Weapon(4)
         [] event = "defend" -> ApplySkillXp(c, level, "defense", 6)
         [] event = "none"   -> c
-----------------------------------------------------------------------------
(***************************************************************************)
(* Prices.  The modifier is 1 - skill/300 * 0.2 - charisma/255 * 0.1, in   *)
(* the code a float: here a fraction of 25500, exact where the float can   *)
(* be one unit below a price that is a whole number.                       *)
(***************************************************************************)
Modifier(c) ==
    Max({12750, Min({25500, 25500 - 17 * SkillLevel(c, "merchant") - 10 * Charisma})})

BuyPrice(c, i) ==
    LET base == IF Stock[i].price > 0 THEN Stock[i].price ELSE Catalog[i].value
    IN Max({1, (base * Modifier(c)) \div 25500})

\* Slip: the merchant pays the full value of the item.
SellPrice_FullValue(c, i) ==
    Max({1, (Max({1, Catalog[i].value}) * (51000 - Modifier(c))) \div 25500})

SellPrice(c, i) ==
    Max({1, (Max({1, Catalog[i].value \div 2}) * (51000 - Modifier(c))) \div 25500})
-----------------------------------------------------------------------------
(***************************************************************************)
(* The three copies.                                                       *)
(***************************************************************************)
\* buildInventorySnapshot
InventorySnapshot(c) ==
    [gold |-> c.gold, inventory |-> c.inventory, equipment |-> c.equipment]

\* buildSkillsSnapshot: without the skills that the class of the state cannot have yet.
SkillsSnapshot(c) ==
    [level |-> c.level, xp |-> c.xp,
     skills |-> [s \in {t \in DOMAIN c.skills : GetCap(c.class, t, c.level) > 0} |->
                    c.skills[s]]]

Snapshot(c) == [bag |-> InventorySnapshot(c), lore |-> SkillsSnapshot(c)]

Here == entity # Gone

\* The new state, in the PlayerEntity and by persistPlayerState in the database.
Keep(c) ==
    /\ entity' = [entity EXCEPT !.state = c]
    /\ saved' = ToJson(c)

\* sendInventorySnapshot
SendInventory(c) == shown' = [shown EXCEPT !.bag = InventorySnapshot(c)]

\* sendSkillsSnapshot
SendSkills(c) == shown' = [shown EXCEPT !.lore = SkillsSnapshot(c)]

Count == /\ events < MaxEvents
         /\ events' = events + 1
-----------------------------------------------------------------------------
(***************************************************************************)
(* Inventory and equipment.                                                *)
(***************************************************************************)
CanEquip(i) ==
    LET item == Catalog[i]
    IN /\ item.slot # Nothing
       /\ entity.level >= item.level
       /\ RowClass \in item.classes
       /\ item.skill # Nothing => SkillLevel(entity.state, item.skill) >= item.skillLevel

\* Slip: what was worn in the slot is not put back in the inventory.
Equip_DropsThePrevious(c, i) ==
    Recompute([RemoveItem(c, i, 1) EXCEPT !.equipment[Catalog[i].slot] = i])

Equip(c, i) ==
    LET slot     == Catalog[i].slot
        previous == c.equipment[slot]
        taken    == RemoveItem(c, i, 1)
        swapped  == IF previous = Nothing THEN taken ELSE AddItem(taken, previous, 1)
    IN Recompute([swapped EXCEPT !.equipment[slot] = i])

TryEquipItem(i) ==
    /\ Here
    /\ ~entity.inCombat
    /\ entity.state.inventory[i] > 0
    /\ CanEquip(i)
    /\ Keep(Equip(entity.state, i))
    /\ SendInventory(Equip(entity.state, i))
    /\ UNCHANGED <<fights, near, stock, events>>

TryUnequipItem(slot) ==
    /\ Here
    /\ ~entity.inCombat
    /\ entity.state.equipment[slot] # Nothing
    /\ LET c    == entity.state
           bare == Recompute([AddItem(c, c.equipment[slot], 1)
                                  EXCEPT !.equipment[slot] = Nothing])
       IN Keep(bare) /\ SendInventory(bare)
    /\ UNCHANGED <<fights, near, stock, events>>

HandleMerchantBuy(i, q) ==
    /\ Here
    /\ near
    /\ q > 0
    /\ i \in DOMAIN Stock
    /\ stock[i] >= q
    /\ LET c     == entity.state
           total == (BuyPrice(c, i) * q) % GoldWidth
           laden == AddItem([c EXCEPT !.gold = @ - total], i, q)
       IN /\ c.gold >= total
          /\ Keep(laden) /\ SendInventory(laden)
    /\ stock' = [stock EXCEPT ![i] = @ - q]
    /\ UNCHANGED <<fights, near, events>>

HandleMerchantSell(i, q) ==
    /\ Here
    /\ near
    /\ q > 0
    /\ i \in SellIds
    /\ entity.state.inventory[i] >= q
    /\ LET c     == entity.state
           total == (SellPrice(c, i) * q) % GoldWidth
           sold  == [RemoveItem(c, i, q) EXCEPT !.gold = (@ + total) % GoldWidth]
       IN Keep(sold) /\ SendInventory(sold)
    /\ UNCHANGED <<fights, near, stock, events>>

\* A move to or from the tiles around the merchant, in a fight too.
Walk ==
    /\ Here
    /\ near' = ~near
    /\ UNCHANGED <<entity, fights, stock, saved, shown, events>>
-----------------------------------------------------------------------------
(***************************************************************************)
(* Meditation and the debug commands.                                      *)
(***************************************************************************)
HandleMeditate ==
    /\ Count
    /\ Here
    /\ ~entity.inCombat
    /\ entity.state.maxMana > 0
    /\ LET c    == entity.state
           gain == MeditateManaGain(SkillLevel(c, "meditate"), c.maxMana)
           calm == ApplySkillXp([c EXCEPT !.mana = Min({c.maxMana, @ + gain})],
                                entity.level, "meditate", ActivityGain("meditate"))
       IN Keep(calm) /\ SendSkills(calm)
    /\ UNCHANGED <<fights, near, stock>>

GrantItem(i, q) ==
    /\ Count
    /\ Here
    /\ Keep(AddItem(entity.state, i, q))
    /\ SendInventory(AddItem(entity.state, i, q))
    /\ UNCHANGED <<fights, near, stock>>

PracticeSkill(activity) ==
    /\ Count
    /\ Here
    /\ LET c == ApplySkillXp(entity.state, entity.level, activity, ActivityGain(activity))
       IN Keep(c) /\ SendSkills(c)
    /\ UNCHANGED <<fights, near, stock>>

SetSkillLevel(s, level) ==
    /\ Count
    /\ Here
    /\ LET set == Min({level, GetCap(RowClass, s, entity.level)})
           c   == WithSkill(entity.state, s, [level |-> set, xp |-> 0])
       IN Keep(c) /\ SendSkills(c)
    /\ UNCHANGED <<fights, near, stock>>

MaxSkills ==
    /\ Count
    /\ Here
    /\ LET Cap(s) == GetCap(RowClass, s, entity.level)
           c      == [entity.state EXCEPT !.skills = [s \in DOMAIN @ |->
                         IF Cap(s) > 0 THEN [level |-> Cap(s), xp |-> 0] ELSE @[s]]]
       IN Keep(c) /\ SendSkills(c)
    /\ UNCHANGED <<fights, near, stock>>

GrantDebugExperience(amount) ==
    /\ Count
    /\ Here
    /\ LET c == GrantExperience(entity.state, amount)
       IN /\ entity' = [entity EXCEPT !.state = c, !.level = c.level]
          /\ saved' = ToJson(c)
          /\ SendSkills(c)
    /\ UNCHANGED <<fights, near, stock>>

FillMana ==
    /\ Count
    /\ Here
    /\ Keep([entity.state EXCEPT !.mana = entity.state.maxMana])
    /\ UNCHANGED <<fights, near, stock, shown>>

HandleDebugCommand ==
    \/ \E loot \in Loots : GrantItem(loot[1], loot[2])
    \/ \E a \in Activities : PracticeSkill(a)
    \/ SetSkillLevel("merchant", 300)
    \/ MaxSkills
    \/ \E x \in Rewards : GrantDebugExperience(x)
    \/ FillMana
-----------------------------------------------------------------------------
(***************************************************************************)
(* Fights.                                                                 *)
(***************************************************************************)
\* Slip: only hit points and mana are taken back, not the maxima of the fight.
SyncFrom_NoMaxima(c, p) == [c EXCEPT !.hp = p.hp, !.mana = p.mana]

\* syncPlayerFromParticipant
SyncFrom(c, p) ==
    [c EXCEPT !.hp = p.hp, !.maxHp = p.maxHp, !.mana = p.mana, !.maxMana = p.maxMana]

\* startDebugCombat: a fight left behind may still be running, and one lost before may
\* have left no hit points.
StartFight(f) ==
    /\ Here
    /\ ~entity.inCombat
    /\ fights[f] = Gone
    /\ fights' = [fights EXCEPT ![f] =
                     [hp |-> entity.state.hp, maxHp |-> entity.state.maxHp,
                      mana |-> entity.state.mana, maxMana |-> entity.state.maxMana]]
    /\ entity' = [entity EXCEPT !.inCombat = TRUE]
    /\ UNCHANGED <<near, stock, saved, shown, events>>

\* What a call into CombatInstance may leave of the participant: struck down
\* or healed; its spells unpaid or paid with all it had.
Outcomes(p) ==
    {[p EXCEPT !.hp = h, !.mana = m] : h \in {0, p.maxHp}, m \in {0, p.mana}}

\* The character after broadcastEvents and syncAllParticipants.
AfterTheCall(p, event) == SyncFrom(Learn(entity.state, entity.level, event), p)

\* Slip: no gain in a fight is told to the client.
TellGains_Never(c, event) == UNCHANGED shown

\* syncProgress_, for every gain that applyGain made.
TellGains(c, event) ==
    IF \E s \in PractisedBy(entity.state, event) : Gains(entity.state, entity.level, s)
    THEN SendSkills(c) ELSE UNCHANGED shown

\* broadcastEvents and syncAllParticipants, when the fight goes on.
FightGoesOn(f, p, event) ==
    /\ Count
    /\ fights[f] # Gone
    /\ p \in Outcomes(fights[f])
    /\ fights' = [fights EXCEPT ![f] = p]
    /\ IF Here
       THEN LET c == AfterTheCall(p, event)
            IN Keep(c) /\ TellGains(c, event)
       ELSE UNCHANGED <<entity, saved, shown>>
    /\ UNCHANGED <<near, stock>>

\* The last call, then finishCombat: loot first, then experience, and both snapshots.
\* The level that finishCombat updates is that of a copy of the player
\* (combatViewScratch_): the one of the PlayerEntity stays.
Win(f, p, event, loot, reward) ==
    /\ Count
    /\ fights[f] # Gone
    /\ p \in Outcomes(fights[f])
    /\ fights' = [fights EXCEPT ![f] = Gone]
    /\ IF Here
       THEN LET looted == AddItem(AfterTheCall(p, event), loot[1], loot[2])
                c      == GrantExperience(looted, reward)
            IN /\ entity' = [entity EXCEPT !.state = c, !.inCombat = FALSE]
               /\ saved' = ToJson(c)
               /\ shown' = Snapshot(c)
       ELSE UNCHANGED <<entity, saved, shown>>
    /\ UNCHANGED <<near, stock>>

\* The same after a defeat or a flight, which bring nothing.
Lose(f, p, event) ==
    /\ Count
    /\ fights[f] # Gone
    /\ p \in Outcomes(fights[f])
    /\ fights' = [fights EXCEPT ![f] = Gone]
    /\ IF Here
       THEN LET c == AfterTheCall(p, event)
            IN /\ entity' = [entity EXCEPT !.state = c, !.inCombat = FALSE]
               /\ saved' = ToJson(c)
               /\ TellGains(c, event)
       ELSE UNCHANGED <<entity, saved, shown>>
    /\ UNCHANGED <<near, stock>>

Fighting(f) ==
    \E p \in Outcomes(fights[f]), event \in CombatEvents :
        \/ FightGoesOn(f, p, event)
        \/ \E loot \in Loots, x \in Rewards : Win(f, p, event, loot, x)
        \/ Lose(f, p, event)
-----------------------------------------------------------------------------
(***************************************************************************)
(* Coming and going.                                                       *)
(***************************************************************************)
\* evictPlayerForConnection: the character leaves, its fight goes on.
Leave ==
    /\ Here
    /\ entity' = Gone
    /\ saved' = ToJson(entity.state)
    /\ shown' = Gone
    /\ near' = FALSE
    /\ UNCHANGED <<fights, stock, events>>

\* LoadCharacterResponse and SessionResume: what the maxima should be is
\* computed again, and the client gets both snapshots.
Enter ==
    /\ ~Here
    /\ LET c == Recompute(FromJson(saved))
       IN /\ entity' = [level |-> c.level, inCombat |-> FALSE, state |-> c]
          /\ shown' = Snapshot(c)
    /\ UNCHANGED <<fights, near, stock, saved, events>>

\* The process of the zone ends without notice and starts again.
Restart ==
    /\ Count
    /\ entity' = Gone
    /\ fights' = [f \in Combats |-> Gone]
    /\ stock' = [i \in DOMAIN Stock |-> Stock[i].quantity]
    /\ shown' = Gone
    /\ near' = FALSE
    /\ UNCHANGED saved
-----------------------------------------------------------------------------
\* The zone comes up; the character has been played before, or not.
Init ==
    /\ entity = Gone
    /\ fights = [f \in Combats |-> Gone]
    /\ near = FALSE
    /\ stock = [i \in DOMAIN Stock |-> Stock[i].quantity]
    /\ saved \in {Empty} \cup {ToJson(h) : h \in Heroes}
    /\ shown = Gone
    /\ events = 0

Trade == \E i \in Items, q \in Quantities : HandleMerchantBuy(i, q) \/ HandleMerchantSell(i, q)

Dress == (\E i \in Items : TryEquipItem(i)) \/ (\E s \in Slots : TryUnequipItem(s))

Next == \/ Trade \/ Dress \/ Walk \/ HandleMeditate \/ HandleDebugCommand
        \/ \E f \in Combats : StartFight(f) \/ (fights[f] # Gone /\ Fighting(f))
        \/ Leave \/ Enter \/ Restart

Spec == Init /\ [][Next]_vars
-----------------------------------------------------------------------------
IsCharacterState(c) ==
    /\ c.class \in Classes
    /\ c.level \in 1 .. MaxLevel
    /\ \A n \in {c.xp, c.hp, c.maxHp, c.mana, c.maxMana} : n \in Nat
    /\ c.gold \in 0 .. GoldWidth - 1
    /\ c.weaponSkill \in Skills
    /\ DOMAIN c.skills \subseteq Skills
    /\ \A s \in DOMAIN c.skills : c.skills[s] \in Progress
    /\ c.inventory \in [Items -> 0 .. QuantityWidth - 1]
    /\ \A s \in Slots : c.equipment[s] # Nothing =>
           c.equipment[s] \in Items /\ Catalog[c.equipment[s]].slot = s

\* No handler ever forgets a skill, so no state read back is without any.
ASSUME HeroesAssumption == \A h \in Heroes : IsCharacterState(h) /\ DOMAIN h.skills # {}

\* Every copy of the character is a CharacterState, what is worn in a slot is made for
\* that slot, and hit points and mana never exceed their maxima, whatever was put on,
\* taken off, learned or brought back from a fight in between (recomputeDerivedStats,
\* applyCharacterLevelUp, syncPlayerFromParticipant).
TypeOK ==
    /\ Here => /\ entity.level \in 1 .. MaxLevel
               /\ entity.inCombat \in BOOLEAN
               /\ IsCharacterState(entity.state)
               /\ entity.state.hp <= entity.state.maxHp
               /\ entity.state.mana <= entity.state.maxMana
    /\ fights \in [Combats -> CombatParticipant \cup {Gone}]
    /\ near \in BOOLEAN
    /\ stock \in [DOMAIN Stock -> 0 .. QuantityWidth - 1]
    /\ IsCharacterState(FromJson(saved))
    /\ shown # Gone <=> Here
    /\ events \in 0 .. MaxEvents

\* A zone process that ends at any moment takes nothing with it: the character
\* read back from the database is the one that was playing (persistPlayerState,
\* toJson and fromJson).
ARestartLosesNothing == Here => Recompute(FromJson(saved)) = Recompute(entity.state)

\* The inventory and skill windows of the client show what the zone has
\* (sendInventorySnapshot, sendSkillsSnapshot).
WindowsShowTheCharacter == Here => shown = Snapshot(entity.state)

Held(c, i) == c.inventory[i] + Cardinality({s \in Slots : c.equipment[s] = i})

Worth(c) ==
    LET Value(i) == Held(c, i) * SellPrice(c, i)
    IN c.gold + MapThenSumSet(Value, Items)

\* The character as it is in the database.
Kept == FromJson(saved)

\* Trading and changing gear never make a character richer: what it has and
\* what the merchant would pay for the rest do not rise together (merchantBuyPrice,
\* merchantSellPrice).
NoMoneyPump == [][saved' # saved /\ events' = events => Worth(Kept') <= Worth(Kept)]_vars

InStock(i) == IF i \in DOMAIN Stock THEN stock[i] ELSE 0

\* Whatever a merchant hands out reaches the character that pays for it, and
\* dressing and undressing neither lose nor make an item (tryEquipItem,
\* tryUnequipItem, handleMerchantBuy).
GoodsAreAccountedFor ==
    [][LET before == Kept
           after  == Kept'
       IN  (saved' # saved \/ stock' # stock) /\ events' = events /\ after.gold <= before.gold =>
               \A i \in Items : Held(after, i) + InStock(i)' = Held(before, i) + InStock(i)]_vars

=============================================================================
