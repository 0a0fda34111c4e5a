--------------------------- MODULE CombatInstance ---------------------------
(***************************************************************************)
(* One turn-based fight: the class tbeq::combat::CombatInstance            *)
(* (shared/src/combat/CombatInstance.cpp) with the boss script it consults. *)
(*                                                                         *)
(* The module starts when every participant has been added (addPlayer,     *)
(* addMob) and rollInitiative is about to run.  Each action after that is  *)
(* one call of submitAction, up to the point where it returns: the         *)
(* resolution of the intent, the deaths it causes, the outcome check and   *)
(* the hand-over of the turn with the effects that strike the next actor.  *)
(*                                                                         *)
(* Dice are nondeterministic choices.  An amount of damage or healing is a *)
(* member of a constant set, because no property depends on the formulas   *)
(* of SkillResolver beyond "at least 1" (calculateMeleeDamage clamps it).  *)
(* Only players know spells and abilities (addMob grants none), so only    *)
(* mobs are ever stunned or poisoned.  A snare is left out: it can only be  *)
(* put on a mob and it only stops a Flee, which no mob attempts.           *)
(***************************************************************************)
EXTENDS Integers, Sequences, FiniteSets

CONSTANTS
    NumPlayers,     \* player-side participants, human or AI companion
    NumEnemies,     \* mobs
    MaxHp,          \* slot -> maximum hit points
    StartHp,        \* hit points a player may bring into the fight
    MaxMana,        \* mana of every player at the start
    ManaCost,       \* mana a spell costs
    GodMode,        \* players whose state has godMode set
    Kit,            \* player -> effects of its unlocked spells and abilities
    Scripted,       \* mobs that follow a two-phase boss script
    RagePercent,    \* hpPercentMin of the first phase of that script
    Damage,         \* damage an ordinary hit, ability or nuke may deal
    RageDamage,     \* damage a hit scaled by the second phase may deal
    DefendBonus,    \* what the Defense skill adds to the halving of a hit
    HealAmount,     \* hit points a heal may restore
    TickDamage,     \* damage a tick of poison may deal
    StunTurns,      \* stunTurns of the stunning ability
    DotTurns,       \* dotTurns of the damage-over-time spell
    MaxThreat       \* bound of this model: no taunt succeeds above it

Players == 1 .. NumPlayers
Enemies == NumPlayers + 1 .. NumPlayers + NumEnemies
Slots   == Players \cup Enemies

NumSlots == NumPlayers + NumEnemies

Spells    == {"heal", "nuke", "dot"}
Abilities == {"strike", "stun", "taunt"}

ASSUME SizesAssumption ==
    /\ NumPlayers \in Nat \ {0}
    /\ NumEnemies \in Nat \ {0}
ASSUME VitalsAssumption ==
    /\ MaxHp \in [Slots -> Nat \ {0}]
    /\ StartHp \subseteq Nat
    /\ MaxMana \in Nat
    /\ ManaCost \in Nat
    /\ GodMode \subseteq Players
    /\ Kit \in [Players -> SUBSET (Spells \cup Abilities)]
ASSUME DiceAssumption ==
    /\ Damage \subseteq Nat \ {0}
    /\ RageDamage \subseteq Nat \ {0}
    /\ DefendBonus \in Nat
    /\ HealAmount \subseteq Nat
    /\ TickDamage \subseteq Nat
    /\ StunTurns \in Nat
    /\ DotTurns \in Nat
    /\ MaxThreat \in Nat
ASSUME ScriptAssumption ==
    /\ Scripted \subseteq Enemies
    /\ RagePercent \in 0 .. 100

VARIABLES
    hp,         \* slot -> hit points
    mana,       \* player -> mana
    alive,      \* slot -> isAlive
    defending,  \* slot -> isDefending
    stun,       \* slot -> turns left of its longest stun
    dot,        \* slot -> turns left of its longest damage over time
    threat,     \* player -> threatByPlayerSlot_
    rage,       \* scripted mob -> phase its damage multiplier was taken from
    turnOrder,  \* slots in initiative order; empty before rollInitiative
    turn,       \* currentTurnIndex_, counted from 1
    outcome     \* outcome_; phase_ is Ended exactly when it is not in_progress

vitals == <<hp, alive, stun, dot>>
boss   == <<threat, rage>>
vars   == <<hp, mana, alive, defending, stun, dot, threat, rage,
            turnOrder, turn, outcome>>

Outcomes == {"in_progress", "victory", "defeat", "fled"}
Phases   == {"calm", "enraged"}

-----------------------------------------------------------------------------
(* Helpers *)

Foes(s)  == IF s \in Players THEN Enemies ELSE Players

Actor    == turnOrder[turn]

\* hp - damage, floored at zero.
Reduced(h, d) == IF h > d THEN h - d ELSE 0

AtLeastOne(d) == IF d < 1 THEN 1 ELSE d

\* All orders rollInitiative may produce: agility plus 1..100 leaves any open.
InitiativeOrders ==
    { o \in [1 .. NumSlots -> Slots] :
        \A i, j \in 1 .. NumSlots : o[i] = o[j] => i = j }

\* BossScriptCatalog::activePhase for a script of two phases.
ActivePhase(h, m) == IF (h * 100) \div m >= RagePercent THEN "calm" ELSE "enraged"

\* submitAction lowers every guard before it resolves the intent.
GuardsAfter(actor) == [s \in Slots |-> FALSE]

\* What a hit of d costs its target, given who still has a guard up.
Mitigated(d, guards, t) ==
    IF guards[t] THEN AtLeastOne((d \div 2) - DefendBonus) ELSE d

HitPointsAfter(t, d) ==
    IF t \in GodMode THEN hp ELSE [hp EXCEPT ![t] = Reduced(@, d)]

DeathsAfter(t, h) == IF h[t] = 0 THEN [alive EXCEPT ![t] = FALSE] ELSE alive

\* Slip: the search for the next one starts at the top of the order.
Distance_FromTop(i) == i

\* How many steps of advanceTurn's loop lead to position i; its own is last.
Distance(i) == IF i > turn THEN i - turn ELSE i - turn + Len(turnOrder)

\* Slip: the dead keep their turns.
NextUp_AnyBody(i, living) == \A j \in DOMAIN turnOrder : Distance(i) <= Distance(j)

NextUp(i, living) ==
    /\ living[turnOrder[i]]
    /\ \A j \in DOMAIN turnOrder :
           living[turnOrder[j]] => Distance(i) <= Distance(j)

\* Slip: a party without survivors is not noticed.
Verdict_NoDefeat(living) ==
    IF \A e \in Enemies : ~living[e] THEN "victory" ELSE "in_progress"

\* checkOutcome.
Verdict(living) ==
    IF \A p \in Players : ~living[p] THEN "defeat"
    ELSE IF \A e \in Enemies : ~living[e] THEN "victory"
    ELSE "in_progress"
-----------------------------------------------------------------------------
(* Turn hand-over *)

\* Slip: stuns do not wear off at the start of a turn.
TurnStart_StunStays(s, h, living, stuns, dots) ==
    hp' = h /\ alive' = living /\ stun' = stuns /\ dot' = dots

\* processTurnStartEffects: poison ticks, then every effect loses a turn.
\* Only a tick that empties the hit points kills; no outcome check follows.
TurnStart(s, h, living, stuns, dots) ==
    /\ stun' = [stuns EXCEPT ![s] = Reduced(@, 1)]
    /\ dot' = [dots EXCEPT ![s] = Reduced(@, 1)]
    /\ IF dots[s] = 0
       THEN /\ hp' = h
            /\ alive' = living
       ELSE \E d \in TickDamage :
            /\ hp' = IF s \in GodMode THEN h ELSE [h EXCEPT ![s] = Reduced(@, d)]
            /\ alive' = IF hp'[s] = 0 THEN [living EXCEPT ![s] = FALSE] ELSE living

\* advanceTurn: the next living participant in turn order, the current one last.
AdvanceTurn(h, living, stuns, dots) ==
    \E i \in DOMAIN turnOrder :
        /\ NextUp(i, living)
        /\ turn' = i
        /\ TurnStart(turnOrder[i], h, living, stuns, dots)

\* The end of a call that changed somebody's health: checkOutcome, and the
\* turn passes on only while the fight goes on.
Settle(h, living, stuns, dots) ==
    /\ outcome' = Verdict(living)
    /\ IF outcome' = "in_progress"
       THEN AdvanceTurn(h, living, stuns, dots)
       ELSE /\ hp' = h
            /\ alive' = living
            /\ stun' = stuns
            /\ dot' = dots
            /\ UNCHANGED turn

\* The end of a call that checked no outcome.
PassTurn ==
    /\ AdvanceTurn(hp, alive, stun, dot)
    /\ UNCHANGED outcome
-----------------------------------------------------------------------------
(* submitAction *)

\* submitAction gets past its early returns: phase, outcome, a living actor.
CanSubmit ==
    /\ turnOrder # <<>>
    /\ outcome = "in_progress"
    /\ alive[Actor]

\* ... and past the stun check, which costs the guards of nobody.
CanAct == CanSubmit /\ stun[Actor] = 0

\* A stunned actor loses the turn, whatever the intent.
LoseTurnToStun ==
    /\ CanSubmit
    /\ stun[Actor] > 0
    /\ PassTurn
    /\ UNCHANGED <<mana, defending, boss, turnOrder>>

\* An intent with an invalid target, an unknown or too expensive spell: false
\* is returned after every guard has already been lowered.
RejectIntent ==
    /\ CanAct
    /\ Actor \in Players
    /\ defending' = GuardsAfter(Actor)
    /\ UNCHANGED <<vitals, mana, boss, turnOrder, turn, outcome>>

Defend ==
    /\ CanAct
    /\ Actor \in Players \cup Scripted
    /\ defending' = [GuardsAfter(Actor) EXCEPT ![Actor] = TRUE]
    /\ PassTurn
    /\ UNCHANGED <<mana, boss, turnOrder>>

FleeFails ==
    /\ CanAct
    /\ Actor \in Players
    /\ defending' = GuardsAfter(Actor)
    /\ PassTurn
    /\ UNCHANGED <<mana, boss, turnOrder>>

FleeSucceeds ==
    /\ CanAct
    /\ Actor \in Players
    /\ defending' = GuardsAfter(Actor)
    /\ outcome' = "fled"
    /\ UNCHANGED <<vitals, mana, boss, turnOrder, turn>>

\* chooseThreatTarget in the two modes the shipped boss script uses.
HighestThreat(t) ==
    \A p \in Players : alive[p] =>
        \/ threat[p] < threat[t]
        \/ threat[p] = threat[t] /\ t <= p
LowestHp(t) ==
    \A p \in Players : alive[p] =>
        \/ hp[p] > hp[t]
        \/ hp[p] = hp[t] /\ t <= p

\* Whom the current actor may strike: a player picks any living foe, a mob
\* without a script may too (70% weakest, 30% random), a scripted mob follows
\* the phase its hit points put it in.
MeleeTarget(t) ==
    /\ t \in Foes(Actor)
    /\ alive[t]
    /\ Actor \in Scripted =>
           IF ActivePhase(hp[Actor], MaxHp[Actor]) = "calm"
           THEN LowestHp(t)
           ELSE HighestThreat(t)

MeleeMisses ==
    /\ CanAct
    /\ \E t \in Slots : MeleeTarget(t)
    /\ defending' = GuardsAfter(Actor)
    /\ PassTurn
    /\ UNCHANGED <<mana, boss, turnOrder>>

AddThreat(amount) ==
    threat' = IF Actor \in Players THEN [threat EXCEPT ![Actor] = @ + amount]
                                   ELSE threat

DamageRoll(s) ==
    IF s \in Scripted /\ rage[s] = "enraged" THEN RageDamage ELSE Damage

\* updateBossPhase, which only a melee hit calls.
RageAfter(t, h) ==
    IF t \in Scripted THEN [rage EXCEPT ![t] = ActivePhase(h[t], MaxHp[t])] ELSE rage

MeleeHits ==
    /\ CanAct
    /\ defending' = GuardsAfter(Actor)
    /\ \E t \in Slots : MeleeTarget(t) /\
       \E d \in DamageRoll(Actor) :
         LET dealt  == Mitigated(d, GuardsAfter(Actor), t)
             h      == HitPointsAfter(t, dealt)
         IN  /\ AddThreat(dealt + 10)
             /\ rage' = RageAfter(t, h)
             /\ Settle(h, DeathsAfter(t, h), stun, dot)
    /\ UNCHANGED <<mana, turnOrder>>
-----------------------------------------------------------------------------
(* Spells *)

\* Slip: the mana check is missing.
CanCast_Free(effect) == CanAct /\ Actor \in Players /\ effect \in Kit[Actor]

CanCast(effect) ==
    /\ CanAct
    /\ Actor \in Players
    /\ effect \in Kit[Actor]
    /\ mana[Actor] >= ManaCost

SpellFizzles ==
    /\ \E effect \in Spells : CanCast(effect)
    /\ defending' = GuardsAfter(Actor)
    /\ PassTurn
    /\ UNCHANGED <<mana, boss, turnOrder>>

SpendMana == mana' = [mana EXCEPT ![Actor] = @ - ManaCost]

\* Slip: the dead can be healed.
CastHeal_Dead ==
    /\ CanCast("heal")
    /\ defending' = GuardsAfter(Actor)
    /\ SpendMana
    /\ \E t \in Players, a \in HealAmount :
         LET h == [hp EXCEPT ![t] = IF @ + a > MaxHp[t] THEN MaxHp[t] ELSE @ + a]
         IN  Settle(h, alive, stun, dot)
    /\ UNCHANGED <<boss, turnOrder>>

CastHeal ==
    /\ CanCast("heal")
    /\ defending' = GuardsAfter(Actor)
    /\ SpendMana
    /\ \E t \in Players, a \in HealAmount :
         /\ alive[t]
         /\ LET h == [hp EXCEPT ![t] = IF @ + a > MaxHp[t] THEN MaxHp[t] ELSE @ + a]
            IN  Settle(h, alive, stun, dot)
    /\ UNCHANGED <<boss, turnOrder>>

SpellResisted ==
    /\ \E effect \in {"nuke", "dot"} : CanCast(effect)
    /\ defending' = GuardsAfter(Actor)
    /\ SpendMana
    /\ PassTurn
    /\ UNCHANGED <<boss, turnOrder>>

\* Damage spells raise no threat and do not move a boss to its next phase.
CastDamage(effect, turns) ==
    /\ CanCast(effect)
    /\ defending' = GuardsAfter(Actor)
    /\ SpendMana
    /\ \E t \in Enemies, d \in Damage :
         /\ alive[t]
         /\ LET h == HitPointsAfter(t, d)
            IN  Settle(h, DeathsAfter(t, h), stun,
                       [dot EXCEPT ![t] = IF @ > turns THEN @ ELSE turns])
    /\ UNCHANGED <<boss, turnOrder>>

CastNuke == CastDamage("nuke", 0)
CastDot  == CastDamage("dot", DotTurns)
-----------------------------------------------------------------------------
(* Abilities *)

CanUse(effect) ==
    /\ CanAct
    /\ Actor \in Players
    /\ effect \in Kit[Actor]

\* A strike, or a stunning strike whose maneuver roll may or may not succeed.
UseAbility(effect, turns) ==
    /\ CanUse(effect)
    /\ defending' = GuardsAfter(Actor)
    /\ \E t \in Enemies, d \in Damage :
         /\ alive[t]
         /\ AddThreat(d + 8)
         /\ LET h == HitPointsAfter(t, d)
            IN  Settle(h, DeathsAfter(t, h),
                       [stun EXCEPT ![t] = IF @ > turns THEN @ ELSE turns], dot)
    /\ UNCHANGED <<mana, rage, turnOrder>>

UseStrike   == UseAbility("strike", 0)
UseStun     == \E turns \in {0, StunTurns} : UseAbility("stun", turns)

\* applyTaunt: a hundred above the most hated player.
TauntSucceeds ==
    /\ CanUse("taunt")
    /\ defending' = GuardsAfter(Actor)
    /\ \E q \in Players :
         /\ \A p \in Players : threat[p] <= threat[q]
         /\ threat[q] + 100 <= MaxThreat
         /\ threat' = [threat EXCEPT ![Actor] = threat[q] + 100]
    /\ Settle(hp, alive, stun, dot)
    /\ UNCHANGED <<mana, rage, turnOrder>>

TauntFails ==
    /\ CanUse("taunt")
    /\ defending' = GuardsAfter(Actor)
    /\ Settle(hp, alive, stun, dot)
    /\ UNCHANGED <<mana, boss, turnOrder>>
-----------------------------------------------------------------------------
(* Specification *)

Init ==
    /\ \E start \in [Players -> StartHp] :
           /\ \A p \in Players : start[p] <= MaxHp[p]
           /\ hp = [s \in Slots |-> IF s \in Players THEN start[s] ELSE MaxHp[s]]
    /\ mana = [p \in Players |-> MaxMana]
    /\ alive = [s \in Slots |-> TRUE]
    /\ defending = [s \in Slots |-> FALSE]
    /\ stun = [s \in Slots |-> 0]
    /\ dot = [s \in Slots |-> 0]
    /\ threat = [p \in Players |-> 0]
    /\ rage = [e \in Scripted |-> ActivePhase(MaxHp[e], MaxHp[e])]
    /\ turnOrder = <<>>
    /\ turn = 1
    /\ outcome = "in_progress"

RollInitiative ==
    /\ turnOrder = <<>>
    /\ turnOrder' \in InitiativeOrders
    /\ UNCHANGED <<vitals, mana, defending, boss, turn, outcome>>

Act ==
    \/ LoseTurnToStun
    \/ Defend
    \/ FleeFails
    \/ FleeSucceeds
    \/ MeleeMisses
    \/ MeleeHits
    \/ SpellFizzles
    \/ CastHeal
    \/ SpellResisted
    \/ CastNuke
    \/ CastDot
    \/ UseStrike
    \/ UseStun
    \/ TauntSucceeds
    \/ TauntFails

Next == RollInitiative \/ RejectIntent \/ Act

Spec == Init /\ [][Next]_vars

-----------------------------------------------------------------------------
(* Properties *)

\* Every variable has its type, and nobody has more hit points than allowed.
TypeOK ==
    /\ hp \in [Slots -> Nat]
    /\ \A s \in Slots : hp[s] <= MaxHp[s]
    /\ mana \in [Players -> Nat]
    /\ alive \in [Slots -> BOOLEAN]
    /\ defending \in [Slots -> BOOLEAN]
    /\ stun \in [Slots -> Nat]
    /\ dot \in [Slots -> Nat]
    /\ threat \in [Players -> Nat]
    /\ rage \in [Scripted -> Phases]
    /\ turnOrder \in InitiativeOrders \cup {<<>>}
    /\ turn \in 1 .. NumSlots
    /\ outcome \in Outcomes

\* While the fight goes on its turn belongs to a living participant: the
\* actor submitAction waits for can answer.  (advanceTurn, submitAction)
TurnHolderAlive ==
    turnOrder # <<>> /\ outcome = "in_progress" => alive[Actor]

\* The outcome tells the truth about who is standing, and an undecided fight
\* has somebody on both sides.  (checkOutcome and every path that skips it)
OutcomeMatchesTheStanding ==
    LET somePlayer == \E p \in Players : alive[p]
        someEnemy  == \E e \in Enemies : alive[e]
    IN  /\ outcome \in {"in_progress", "fled"} => somePlayer /\ someEnemy
        /\ outcome = "victory" => somePlayer /\ ~someEnemy
        /\ outcome = "defeat" => ~somePlayer

\* Nobody is dead with hit points left: no death without lost health, and no
\* heal brings hit points back to the dead.  (applyDeath, resolveCastSpell)
DeadHaveNoHp == \A s \in Slots : ~alive[s] => hp[s] = 0

\* Only a living turn holder of an undecided fight changes anything: a decided
\* fight is over for good, and a dead holder can do nothing but hold up the
\* others.  (the early returns of submitAction)
OnlyTheLivingAct ==
    [][turnOrder # <<>> => outcome = "in_progress" /\ alive[Actor]]_vars

\* A stun is one turn shorter than it says, because the first turn of the
\* victim takes one off before isStunned looks: whoever holds the turn has at
\* most StunTurns - 1 turns of it left.  With the shipped stunTurns of 1 a bash
\* never costs a turn.  (processTurnStartEffects, submitAction)
StunLosesItsFirstTurn ==
    turnOrder # <<>> /\ outcome = "in_progress" => stun[Actor] <= Reduced(StunTurns, 1)
=============================================================================
