----------------------- MODULE CombatInstance_proofs -----------------------
(***************************************************************************)
(* Proofs about a fight of any size, with any vitals, dice and catalogue.  *)
(*                                                                         *)
(* Sound is inductive for every catalogue.  Firm, which says that the turn *)
(* holder lives and that the outcome tells the truth, needs a catalogue    *)
(* without damage over time (NoPoison): a poison tick kills the new turn   *)
(* holder after the outcome was checked.                                   *)
(***************************************************************************)
EXTENDS CombatTurns, SequenceTheorems, TLAPS

-----------------------------------------------------------------------------
(* Facts about the constants *)

LEMMA SlotFacts ==
    /\ NumSlots \in Nat \ {0}
    /\ Slots = 1 .. NumSlots
    /\ Players \cap Enemies = {}
    /\ Players \subseteq Slots
    /\ Enemies \subseteq Slots
    /\ 1 \in Players
    /\ NumSlots \in Enemies
  BY SizesAssumption DEF Slots, Players, Enemies, NumSlots

LEMMA OrderFacts ==
    ASSUME NEW o \in InitiativeOrders
    PROVE  /\ o \in [1 .. NumSlots -> Slots]
           /\ DOMAIN o = 1 .. NumSlots
           /\ Len(o) = NumSlots
           /\ o # <<>>
<1>1. o \in [1 .. NumSlots -> Slots] /\ NumSlots \in Nat \ {0}
  BY SlotFacts DEF InitiativeOrders
<1>2. o \in Seq(Slots)
  BY <1>1, SeqDef
<1>3. DOMAIN o = 1 .. NumSlots
  BY <1>1
<1>4. Len(o) = NumSlots
  BY <1>1, <1>2, <1>3, LenProperties
<1>5. o # <<>>
  BY <1>1, <1>4
<1> QED
  BY <1>1, <1>3, <1>4, <1>5

\* Reduced never goes below zero nor above where it started.
LEMMA ReducedFacts ==
    ASSUME NEW a \in Nat, NEW d \in Nat
    PROVE  Reduced(a, d) \in Nat /\ Reduced(a, d) <= a
  BY DEF Reduced

-----------------------------------------------------------------------------
(* What a fight keeps true of the participants' health *)

Healthy(h, living, stuns, dots) ==
    /\ h \in [Slots -> Nat]
    /\ \A s \in Slots : h[s] <= MaxHp[s]
    /\ living \in [Slots -> BOOLEAN]
    /\ stuns \in [Slots -> Nat]
    /\ \A s \in Slots : stuns[s] <= StunTurns
    /\ dots \in [Slots -> Nat]
    /\ \A s \in Slots : ~living[s] => h[s] = 0

\* Before initiative is rolled nothing has happened to anybody.
Fresh ==
    turnOrder = <<>> =>
        /\ outcome = "in_progress"
        /\ \A s \in Slots : alive[s] /\ stun[s] = 0

Sound ==
    /\ TypeOK
    /\ Healthy(hp, alive, stun, dot)
    /\ StunLosesItsFirstTurn
    /\ Fresh

\* A hit on anybody leaves the health of all in order.
LEMMA HitKeepsHealth ==
    ASSUME Healthy(hp, alive, stun, dot), NEW t \in Slots, NEW d \in Nat
    PROVE  Healthy(HitPointsAfter(t, d), DeathsAfter(t, HitPointsAfter(t, d)), stun, dot)
<1> DEFINE h == HitPointsAfter(t, d)
<1>1. h \in [Slots -> Nat] /\ \A s \in Slots : h[s] <= hp[s]
  BY DEF HitPointsAfter, Healthy, Reduced
<1>2. \A s \in Slots : h[s] <= MaxHp[s]
  BY <1>1, VitalsAssumption DEF Healthy
<1>3. DeathsAfter(t, h) \in [Slots -> BOOLEAN]
  BY DEF DeathsAfter, Healthy
<1>4. \A s \in Slots : ~DeathsAfter(t, h)[s] => h[s] = 0
  BY <1>1 DEF DeathsAfter, Healthy
<1> QED
  BY <1>1, <1>2, <1>3, <1>4 DEF Healthy

\* The turn start leaves it in order, and takes a turn off the actor's stun.
LEMMA TurnStartKeepsHealth ==
    ASSUME NEW s \in Slots, NEW h, NEW living, NEW stuns, NEW dots,
           Healthy(h, living, stuns, dots),
           TurnStart(s, h, living, stuns, dots)
    PROVE  /\ Healthy(hp', alive', stun', dot')
           /\ stun'[s] <= Reduced(StunTurns, 1)
           /\ dots[s] = 0 => hp' = h /\ alive' = living
           /\ \A q \in Slots : dots[q] = 0 => dot'[q] = 0
<1>1. /\ stun' \in [Slots -> Nat]
      /\ \A q \in Slots : stun'[q] <= StunTurns
      /\ stun'[s] <= Reduced(StunTurns, 1)
  BY DiceAssumption DEF TurnStart, Healthy, Reduced
<1>2. dot' \in [Slots -> Nat] /\ \A q \in Slots : dots[q] = 0 => dot'[q] = 0
  BY DEF TurnStart, Healthy, Reduced
<1>3. CASE dots[s] = 0
  BY <1>1, <1>2, <1>3 DEF TurnStart, Healthy
<1>4. CASE dots[s] # 0
  <2>1. PICK d \in TickDamage :
          /\ hp' = IF s \in GodMode THEN h ELSE [h EXCEPT ![s] = Reduced(@, d)]
          /\ alive' = IF hp'[s] = 0 THEN [living EXCEPT ![s] = FALSE] ELSE living
    BY <1>4 DEF TurnStart
  <2>2. d \in Nat
    BY DiceAssumption
  <2>3. hp' \in [Slots -> Nat] /\ \A q \in Slots : hp'[q] <= h[q]
    BY <2>1, <2>2 DEF Healthy, Reduced
  <2>4. \A q \in Slots : hp'[q] <= MaxHp[q]
    BY <2>3, VitalsAssumption DEF Healthy
  <2>5. alive' \in [Slots -> BOOLEAN] /\ \A q \in Slots : ~alive'[q] => hp'[q] = 0
    BY <2>1, <2>3 DEF Healthy
  <2> QED
    BY <1>1, <1>2, <1>4, <2>3, <2>4, <2>5 DEF Healthy
<1> QED
  BY <1>3, <1>4

\* advanceTurn: the turn goes to somebody who was alive when it was handed on.
LEMMA AdvanceKeepsHealth ==
    ASSUME NEW h, NEW living, NEW stuns, NEW dots,
           Healthy(h, living, stuns, dots),
           turnOrder \in InitiativeOrders, turn \in 1 .. NumSlots,
           AdvanceTurn(h, living, stuns, dots)
    PROVE  /\ Healthy(hp', alive', stun', dot')
           /\ turn' \in 1 .. NumSlots
           /\ NextUp(turn', living)
           /\ turnOrder[turn'] \in Slots
           /\ living[turnOrder[turn']]
           /\ stun'[turnOrder[turn']] <= Reduced(StunTurns, 1)
           /\ dots[turnOrder[turn']] = 0 => hp' = h /\ alive' = living
           /\ \A q \in Slots : dots[q] = 0 => dot'[q] = 0
<1>1. PICK i \in DOMAIN turnOrder :
          /\ NextUp(i, living)
          /\ turn' = i
          /\ TurnStart(turnOrder[i], h, living, stuns, dots)
  BY DEF AdvanceTurn
<1>2. i \in 1 .. NumSlots /\ turnOrder[i] \in Slots
  BY <1>1, OrderFacts
<1>3. living[turnOrder[i]]
  BY <1>1 DEF NextUp
<1> QED
  BY <1>1, <1>2, <1>3, TurnStartKeepsHealth

LEMMA SettleKeepsHealth ==
    ASSUME NEW h, NEW living, NEW stuns, NEW dots,
           Healthy(h, living, stuns, dots),
           turnOrder \in InitiativeOrders, turn \in 1 .. NumSlots,
           Settle(h, living, stuns, dots)
    PROVE  /\ Healthy(hp', alive', stun', dot')
           /\ turn' \in 1 .. NumSlots
           /\ outcome' = Verdict(living)
           /\ outcome' \in Outcomes
           /\ outcome' = "in_progress" =>
                /\ NextUp(turn', living)
                /\ turnOrder[turn'] \in Slots
                /\ living[turnOrder[turn']]
                /\ stun'[turnOrder[turn']] <= Reduced(StunTurns, 1)
                /\ dots[turnOrder[turn']] = 0 => hp' = h /\ alive' = living
           /\ outcome' # "in_progress" => hp' = h /\ alive' = living /\ turn' = turn
           /\ \A q \in Slots : dots[q] = 0 => dot'[q] = 0
<1>1. outcome' = Verdict(living) /\ outcome' \in Outcomes
  BY DEF Settle, Verdict, Outcomes
<1>2. CASE outcome' = "in_progress"
  <2>1. AdvanceTurn(h, living, stuns, dots)
    BY <1>2 DEF Settle
  <2> QED
    BY <1>1, <1>2, <2>1, AdvanceKeepsHealth
<1>3. CASE outcome' # "in_progress"
  BY <1>1, <1>3 DEF Settle
<1> QED
  BY <1>2, <1>3
-----------------------------------------------------------------------------
(* Sound is inductive *)

LEMMA InitSound == Init => Sound
<1> SUFFICES ASSUME Init PROVE Sound
  OBVIOUS
<1>1. PICK start \in [Players -> StartHp] :
          /\ \A p \in Players : start[p] <= MaxHp[p]
          /\ hp = [s \in Slots |-> IF s \in Players THEN start[s] ELSE MaxHp[s]]
  BY DEF Init
<1>2. hp \in [Slots -> Nat] /\ \A s \in Slots : hp[s] <= MaxHp[s]
  <2>1. ASSUME NEW s \in Slots PROVE hp[s] \in Nat /\ hp[s] <= MaxHp[s]
    <3>1. MaxHp[s] \in Nat
      BY VitalsAssumption
    <3>2. CASE s \in Players
      BY <1>1, <3>2, VitalsAssumption
    <3>3. CASE s \notin Players
      BY <1>1, <3>1, <3>3
    <3> QED
      BY <3>2, <3>3
  <2>2. hp = [s \in Slots |-> hp[s]]
    BY <1>1
  <2> QED
    BY <2>1, <2>2
<1>3. rage \in [Scripted -> Phases]
  BY DEF Init, ActivePhase, Phases
<1>4. turn \in 1 .. NumSlots
  BY SlotFacts DEF Init
<1>5. TypeOK
  BY <1>2, <1>3, <1>4, VitalsAssumption DEF Init, TypeOK, Outcomes
<1>6. Healthy(hp, alive, stun, dot)
  BY <1>2, DiceAssumption DEF Init, Healthy
<1>7. StunLosesItsFirstTurn
  BY DEF Init, StunLosesItsFirstTurn
<1>8. Fresh
  BY DEF Init, Fresh
<1> QED
  BY <1>5, <1>6, <1>7, <1>8 DEF Sound

\* The parts of the state an action of the turn holder may rely on.
LEMMA ActorFacts ==
    ASSUME Sound, CanSubmit
    PROVE  /\ turnOrder \in InitiativeOrders
           /\ turn \in 1 .. NumSlots
           /\ Actor \in Slots
           /\ alive[Actor]
           /\ outcome = "in_progress"
<1>1. turnOrder \in InitiativeOrders /\ turn \in 1 .. NumSlots
  BY DEF Sound, TypeOK, CanSubmit
<1> QED
  BY <1>1, OrderFacts DEF Actor, CanSubmit

LEMMA GuardsFacts ==
    ASSUME NEW s \in Slots
    PROVE  /\ GuardsAfter(s) \in [Slots -> BOOLEAN]
           /\ [GuardsAfter(s) EXCEPT ![s] = TRUE] \in [Slots -> BOOLEAN]
  BY DEF GuardsAfter

\* A hit costs its target a natural number, guard or no guard.
LEMMA DamageFacts ==
    ASSUME NEW s \in Slots, NEW d \in DamageRoll(s), NEW t \in Slots
    PROVE  d \in Nat /\ Mitigated(d, GuardsAfter(s), t) = d
  BY DiceAssumption DEF DamageRoll, Mitigated, GuardsAfter

\* What all calls that only hand over the turn have in common.
LEMMA PassTurnSound ==
    ASSUME Sound, CanSubmit, PassTurn,
           mana' \in [Players -> Nat],
           threat' = threat, rage' = rage, turnOrder' = turnOrder,
           defending' \in [Slots -> BOOLEAN]
    PROVE  Sound'
<1>1. /\ Healthy(hp', alive', stun', dot')
      /\ turn' \in 1 .. NumSlots
      /\ stun'[turnOrder[turn']] <= Reduced(StunTurns, 1)
      /\ outcome' = outcome
  BY ActorFacts, AdvanceKeepsHealth DEF PassTurn, Sound
<1>2. TypeOK'
  BY <1>1 DEF Sound, TypeOK, Healthy
<1>3. StunLosesItsFirstTurn'
  BY <1>1 DEF StunLosesItsFirstTurn, Actor
<1>4. Fresh'
  BY DEF Fresh, CanSubmit
<1> QED
  BY <1>1, <1>2, <1>3, <1>4 DEF Sound

\* What all calls that end in an outcome check have in common.
LEMMA SettleSound ==
    ASSUME Sound, CanSubmit,
           NEW h, NEW living, NEW stuns, NEW dots,
           Healthy(h, living, stuns, dots),
           Settle(h, living, stuns, dots),
           mana' \in [Players -> Nat], threat' \in [Players -> Nat],
           rage' \in [Scripted -> Phases], turnOrder' = turnOrder,
           defending' \in [Slots -> BOOLEAN]
    PROVE  Sound'
<1>1. /\ Healthy(hp', alive', stun', dot')
      /\ turn' \in 1 .. NumSlots
      /\ outcome' \in Outcomes
      /\ outcome' = "in_progress" => stun'[turnOrder[turn']] <= Reduced(StunTurns, 1)
  BY ActorFacts, SettleKeepsHealth
<1>2. TypeOK'
  BY <1>1 DEF Sound, TypeOK, Healthy
<1>3. StunLosesItsFirstTurn'
  BY <1>1 DEF StunLosesItsFirstTurn, Actor
<1>4. Fresh'
  BY DEF Fresh, CanSubmit
<1> QED
  BY <1>1, <1>2, <1>3, <1>4 DEF Sound

LEMMA NextSound == Sound /\ [Next]_vars => Sound'
<1> SUFFICES ASSUME Sound, [Next]_vars PROVE Sound'
  OBVIOUS
<1>A. /\ mana \in [Players -> Nat]
      /\ threat \in [Players -> Nat]
      /\ rage \in [Scripted -> Phases]
      /\ defending \in [Slots -> BOOLEAN]
  BY DEF Sound, TypeOK
<1>1. CASE RollInitiative
  <2>1. TypeOK' /\ Healthy(hp, alive, stun, dot)'
    BY <1>1 DEF RollInitiative, Sound, TypeOK, Healthy, vitals, boss
  <2>2. turnOrder' \in InitiativeOrders /\ turn' \in 1 .. NumSlots
    BY <1>1, <2>1 DEF RollInitiative, TypeOK
  <2>3. turnOrder' # <<>> /\ Actor' \in Slots
    BY <2>2, OrderFacts DEF Actor
  <2>4. \A s \in Slots : stun'[s] = 0
    BY <1>1 DEF RollInitiative, Sound, Fresh, vitals
  <2>5. Reduced(StunTurns, 1) >= 0
    BY DiceAssumption DEF Reduced
  <2>6. StunLosesItsFirstTurn' /\ Fresh'
    BY <2>3, <2>4, <2>5 DEF StunLosesItsFirstTurn, Fresh
  <2> QED
    BY <2>1, <2>6 DEF Sound
<1>2. CASE RejectIntent
  <2>1. defending' \in [Slots -> BOOLEAN]
    BY <1>2, ActorFacts, GuardsFacts DEF RejectIntent, CanAct
  <2> QED
    BY <1>2, <2>1 DEF RejectIntent, Sound, TypeOK, Healthy, Fresh,
                      StunLosesItsFirstTurn, Actor, vitals, boss
<1>3. CASE LoseTurnToStun
  BY <1>3, <1>A, PassTurnSound DEF LoseTurnToStun, boss
<1>4. CASE Defend
  BY <1>4, <1>A, PassTurnSound, ActorFacts, GuardsFacts DEF Defend, CanAct, boss
<1>5. CASE FleeFails
  BY <1>5, <1>A, PassTurnSound, ActorFacts, GuardsFacts DEF FleeFails, CanAct, boss
<1>6. CASE FleeSucceeds
  <2>1. defending' \in [Slots -> BOOLEAN]
    BY <1>6, ActorFacts, GuardsFacts DEF FleeSucceeds, CanAct
  <2>2. TypeOK' /\ Healthy(hp, alive, stun, dot)'
    BY <1>6, <2>1 DEF FleeSucceeds, Sound, TypeOK, Healthy, Outcomes, vitals, boss
  <2>3. StunLosesItsFirstTurn' /\ Fresh'
    BY <1>6 DEF FleeSucceeds, CanAct, CanSubmit, StunLosesItsFirstTurn, Fresh
  <2> QED
    BY <2>2, <2>3 DEF Sound
<1>7. CASE MeleeMisses
  BY <1>7, <1>A, PassTurnSound, ActorFacts, GuardsFacts DEF MeleeMisses, CanAct, boss
<1>8. CASE MeleeHits
  <2>1. PICK t \in Slots, d \in DamageRoll(Actor) :
          LET dealt == Mitigated(d, GuardsAfter(Actor), t)
              h     == HitPointsAfter(t, dealt)
          IN  /\ AddThreat(dealt + 10)
              /\ rage' = RageAfter(t, h)
              /\ Settle(h, DeathsAfter(t, h), stun, dot)
    BY <1>8 DEF MeleeHits
  <2>2. CanSubmit /\ Actor \in Slots
    BY <1>8, ActorFacts DEF MeleeHits, CanAct
  <2>3. d \in Nat /\ Mitigated(d, GuardsAfter(Actor), t) = d
    BY <2>2, DamageFacts
  <2> DEFINE h == HitPointsAfter(t, d)
  <2>4. /\ AddThreat(d + 10)
        /\ rage' = RageAfter(t, h)
        /\ Settle(h, DeathsAfter(t, h), stun, dot)
    BY <2>1, <2>3
  <2>5. threat' \in [Players -> Nat]
    BY <1>A, <2>3, <2>4 DEF AddThreat
  <2>6. rage' \in [Scripted -> Phases]
    BY <1>A, <2>4 DEF RageAfter, ActivePhase, Phases
  <2>7. Healthy(h, DeathsAfter(t, h), stun, dot)
    BY <2>3, HitKeepsHealth DEF Sound
  <2>8. /\ mana' \in [Players -> Nat]
        /\ turnOrder' = turnOrder
        /\ defending' \in [Slots -> BOOLEAN]
    BY <1>8, <1>A, <2>2, GuardsFacts DEF MeleeHits
  <2> HIDE DEF h
  <2> QED
    BY <2>2, <2>4, <2>5, <2>6, <2>7, <2>8, SettleSound
<1>9. CASE SpellFizzles
  <2>1. CanAct
    BY <1>9 DEF SpellFizzles, CanCast
  <2> QED
    BY <1>9, <1>A, <2>1, PassTurnSound, ActorFacts, GuardsFacts DEF SpellFizzles, CanAct, boss
<1>10. ASSUME NEW effect, CanCast(effect), SpendMana
       PROVE  mana' \in [Players -> Nat]
  BY <1>A, <1>10, VitalsAssumption DEF CanCast, SpendMana
<1>11. CASE CastHeal
  <2>1. PICK t \in Players, a \in HealAmount :
          /\ alive[t]
          /\ LET h == [hp EXCEPT ![t] = IF @ + a > MaxHp[t] THEN MaxHp[t] ELSE @ + a]
             IN  Settle(h, alive, stun, dot)
    BY <1>11 DEF CastHeal
  <2> DEFINE h == [hp EXCEPT ![t] = IF @ + a > MaxHp[t] THEN MaxHp[t] ELSE @ + a]
  <2>2. Settle(h, alive, stun, dot)
    BY <2>1
  <2>3. t \in Slots /\ a \in Nat /\ MaxHp \in [Slots -> Nat]
    BY SlotFacts, DiceAssumption, VitalsAssumption
  <2>4. Healthy(h, alive, stun, dot)
    BY <2>1, <2>3 DEF Sound, Healthy
  <2>5. CanSubmit /\ Actor \in Slots
    BY <1>11, ActorFacts DEF CastHeal, CanCast, CanAct
  <2>6. mana' \in [Players -> Nat]
    BY <1>10, <1>11 DEF CastHeal
  <2>7. /\ threat' = threat /\ rage' = rage /\ turnOrder' = turnOrder
        /\ defending' \in [Slots -> BOOLEAN]
    BY <1>11, <2>5, GuardsFacts DEF CastHeal, boss
  <2> HIDE DEF h
  <2> QED
    BY <1>A, <2>2, <2>4, <2>5, <2>6, <2>7, SettleSound
<1>12. CASE SpellResisted
  <2>1. PICK effect \in {"nuke", "dot"} : CanCast(effect)
    BY <1>12 DEF SpellResisted
  <2>2. CanAct /\ CanSubmit /\ Actor \in Slots
    BY <2>1, ActorFacts DEF CanCast, CanAct
  <2>3. mana' \in [Players -> Nat]
    BY <1>10, <1>12, <2>1 DEF SpellResisted
  <2>4. Sound /\ PassTurn
    BY <1>12 DEF SpellResisted
  <2>5. /\ threat' = threat /\ rage' = rage /\ turnOrder' = turnOrder
        /\ defending' \in [Slots -> BOOLEAN]
    BY <1>12, <2>2, GuardsFacts DEF SpellResisted, boss
  <2> QED
    BY <2>2, <2>3, <2>4, <2>5, PassTurnSound
<1>13. ASSUME NEW effect, NEW turns \in Nat, CastDamage(effect, turns)
       PROVE  Sound'
  <2>1. PICK t \in Enemies, d \in Damage :
          /\ alive[t]
          /\ LET h == HitPointsAfter(t, d)
             IN  Settle(h, DeathsAfter(t, h), stun,
                        [dot EXCEPT ![t] = IF @ > turns THEN @ ELSE turns])
    BY <1>13 DEF CastDamage
  <2> DEFINE h == HitPointsAfter(t, d)
             dots == [dot EXCEPT ![t] = IF @ > turns THEN @ ELSE turns]
  <2>2. Settle(h, DeathsAfter(t, h), stun, dots)
    BY <2>1
  <2>3. t \in Slots /\ d \in Nat
    BY SlotFacts, DiceAssumption
  <2>4. dots \in [Slots -> Nat]
    BY DEF Sound, Healthy
  <2>5. Healthy(h, DeathsAfter(t, h), stun, dot)
    BY <2>3, HitKeepsHealth DEF Sound
  <2> HIDE DEF h, dots
  <2>6. Healthy(h, DeathsAfter(t, h), stun, dots)
    BY <2>4, <2>5 DEF Healthy
  <2>7. CanSubmit /\ Actor \in Slots
    BY <1>13, ActorFacts DEF CastDamage, CanCast, CanAct
  <2>8. mana' \in [Players -> Nat]
    BY <1>10, <1>13 DEF CastDamage
  <2>9. /\ threat' = threat /\ rage' = rage /\ turnOrder' = turnOrder
        /\ defending' \in [Slots -> BOOLEAN]
    BY <1>13, <2>7, GuardsFacts DEF CastDamage, boss
  <2> QED
    BY <1>A, <2>2, <2>6, <2>7, <2>8, <2>9, SettleSound
<1>14. CASE CastNuke
  BY <1>13, <1>14 DEF CastNuke
<1>15. CASE CastDot
  BY <1>13, <1>15, DiceAssumption DEF CastDot
<1>16. ASSUME NEW effect, NEW turns \in 0 .. StunTurns, UseAbility(effect, turns)
       PROVE  Sound'
  <2>1. PICK t \in Enemies, d \in Damage :
          /\ alive[t]
          /\ AddThreat(d + 8)
          /\ LET h == HitPointsAfter(t, d)
             IN  Settle(h, DeathsAfter(t, h),
                        [stun EXCEPT ![t] = IF @ > turns THEN @ ELSE turns], dot)
    BY <1>16 DEF UseAbility
  <2> DEFINE h == HitPointsAfter(t, d)
             stuns == [stun EXCEPT ![t] = IF @ > turns THEN @ ELSE turns]
  <2>2. Settle(h, DeathsAfter(t, h), stuns, dot)
    BY <2>1
  <2>3. t \in Slots /\ d \in Nat
    BY SlotFacts, DiceAssumption
  <2>0. turns \in Nat /\ turns <= StunTurns
    BY DiceAssumption
  <2>4. stuns \in [Slots -> Nat] /\ \A s \in Slots : stuns[s] <= StunTurns
    BY <2>0, <2>3 DEF Sound, Healthy
  <2>5. Healthy(h, DeathsAfter(t, h), stun, dot)
    BY <2>3, HitKeepsHealth DEF Sound
  <2> HIDE DEF h, stuns
  <2>6. Healthy(h, DeathsAfter(t, h), stuns, dot)
    BY <2>4, <2>5 DEF Healthy
  <2>7. CanSubmit /\ Actor \in Slots
    BY <1>16, ActorFacts DEF UseAbility, CanUse, CanAct
  <2>8. threat' \in [Players -> Nat]
    BY <1>A, <2>1, <2>3 DEF AddThreat
  <2>9. /\ mana' = mana /\ rage' = rage /\ turnOrder' = turnOrder
        /\ defending' \in [Slots -> BOOLEAN]
    BY <1>16, <2>7, GuardsFacts DEF UseAbility
  <2> QED
    BY <1>A, <2>2, <2>6, <2>7, <2>8, <2>9, SettleSound
<1>17. CASE UseStrike
  BY <1>16, <1>17, DiceAssumption DEF UseStrike
<1>18. CASE UseStun
  BY <1>16, <1>18, DiceAssumption DEF UseStun
<1>19. CASE TauntSucceeds
  <2>1. PICK q \in Players : threat' = [threat EXCEPT ![Actor] = threat[q] + 100]
    BY <1>19 DEF TauntSucceeds
  <2>0. threat[q] + 100 \in Nat
    BY <1>A, <2>1
  <2>2. threat' \in [Players -> Nat]
    BY <1>A, <2>0, <2>1
  <2>3. CanSubmit /\ Actor \in Slots
    BY <1>19, ActorFacts DEF TauntSucceeds, CanUse, CanAct
  <2>4. /\ mana' = mana /\ rage' = rage /\ turnOrder' = turnOrder
        /\ defending' \in [Slots -> BOOLEAN]
        /\ Settle(hp, alive, stun, dot)
    BY <1>19, <2>3, GuardsFacts DEF TauntSucceeds
  <2>5. Healthy(hp, alive, stun, dot)
    BY DEF Sound
  <2> QED
    BY <1>A, <2>2, <2>3, <2>4, <2>5, SettleSound
<1>20. CASE TauntFails
  <2>1. CanSubmit /\ Actor \in Slots
    BY <1>20, ActorFacts DEF TauntFails, CanUse, CanAct
  <2>2. /\ mana' = mana /\ threat' = threat /\ rage' = rage /\ turnOrder' = turnOrder
        /\ defending' \in [Slots -> BOOLEAN]
        /\ Settle(hp, alive, stun, dot)
    BY <1>20, <2>1, GuardsFacts DEF TauntFails, boss
  <2>3. Healthy(hp, alive, stun, dot)
    BY DEF Sound
  <2> QED
    BY <1>A, <2>1, <2>2, <2>3, SettleSound
<1>21. CASE UNCHANGED vars
  BY <1>21 DEF vars, Sound, TypeOK, Healthy, StunLosesItsFirstTurn, Fresh, Actor
<1> QED
  BY <1>1, <1>2, <1>3, <1>4, <1>5, <1>6, <1>7, <1>8, <1>9, <1>11, <1>12, <1>14,
     <1>15, <1>17, <1>18, <1>19, <1>20, <1>21 DEF Next, Act
-----------------------------------------------------------------------------
(* Theorems for every catalogue *)

LEMMA AlwaysSound == Spec => []Sound
<1>1. Init => Sound
  BY InitSound
<1>2. Sound /\ [Next]_vars => Sound'
  BY NextSound
<1> QED
  BY <1>1, <1>2, PTL DEF Spec

\* Every variable keeps its type whatever is submitted: nobody's hit points or
\* mana wrap below zero, nobody is healed above the maximum, and the turn
\* index stays inside the turn order.
THEOREM TypeCorrect == Spec => []TypeOK
<1>1. Sound => TypeOK
  BY DEF Sound
<1> QED
  BY <1>1, AlwaysSound, PTL

\* Whoever applyDeath struck down has no hit points left, and gets none back.
THEOREM TheDeadHaveNoHp == Spec => []DeadHaveNoHp
<1>1. Sound => DeadHaveNoHp
  BY DEF Sound, Healthy, DeadHaveNoHp
<1> QED
  BY <1>1, AlwaysSound, PTL

\* A stun of n turns costs its victim at most n - 1 turns: a bash with the
\* shipped stunTurns of 1 costs none.
THEOREM StunIsOneTurnShort == Spec => []StunLosesItsFirstTurn
<1>1. Sound => StunLosesItsFirstTurn
  BY DEF Sound
<1> QED
  BY <1>1, AlwaysSound, PTL

\* No step changes a decided fight or one whose turn holder is dead.
THEOREM OnlyTheLivingChangeAFight == Spec => OnlyTheLivingAct
<1>1. [Next]_vars => [turnOrder # <<>> => outcome = "in_progress" /\ alive[Actor]]_vars
  BY DEF Next, Act, RollInitiative, RejectIntent, LoseTurnToStun, Defend, FleeFails,
         FleeSucceeds, MeleeMisses, MeleeHits, SpellFizzles, CastHeal, SpellResisted,
         CastNuke, CastDot, CastDamage, UseStrike, UseStun, UseAbility, TauntSucceeds,
         TauntFails, CanCast, CanUse, CanAct, CanSubmit
<1> QED
  BY <1>1, PTL DEF Spec, OnlyTheLivingAct

-----------------------------------------------------------------------------
(* Catalogues without damage over time *)

NoPoison == \A p \in Players : "dot" \notin Kit[p]

Unpoisoned == \A s \in Slots : dot[s] = 0

Firm ==
    /\ Sound
    /\ Unpoisoned
    /\ TurnHolderAlive
    /\ OutcomeMatchesTheStanding

LEMMA VerdictFacts ==
    ASSUME NEW living \in [Slots -> BOOLEAN]
    PROVE  /\ Verdict(living) = "in_progress" =>
                (\E p \in Players : living[p]) /\ (\E e \in Enemies : living[e])
           /\ Verdict(living) = "victory" =>
                (\E p \in Players : living[p]) /\ ~(\E e \in Enemies : living[e])
           /\ Verdict(living) = "defeat" => ~(\E p \in Players : living[p])
           /\ Verdict(living) \in {"in_progress", "victory", "defeat"}
  BY DEF Verdict

LEMMA PassTurnFirm ==
    ASSUME Firm, CanSubmit, PassTurn, turnOrder' = turnOrder
    PROVE  Unpoisoned' /\ TurnHolderAlive' /\ OutcomeMatchesTheStanding' /\ alive' = alive
<1>1. Sound /\ Healthy(hp, alive, stun, dot)
  BY DEF Firm, Sound
<1>2. /\ turnOrder[turn'] \in Slots
      /\ alive[turnOrder[turn']]
      /\ dot[turnOrder[turn']] = 0 => alive' = alive
      /\ \A q \in Slots : dot[q] = 0 => dot'[q] = 0
  BY <1>1, ActorFacts, AdvanceKeepsHealth DEF PassTurn
<1>3. alive' = alive /\ Unpoisoned'
  BY <1>2 DEF Firm, Unpoisoned
<1>4. TurnHolderAlive'
  BY <1>2, <1>3 DEF TurnHolderAlive, Actor
<1>5. OutcomeMatchesTheStanding'
  BY <1>3 DEF Firm, OutcomeMatchesTheStanding, PassTurn
<1> QED
  BY <1>3, <1>4, <1>5

LEMMA SettleFirm ==
    ASSUME Firm, CanSubmit, turnOrder' = turnOrder,
           NEW h, NEW living, NEW stuns,
           Healthy(h, living, stuns, dot),
           Settle(h, living, stuns, dot)
    PROVE  Unpoisoned' /\ TurnHolderAlive' /\ OutcomeMatchesTheStanding' /\ alive' = living
<1>1. Sound
  BY DEF Firm
<1>2. /\ outcome' = Verdict(living)
      /\ outcome' = "in_progress" =>
            /\ turnOrder[turn'] \in Slots
            /\ living[turnOrder[turn']]
            /\ dot[turnOrder[turn']] = 0 => alive' = living
      /\ outcome' # "in_progress" => alive' = living
      /\ \A q \in Slots : dot[q] = 0 => dot'[q] = 0
  BY <1>1, ActorFacts, SettleKeepsHealth
<1>3. alive' = living /\ Unpoisoned'
  BY <1>2 DEF Firm, Unpoisoned
<1>4. TurnHolderAlive'
  BY <1>2, <1>3 DEF TurnHolderAlive, Actor
<1>5. living \in [Slots -> BOOLEAN]
  BY DEF Healthy
<1>6. OutcomeMatchesTheStanding'
  BY <1>2, <1>3, <1>5, VerdictFacts DEF OutcomeMatchesTheStanding
<1> QED
  BY <1>3, <1>4, <1>6

\* Who may fall in one call: nobody, or one living opponent of the actor.
Felled(living) ==
    \/ living = alive
    \/ \E t \in Foes(Actor) :
          alive[t] /\ living = [alive EXCEPT ![t] = FALSE]

LEMMA HitFells ==
    ASSUME NEW t \in Foes(Actor), alive[t], NEW h
    PROVE  Felled(DeathsAfter(t, h))
  BY DEF Felled, DeathsAfter

\* Every submitted action ends in one of three ways.
LEMMA ActShape ==
    ASSUME Sound, NoPoison, Act
    PROVE  /\ CanSubmit
           /\ turnOrder' = turnOrder
           /\ \/ PassTurn
              \/ FleeSucceeds
              \/ \E h, living, stuns :
                    /\ Felled(living)
                    /\ Healthy(h, living, stuns, dot)
                    /\ Settle(h, living, stuns, dot)
<1> DEFINE Ends == \E h, living, stuns :
                    /\ Felled(living)
                    /\ Healthy(h, living, stuns, dot)
                    /\ Settle(h, living, stuns, dot)
<1>0. Healthy(hp, alive, stun, dot) /\ Felled(alive)
  BY DEF Sound, Felled
<1>1. CASE \/ LoseTurnToStun \/ Defend \/ FleeFails \/ MeleeMisses
           \/ SpellFizzles \/ SpellResisted
  BY <1>1 DEF LoseTurnToStun, Defend, FleeFails, MeleeMisses, SpellFizzles,
              SpellResisted, CanCast, CanAct
<1>2. CASE FleeSucceeds
  BY <1>2 DEF FleeSucceeds, CanAct
<1>3. CASE MeleeHits
  <2>1. PICK t \in Slots, d \in DamageRoll(Actor) :
          /\ MeleeTarget(t)
          /\ LET dealt == Mitigated(d, GuardsAfter(Actor), t)
                 h     == HitPointsAfter(t, dealt)
             IN  Settle(h, DeathsAfter(t, h), stun, dot)
    BY <1>3 DEF MeleeHits
  <2>2. CanSubmit /\ turnOrder' = turnOrder /\ Actor \in Slots
    BY <1>3, ActorFacts DEF MeleeHits, CanAct
  <2>3. d \in Nat /\ Mitigated(d, GuardsAfter(Actor), t) = d
    BY <2>2, DamageFacts
  <2> DEFINE h == HitPointsAfter(t, d)
  <2>4. Settle(h, DeathsAfter(t, h), stun, dot)
    BY <2>1, <2>3
  <2>5. Healthy(h, DeathsAfter(t, h), stun, dot)
    BY <1>0, <2>3, HitKeepsHealth
  <2>6. Felled(DeathsAfter(t, h))
    BY <2>1, HitFells DEF MeleeTarget
  <2> HIDE DEF h
  <2>7. Ends
    BY <2>4, <2>5, <2>6
  <2> QED
    BY <2>2, <2>7
<1>4. CASE CastHeal
  <2>1. PICK t \in Players, a \in HealAmount :
          /\ alive[t]
          /\ LET h == [hp EXCEPT ![t] = IF @ + a > MaxHp[t] THEN MaxHp[t] ELSE @ + a]
             IN  Settle(h, alive, stun, dot)
    BY <1>4 DEF CastHeal
  <2> DEFINE h == [hp EXCEPT ![t] = IF @ + a > MaxHp[t] THEN MaxHp[t] ELSE @ + a]
  <2>2. Settle(h, alive, stun, dot)
    BY <2>1
  <2>3. t \in Slots /\ a \in Nat /\ MaxHp \in [Slots -> Nat]
    BY SlotFacts, DiceAssumption, VitalsAssumption
  <2>4. Healthy(h, alive, stun, dot)
    BY <1>0, <2>1, <2>3 DEF Healthy
  <2> HIDE DEF h
  <2>5. Ends
    BY <1>0, <2>2, <2>4
  <2> QED
    BY <1>4, <2>5 DEF CastHeal, CanCast, CanAct
<1>5. CASE CastNuke
  <2>1. PICK t \in Enemies, d \in Damage :
          /\ alive[t]
          /\ LET h == HitPointsAfter(t, d)
             IN  Settle(h, DeathsAfter(t, h), stun,
                        [dot EXCEPT ![t] = IF @ > 0 THEN @ ELSE 0])
    BY <1>5 DEF CastNuke, CastDamage
  <2>2. t \in Slots /\ d \in Nat
    BY SlotFacts, DiceAssumption
  <2>3. [dot EXCEPT ![t] = IF @ > 0 THEN @ ELSE 0] = dot
    BY <1>0, <2>2 DEF Healthy
  <2>4. CanSubmit /\ turnOrder' = turnOrder /\ Actor \in Players
    BY <1>5 DEF CastNuke, CastDamage, CanCast, CanAct
  <2> DEFINE h == HitPointsAfter(t, d)
  <2>5. Settle(h, DeathsAfter(t, h), stun, dot)
    BY <2>1, <2>3
  <2>6. Healthy(h, DeathsAfter(t, h), stun, dot)
    BY <1>0, <2>2, HitKeepsHealth
  <2>7. Felled(DeathsAfter(t, h))
    BY <2>1, <2>4, HitFells DEF Foes
  <2> HIDE DEF h
  <2>8. Ends
    BY <2>5, <2>6, <2>7
  <2> QED
    BY <2>4, <2>8
<1>6. CASE CastDot
  BY <1>6 DEF CastDot, CastDamage, CanCast, NoPoison
<1>7. ASSUME NEW effect, NEW turns \in 0 .. StunTurns, UseAbility(effect, turns)
      PROVE  CanSubmit /\ turnOrder' = turnOrder /\ Ends
  <2>1. PICK t \in Enemies, d \in Damage :
          /\ alive[t]
          /\ LET h == HitPointsAfter(t, d)
             IN  Settle(h, DeathsAfter(t, h),
                        [stun EXCEPT ![t] = IF @ > turns THEN @ ELSE turns], dot)
    BY <1>7 DEF UseAbility
  <2>2. t \in Slots /\ d \in Nat /\ turns \in Nat /\ turns <= StunTurns
    BY SlotFacts, DiceAssumption
  <2>3. CanSubmit /\ turnOrder' = turnOrder /\ Actor \in Players
    BY <1>7 DEF UseAbility, CanUse, CanAct
  <2> DEFINE h == HitPointsAfter(t, d)
             stuns == [stun EXCEPT ![t] = IF @ > turns THEN @ ELSE turns]
  <2>4. Settle(h, DeathsAfter(t, h), stuns, dot)
    BY <2>1
  <2>5. stuns \in [Slots -> Nat] /\ \A s \in Slots : stuns[s] <= StunTurns
    BY <1>0, <2>2 DEF Healthy
  <2>6. Healthy(h, DeathsAfter(t, h), stun, dot)
    BY <1>0, <2>2, HitKeepsHealth
  <2>7. Felled(DeathsAfter(t, h))
    BY <2>1, <2>3, HitFells DEF Foes
  <2> HIDE DEF h, stuns
  <2>8. Healthy(h, DeathsAfter(t, h), stuns, dot)
    BY <2>5, <2>6 DEF Healthy
  <2>9. Ends
    BY <2>4, <2>7, <2>8
  <2> QED
    BY <2>3, <2>9
<1>8. CASE UseStrike
  BY <1>7, <1>8, DiceAssumption DEF UseStrike
<1>9. CASE UseStun
  BY <1>7, <1>9, DiceAssumption DEF UseStun
<1>10. CASE TauntSucceeds \/ TauntFails
  <2>1. Settle(hp, alive, stun, dot)
    BY <1>10 DEF TauntSucceeds, TauntFails
  <2>2. Ends
    BY <1>0, <2>1
  <2> QED
    BY <1>10, <2>2 DEF TauntSucceeds, TauntFails, CanUse, CanAct
<1> QED
  BY <1>1, <1>2, <1>3, <1>4, <1>5, <1>6, <1>8, <1>9, <1>10 DEF Act

LEMMA InitFirm == Init => Firm
<1> SUFFICES ASSUME Init PROVE Firm
  OBVIOUS
<1>1. Sound
  BY InitSound
<1>2. Unpoisoned /\ TurnHolderAlive
  BY DEF Init, Unpoisoned, TurnHolderAlive
<1>3. OutcomeMatchesTheStanding
  BY SlotFacts DEF Init, OutcomeMatchesTheStanding
<1> QED
  BY <1>1, <1>2, <1>3 DEF Firm

LEMMA NextFirm ==
    ASSUME NoPoison
    PROVE  Firm /\ [Next]_vars => Firm'
<1> SUFFICES ASSUME Firm, [Next]_vars PROVE Firm'
  OBVIOUS
<1>1. Sound /\ Sound'
  BY NextSound DEF Firm
<1>2. CASE RollInitiative
  <2>1. alive' = alive /\ outcome' = outcome /\ dot' = dot
    BY <1>2 DEF RollInitiative, vitals
  <2>2. turnOrder' \in InitiativeOrders /\ turn' \in 1 .. NumSlots
    BY <1>1, <1>2 DEF RollInitiative, Sound, TypeOK
  <2>3. Actor' \in Slots
    BY <2>2, OrderFacts DEF Actor
  <2>4. TurnHolderAlive'
    BY <1>1, <1>2, <2>1, <2>3 DEF RollInitiative, Sound, Fresh, TurnHolderAlive
  <2> QED
    BY <1>1, <2>1, <2>4 DEF Firm, Unpoisoned, OutcomeMatchesTheStanding
<1>3. CASE RejectIntent
  BY <1>1, <1>3 DEF RejectIntent, Firm, Unpoisoned, TurnHolderAlive,
                    OutcomeMatchesTheStanding, Actor, vitals
<1>4. CASE Act
  <2>1. CASE PassTurn
    BY <1>1, <1>4, <2>1, ActShape, PassTurnFirm DEF Firm
  <2>2. CASE FleeSucceeds
    BY <1>1, <2>2 DEF FleeSucceeds, CanAct, CanSubmit, Firm, Unpoisoned,
                      TurnHolderAlive, OutcomeMatchesTheStanding, vitals
  <2>3. CASE \E h, living, stuns :
               /\ Felled(living)
               /\ Healthy(h, living, stuns, dot)
               /\ Settle(h, living, stuns, dot)
    <3>1. PICK h, living, stuns :
               /\ Healthy(h, living, stuns, dot)
               /\ Settle(h, living, stuns, dot)
      BY <2>3
    <3>2. CanSubmit /\ turnOrder' = turnOrder
      BY <1>1, <1>4, ActShape
    <3> QED
      BY <1>1, <3>1, <3>2, SettleFirm DEF Firm
  <2> QED
    BY <1>1, <1>4, <2>1, <2>2, <2>3, ActShape
<1>5. CASE UNCHANGED vars
  BY <1>1, <1>5 DEF vars, Firm, Unpoisoned, TurnHolderAlive,
                    OutcomeMatchesTheStanding, Actor
<1> QED
  BY <1>2, <1>3, <1>4, <1>5 DEF Next

LEMMA AlwaysFirm ==
    ASSUME NoPoison
    PROVE  Spec => []Firm
<1>1. Init => Firm
  BY InitFirm
<1>2. Firm /\ [Next]_vars => Firm'
  BY NextFirm
<1> QED
  BY <1>1, <1>2, PTL DEF Spec

\* Without damage over time the turn of an undecided fight always belongs to a
\* living participant, so submitAction can be answered.
THEOREM TheTurnHolderLives ==
    ASSUME NoPoison
    PROVE  Spec => []TurnHolderAlive
<1>1. Firm => TurnHolderAlive
  BY DEF Firm
<1> QED
  BY <1>1, AlwaysFirm, PTL

\* Without damage over time the outcome always tells who is left standing.
THEOREM TheOutcomeIsTrue ==
    ASSUME NoPoison
    PROVE  Spec => []OutcomeMatchesTheStanding
<1>1. Firm => OutcomeMatchesTheStanding
  BY DEF Firm
<1> QED
  BY <1>1, AlwaysFirm, PTL

-----------------------------------------------------------------------------
(* A fight without damage over time implements TurnRotation *)

Standing == {s \in Slots : alive[s]}

LEMMA InitRotates == TurnsInit => Rotation!Init
  BY DEF TurnsInit, Init, Rotation!Init, Rotation!Everyone, Slots, Stalled, HumansTurn

\* Whoever is given the turn is not held up: a human gets the timer, too.
LEMMA ATurnBeginsFree == BeginTurn => Stalled' = FALSE
  BY DEF BeginTurn, Stalled, HumansTurn

LEMMA DecisionIsVerdict ==
    ASSUME NEW living \in [Slots -> BOOLEAN]
    PROVE  Rotation!Decision({s \in Slots : living[s]}) = Verdict(living)
  BY SlotFacts DEF Rotation!Decision, Verdict

LEMMA NextStandingIsNextUp ==
    ASSUME turnOrder \in InitiativeOrders, NEW living \in [Slots -> BOOLEAN],
           NEW i \in DOMAIN turnOrder, NextUp(i, living)
    PROVE  Rotation!NextStanding(i, {s \in Slots : living[s]})
  BY OrderFacts DEF Rotation!NextStanding, NextUp, Rotation!StepsTo, Distance

LEMMA ActRotates ==
    ASSUME Firm, NoPoison, Act, BeginTurn
    PROVE  Rotation!Next
<1>0. Stalled' = FALSE
  BY ATurnBeginsFree
<1> DEFINE up(living) == {s \in Slots : living[s]}
<1>1. Sound /\ Healthy(hp, alive, stun, dot)
  BY DEF Firm, Sound
<1>2. /\ CanSubmit
      /\ turnOrder' = turnOrder
      /\ turnOrder \in InitiativeOrders
      /\ turn \in 1 .. NumSlots
      /\ Actor \in Slots /\ alive[Actor]
      /\ outcome = "in_progress"
  BY <1>1, ActShape, ActorFacts
<1>3. /\ Rotation!InPlay
      /\ Rotation!Holder = Actor
      /\ Actor \in Standing
      /\ Rotation!Opponents(Actor) = Foes(Actor)
  BY <1>2, OrderFacts DEF Rotation!InPlay, Rotation!Holder, Actor, Standing,
                          Rotation!Opponents, Foes
<1>4. CASE FleeSucceeds
  BY <1>0, <1>2, <1>3, <1>4 DEF FleeSucceeds, Rotation!Next, Rotation!Escape, vitals, Standing
<1>5. CASE PassTurn
  <2>1. /\ alive' = alive
        /\ turn' \in DOMAIN turnOrder
        /\ NextUp(turn', alive)
        /\ outcome' = "in_progress"
    BY <1>1, <1>2, <1>5, PassTurnFirm, AdvanceKeepsHealth, OrderFacts DEF PassTurn
  <2>2. Standing' = Standing
    BY <2>1 DEF Standing
  <2>3. alive \in [Slots -> BOOLEAN]
    BY <1>1 DEF Healthy
  <2>4. Rotation!Decision(Standing) = "in_progress"
    BY <1>2, <2>3, DecisionIsVerdict DEF Firm, OutcomeMatchesTheStanding, Verdict, Standing
  <2>5. Rotation!NextStanding(turn', Standing)
    BY <1>2, <2>1, <2>3, NextStandingIsNextUp DEF Standing
  <2> QED
    BY <1>0, <1>2, <1>3, <2>1, <2>2, <2>4, <2>5 DEF Rotation!Next, Rotation!TakeTurn, Standing
<1>6. CASE \E h, living, stuns :
             /\ Felled(living)
             /\ Healthy(h, living, stuns, dot)
             /\ Settle(h, living, stuns, dot)
  <2>1. PICK h, living, stuns :
             /\ Felled(living)
             /\ Healthy(h, living, stuns, dot)
             /\ Settle(h, living, stuns, dot)
    BY <1>6
  <2>2. living \in [Slots -> BOOLEAN] /\ alive \in [Slots -> BOOLEAN]
    BY <1>1, <2>1 DEF Healthy
  <2>3. alive' = living
    BY <1>2, <2>1, SettleFirm
  <2>4. outcome' = Rotation!Decision(Standing')
    BY <1>1, <1>2, <2>1, <2>2, <2>3, SettleKeepsHealth, DecisionIsVerdict DEF Standing
  <2>5. \/ Standing' = Standing
        \/ \E v \in Foes(Actor) \cap Standing : Standing' = Standing \ {v}
    <3>1. CASE living = alive
      BY <2>3, <3>1 DEF Standing
    <3>2. CASE \E t \in Foes(Actor) : alive[t] /\ living = [alive EXCEPT ![t] = FALSE]
      <4>1. PICK t \in Foes(Actor) : alive[t] /\ living = [alive EXCEPT ![t] = FALSE]
        BY <3>2
      <4>2. t \in Slots
        BY SlotFacts DEF Foes
      <4>3. Standing' = Standing \ {t} /\ t \in Standing
        BY <2>2, <2>3, <4>1, <4>2 DEF Standing
      <4> QED
        BY <4>3
    <3> QED
      BY <2>1, <3>1, <3>2 DEF Felled
  <2>6. CASE outcome' = "in_progress"
    <3>1. turn' \in DOMAIN turnOrder /\ NextUp(turn', living)
      BY <1>1, <1>2, <2>1, <2>6, SettleKeepsHealth, OrderFacts
    <3>2. Rotation!NextStanding(turn', Standing')
      BY <1>2, <2>2, <2>3, <3>1, NextStandingIsNextUp DEF Standing
    <3> QED
      BY <1>0, <1>2, <1>3, <2>4, <2>5, <2>6, <3>1, <3>2
      DEF Rotation!Next, Rotation!TakeTurn, Standing
  <2>7. CASE outcome' # "in_progress"
    <3>1. turn' = turn
      BY <1>1, <1>2, <2>1, <2>7, SettleKeepsHealth
    <3> QED
      BY <1>0, <1>2, <1>3, <2>4, <2>5, <2>7, <3>1
      DEF Rotation!Next, Rotation!TakeTurn, Standing
  <2> QED
    BY <2>6, <2>7
<1> QED
  BY <1>1, <1>4, <1>5, <1>6, ActShape

LEMMA RollRotates == BeginFight => Rotation!Roll
<1> SUFFICES ASSUME BeginFight
             PROVE  Rotation!Roll
  OBVIOUS
<1>1. Stalled = FALSE /\ Stalled' = FALSE
  BY ATurnBeginsFree DEF BeginFight, RollInitiative, Stalled, HumansTurn
<1> QED
  BY <1>1 DEF BeginFight, RollInitiative, Rotation!Roll, Rotation!Orders, Rotation!Everyone,
              InitiativeOrders, Slots, vitals

LEMMA RefusalBalks ==
    ASSUME Firm, RefuseIntent
    PROVE  Rotation!Balk
<1>1. /\ HumansTurn
      /\ CanSubmit
      /\ UNCHANGED <<alive, turnOrder, turn, outcome>>
      /\ timer' = FALSE
  BY DEF RefuseIntent, RejectIntent, CanAct, vitals
<1>2. outcome = "in_progress" /\ turnOrder # <<>> /\ alive[Actor] /\ Actor = 1
  BY <1>1 DEF CanSubmit, HumansTurn, Human
<1>3. Stalled' = TRUE
  BY <1>1, <1>2 DEF Stalled, HumansTurn, Human, Actor
<1>4. Rotation!InPlay /\ Rotation!Holder \in Standing \cap Players
  BY <1>2, SlotFacts DEF Rotation!InPlay, Rotation!Holder, Actor, Standing
<1> QED
  BY <1>1, <1>3, <1>4 DEF Rotation!Balk, Standing

\* Running a fight does nothing to it that the fight itself would not do.
LEMMA RunningIsFighting == TurnsSpec => Spec
<1>1. TurnsInit => Init
  BY DEF TurnsInit
<1>2. [TurnsNext]_turnsVars => [Next]_vars
  <2>1. DefaultAction => Act
    BY DEF DefaultAction, Act
  <2> QED
    BY <2>1 DEF TurnsNext, turnsVars, Next, BeginFight, PlayOthers, SubmitAction,
                RefuseIntent, TurnTimesOut
<1> QED
  BY <1>1, <1>2, PTL DEF TurnsSpec, Spec

\* A fight whose catalogue has no damage over time keeps the promise its callers rely on, as
\* the zone server runs it: every step is a step of TurnRotation or none at all.
THEOREM FightsRotate ==
    ASSUME NoPoison
    PROVE  TurnsSpec => Rotation!Spec
<1>1. TurnsInit => Rotation!Init
  BY InitRotates
<1>2. Firm /\ [TurnsNext]_turnsVars => [Rotation!Next]_(Rotation!rvars)
  <2> SUFFICES ASSUME Firm, [TurnsNext]_turnsVars
               PROVE  Rotation!Next \/ UNCHANGED Rotation!rvars
    OBVIOUS
  <2>1. CASE BeginFight
    BY <2>1, RollRotates DEF Rotation!Next
  <2>2. CASE PlayOthers
    BY <2>2, ActRotates DEF PlayOthers
  <2>3. CASE SubmitAction
    BY <2>3, ActRotates DEF SubmitAction
  <2>4. CASE RefuseIntent
    BY <2>4, RefusalBalks DEF Rotation!Next
  <2>5. CASE TurnTimesOut
    <3>1. Act /\ BeginTurn
      BY <2>5 DEF TurnTimesOut, DefaultAction, Act
    <3> QED
      BY <3>1, ActRotates
  <2>6. CASE UNCHANGED turnsVars
    BY <2>6 DEF turnsVars, vars, Rotation!rvars, Stalled, HumansTurn, Actor
  <2> QED
    BY <2>1, <2>2, <2>3, <2>4, <2>5, <2>6 DEF TurnsNext
<1> QED
  BY <1>1, <1>2, AlwaysFirm, RunningIsFighting, PTL DEF TurnsSpec, Rotation!Spec
=============================================================================
