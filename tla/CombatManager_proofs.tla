------------------------ MODULE CombatManager_proofs ------------------------
(***************************************************************************)
(* Proofs about the fights of a zone server, for any number of characters, *)
(* fights and hit points.                                                  *)
(*                                                                         *)
(* Coherent is inductive. It adds to the invariants the runs check what    *)
(* keeps fights apart: ids are handed out once, and the id a character is  *)
(* filed under never names a fight of somebody else.                       *)
(***************************************************************************)
EXTENDS CombatManager, TLAPS

\* What Coherent says of one character.
Settled(c) ==
    /\ characterCombatIds[c] < nextCombatId
    /\ characterCombatIds[c] # 0 /\ Live(characterCombatIds[c])
           => combats[characterCombatIds[c]].owner = c
    /\ Here(c) => players[c].hp = saved[c]
    /\ Here(c) /\ players[c].inCombat =>
           /\ players[c].combatId \in LiveFightsOf(c)
           /\ characterCombatIds[c] = players[c].combatId
    /\ Here(c) /\ ~haunted[c] /\ players[c].inCombat =>
           /\ LiveFightsOf(c) = {players[c].combatId}
           /\ combats[players[c].combatId].hp = players[c].hp
    /\ Here(c) /\ ~haunted[c] /\ ~players[c].inCombat => LiveFightsOf(c) = {}
    /\ Here(c) /\ ~haunted[c] =>
           /\ window[c].active = players[c].inCombat
           /\ window[c].active => window[c].combatId = players[c].combatId

FreshIds == \A f \in FightIds : f >= nextCombatId => combats[f] = Gone

Coherent ==
    /\ TypeOK
    /\ FreshIds
    /\ \A c \in Characters : Settled(c)

\* The fight is the same but for its timer.
Untouched(f) ==
    /\ Live(f)' <=> Live(f)
    /\ Live(f) => combats'[f].owner = combats[f].owner /\ combats'[f].hp = combats[f].hp

-----------------------------------------------------------------------------
(* Types *)

LEMMA FightFacts ==
    ASSUME TypeOK, NEW f \in FightIds, Live(f)
    PROVE  /\ combats[f] \in ActiveCombat
           /\ combats[f].owner \in Characters
           /\ combats[f].hp \in Hp
  BY DEF TypeOK, Live, ActiveCombat

LEMMA PlayerFacts ==
    ASSUME TypeOK, NEW c \in Characters, Here(c)
    PROVE  players[c] \in PlayerEntity /\ players[c].hp \in Hp
  BY DEF TypeOK, Here, PlayerEntity

LEMMA RewardFacts ==
    ASSUME NEW r \in Results, NEW h \in Hp
    PROVE  HpAfterRewards(r, h) \subseteq Hp
  BY BoundsAssumption DEF HpAfterRewards, Hp

\* finishCombat keeps the types of what it changes.
LEMMA FinishTyped ==
    ASSUME TypeOK, NEW f \in FightIds, NEW c \in Characters, NEW h \in Hp, Finish(f, c, h)
    PROVE  /\ players' \in [Characters -> PlayerEntity \cup {Gone}]
           /\ saved' \in [Characters -> Hp]
           /\ characterCombatIds' \in [Characters -> FightIds \cup {0}]
           /\ combats' \in [FightIds -> ActiveCombat \cup {Gone}]
           /\ window' \in [Characters -> CombatWindow]
           /\ haunted' \in [Characters -> BOOLEAN]
<1>1. combats' \in [FightIds -> ActiveCombat \cup {Gone}]
  BY DEF TypeOK, Finish
<1>2. characterCombatIds' \in [Characters -> FightIds \cup {0}]
  BY DEF TypeOK, Finish
<1>3. [hp |-> h, inCombat |-> FALSE, combatId |-> 0] \in PlayerEntity
  BY DEF PlayerEntity
<1>4. [window[c] EXCEPT !.active = FALSE] \in CombatWindow
  BY DEF TypeOK, CombatWindow
<1>5. players' \in [Characters -> PlayerEntity \cup {Gone}] /\ saved' \in [Characters -> Hp]
  BY <1>3 DEF TypeOK, Finish, Left
<1>6. window' \in [Characters -> CombatWindow]
  BY <1>4 DEF TypeOK, Finish
<1>7. haunted' \in [Characters -> BOOLEAN]
  <2>1. CASE Here(c)
    <3>1. (haunted[c] /\ LiveFightsOf(c) \ {f} # {}) \in BOOLEAN
      BY DEF TypeOK
    <3>2. haunted' = [haunted EXCEPT ![c] = haunted[c] /\ LiveFightsOf(c) \ {f} # {}]
      BY <2>1 DEF Finish
    <3> QED
      BY <3>1, <3>2, Zenon DEF TypeOK
  <2>2. CASE ~Here(c)
    BY <2>2 DEF TypeOK, Finish
  <2> QED
    BY <2>1, <2>2
<1> QED
  BY <1>1, <1>2, <1>5, <1>6, <1>7

\* So does the hand-over to the human's next turn.
LEMMA GoOnTyped ==
    ASSUME TypeOK, NEW f \in FightIds, NEW c \in Characters, NEW h \in Hp, GoOn(f, c, h)
    PROVE  /\ players' \in [Characters -> PlayerEntity \cup {Gone}]
           /\ saved' \in [Characters -> Hp]
           /\ characterCombatIds' \in [Characters -> FightIds \cup {0}]
           /\ combats' \in [FightIds -> ActiveCombat \cup {Gone}]
           /\ window' \in [Characters -> CombatWindow]
           /\ haunted' \in [Characters -> BOOLEAN]
<1>1. [owner |-> c, hp |-> h, timer |-> "armed"] \in ActiveCombat
  BY DEF ActiveCombat
<1>2. combats' \in [FightIds -> ActiveCombat \cup {Gone}]
  BY <1>1 DEF TypeOK, GoOn
<1>3. characterCombatIds' = characterCombatIds /\ haunted' = haunted
  BY DEF GoOn
<1>4. CASE Here(c)
  <2>1. [players[c] EXCEPT !.hp = h] \in PlayerEntity
    BY <1>4, PlayerFacts DEF PlayerEntity
  <2>2. [window[c] EXCEPT !.combatId = f] \in CombatWindow
    BY DEF TypeOK, CombatWindow
  <2>3. players' = [players EXCEPT ![c] = [players[c] EXCEPT !.hp = h]]
    BY <1>4 DEF GoOn
  <2>4. window' = [window EXCEPT ![c] = [window[c] EXCEPT !.combatId = f]]
    BY <1>4 DEF GoOn
  <2>5. saved' = [saved EXCEPT ![c] = h]
    BY <1>4 DEF GoOn
  <2> QED
    BY <1>2, <1>3, <2>1, <2>2, <2>3, <2>4, <2>5 DEF TypeOK
<1>5. CASE ~Here(c)
  BY <1>2, <1>3, <1>5 DEF TypeOK, GoOn
<1> QED
  BY <1>4, <1>5

-----------------------------------------------------------------------------
(* Steps that end or continue a fight *)

\* Whoever has no part in a step stays as settled as before: neither its records
\* nor a fight of its own change, and no fight becomes its own.
LEMMA Bystander ==
    ASSUME TypeOK, FreshIds, NEW d \in Characters, Settled(d),
           players'[d] = players[d],
           saved'[d] = saved[d],
           characterCombatIds'[d] = characterCombatIds[d],
           window'[d] = window[d],
           haunted'[d] = haunted[d],
           nextCombatId' \in Nat, nextCombatId' >= nextCombatId,
           \A f \in FightIds :
               \/ Untouched(f)
               \/ /\ Live(f) => combats[f].owner # d
                  /\ Live(f)' => combats'[f].owner # d
                  /\ Live(f) \/ f >= nextCombatId
    PROVE  Settled(d)'
<1>1. LiveFightsOf(d)' = LiveFightsOf(d)
  BY DEF LiveFightsOf, Untouched
<1>2. \A f \in LiveFightsOf(d) : combats'[f].owner = d /\ combats'[f].hp = combats[f].hp
  BY DEF LiveFightsOf, Untouched
<1>3. characterCombatIds[d] \in Nat /\ nextCombatId \in Nat
  BY BoundsAssumption DEF TypeOK, FightIds
<1>4. (characterCombatIds[d] < nextCombatId)'
  BY <1>3 DEF Settled
<1>5. ASSUME characterCombatIds[d] # 0, Live(characterCombatIds[d])'
      PROVE  combats'[characterCombatIds[d]].owner = d
  <2> DEFINE f == characterCombatIds[d]
  <2>1. f \in FightIds /\ f < nextCombatId
    BY <1>5 DEF TypeOK, Settled
  <2>2. CASE Untouched(f)
    BY <1>5, <2>1, <2>2 DEF Untouched, Settled
  <2>3. CASE ~Untouched(f)
    BY <1>3, <1>5, <2>1, <2>3 DEF Settled
  <2> QED
    BY <2>2, <2>3
<1>6. Here(d)' <=> Here(d)
  BY DEF Here
<1>7. (Here(d) => players[d].hp = saved[d])'
  BY <1>6 DEF Settled
<1>8. (Here(d) /\ players[d].inCombat =>
           /\ players[d].combatId \in LiveFightsOf(d)
           /\ characterCombatIds[d] = players[d].combatId)'
  BY <1>1, <1>6 DEF Settled
<1>9. (Here(d) /\ ~haunted[d] /\ players[d].inCombat =>
           /\ LiveFightsOf(d) = {players[d].combatId}
           /\ combats[players[d].combatId].hp = players[d].hp)'
  BY <1>1, <1>2, <1>6 DEF Settled
<1>10. (Here(d) /\ ~haunted[d] /\ ~players[d].inCombat => LiveFightsOf(d) = {})'
  BY <1>1, <1>6 DEF Settled
<1>11. (Here(d) /\ ~haunted[d] =>
           /\ window[d].active = players[d].inCombat
           /\ window[d].active => window[d].combatId = players[d].combatId)'
  BY <1>6 DEF Settled
<1> QED
  BY <1>4, <1>5, <1>7, <1>8, <1>9, <1>10, <1>11 DEF Settled

\* The end of a fight, be it one of those going on or one decided at its start.
LEMMA FinishSettles ==
    ASSUME Coherent, NEW f \in FightIds, NEW c \in Characters, NEW h \in Hp,
           Finish(f, c, h),
           \/ Live(f) /\ combats[f].owner = c
           \/ f = nextCombatId /\ CanStart(c),
           nextCombatId' \in Nat, nextCombatId' >= nextCombatId
    PROVE  FreshIds' /\ \A d \in Characters : Settled(d)'
<1> USE DEF Coherent
<1>1. combats' = [combats EXCEPT ![f] = Gone]
  BY DEF Finish
<1>2. FreshIds'
  BY <1>1, BoundsAssumption DEF FreshIds, TypeOK, FightIds
<1>3. \A g \in FightIds \ {f} : Untouched(g)
  BY <1>1 DEF Untouched, Live, TypeOK
<1>4. ~Live(f)'
  BY <1>1 DEF Live, TypeOK
<1>5. ASSUME NEW d \in Characters, d # c
      PROVE  Settled(d)'
  <2>1. /\ players'[d] = players[d]
        /\ saved'[d] = saved[d]
        /\ characterCombatIds'[d] = characterCombatIds[d]
        /\ window'[d] = window[d]
        /\ haunted'[d] = haunted[d]
    BY <1>5 DEF Finish, Left, TypeOK
  <2>2. Live(f) => combats[f].owner # d
    BY <1>5, BoundsAssumption DEF FreshIds, Live, TypeOK, FightIds
  <2>3. Live(f) \/ f >= nextCombatId
    BY BoundsAssumption DEF FightIds
  <2> QED
    BY <1>3, <1>4, <2>1, <2>2, <2>3, Bystander
<1>6. Settled(c)'
  <2>1. characterCombatIds'[c] = 0
    BY DEF Finish, TypeOK
  <2>2. LiveFightsOf(c)' = LiveFightsOf(c) \ {f}
    BY <1>3, <1>4 DEF LiveFightsOf, Untouched
  <2>3. CASE Here(c)
    <3>1. /\ players'[c] = [hp |-> h, inCombat |-> FALSE, combatId |-> 0]
          /\ saved'[c] = h
          /\ window'[c].active = FALSE
      BY <2>3 DEF Finish, Left, TypeOK, CombatWindow
    <3>2. haunted'[c] <=> haunted[c] /\ LiveFightsOf(c) \ {f} # {}
      <4>1. haunted' = [haunted EXCEPT ![c] = haunted[c] /\ LiveFightsOf(c) \ {f} # {}]
        BY <2>3 DEF Finish
      <4> QED
        BY <4>1, Zenon DEF TypeOK
    <3>3. ~haunted[c] => LiveFightsOf(c) \ {f} = {}
      <4>1. CASE Live(f) /\ combats[f].owner = c
        BY <2>3, <4>1, PlayerFacts DEF Settled, LiveFightsOf, PlayerEntity
      <4>2. CASE f = nextCombatId /\ CanStart(c)
        BY <2>3, <4>2 DEF Settled, CanStart
      <4> QED
        BY <4>1, <4>2
    <3>4. ~haunted'[c] => LiveFightsOf(c)' = {}
      BY <2>2, <3>2, <3>3
    <3>5. characterCombatIds'[c] < nextCombatId'
      BY <2>1, BoundsAssumption DEF TypeOK
    <3>6. players'[c].hp = h /\ players'[c].inCombat = FALSE
      BY <3>1
    <3> QED
      BY <2>1, <3>1, <3>4, <3>5, <3>6 DEF Settled
  <2>4. CASE ~Here(c)
    BY <2>1, <2>4, BoundsAssumption DEF Finish, Settled, Here, TypeOK
  <2> QED
    BY <2>3, <2>4
<1> QED
  BY <1>2, <1>5, <1>6

\* The hand-over to the next turn of the human.
LEMMA GoOnSettles ==
    ASSUME Coherent, NEW f \in FightIds, NEW c \in Characters, NEW h \in Hp,
           GoOn(f, c, h), Live(f), combats[f].owner = c, nextCombatId' = nextCombatId
    PROVE  FreshIds' /\ \A d \in Characters : Settled(d)'
<1> USE DEF Coherent
<1> DEFINE fight == [owner |-> c, hp |-> h, timer |-> "armed"]
<1>1. combats' = [combats EXCEPT ![f] = fight]
  BY DEF GoOn
<1>2. fight # Gone
  BY GoneAssumption DEF ActiveCombat
<1>3. FreshIds'
  BY <1>1 DEF FreshIds, TypeOK, Live
<1>4. \A g \in FightIds \ {f} : Untouched(g)
  BY <1>1 DEF Untouched, Live, TypeOK
<1>5. Live(f)' /\ combats'[f].owner = c /\ combats'[f].hp = h
  BY <1>1, <1>2 DEF Live, TypeOK
<1>6. ASSUME NEW d \in Characters, d # c
      PROVE  Settled(d)'
  <2>1. /\ players'[d] = players[d]
        /\ saved'[d] = saved[d]
        /\ characterCombatIds'[d] = characterCombatIds[d]
        /\ window'[d] = window[d]
        /\ haunted'[d] = haunted[d]
    BY <1>6 DEF GoOn, TypeOK
  <2>2. nextCombatId' \in Nat /\ nextCombatId' >= nextCombatId
    BY BoundsAssumption DEF TypeOK
  <2> QED
    BY <1>4, <1>5, <1>6, <2>1, <2>2, Bystander
<1>7. Settled(c)'
  <2>1. LiveFightsOf(c)' = LiveFightsOf(c)
    BY <1>4, <1>5 DEF LiveFightsOf, Untouched
  <2>2. characterCombatIds' = characterCombatIds /\ haunted' = haunted
    BY DEF GoOn
  <2>3. characterCombatIds[c] # 0 /\ Live(characterCombatIds[c])' =>
            combats'[characterCombatIds[c]].owner = c
    <3> SUFFICES ASSUME characterCombatIds[c] # 0, Live(characterCombatIds[c])'
                 PROVE  combats'[characterCombatIds[c]].owner = c
      OBVIOUS
    <3>1. characterCombatIds[c] \in FightIds
      BY DEF TypeOK
    <3>2. CASE characterCombatIds[c] = f
      BY <1>5, <3>2
    <3>3. CASE characterCombatIds[c] # f
      <4>1. Untouched(characterCombatIds[c])
        BY <1>4, <3>1, <3>3
      <4>2. Live(characterCombatIds[c])' <=> combats'[characterCombatIds[c]] # Gone
        BY <2>2 DEF Live
      <4> QED
        BY <4>1, <4>2, <2>2 DEF Untouched, Settled, Live
    <3> QED
      BY <3>2, <3>3
  <2>4. CASE Here(c)
    <3>1. /\ players'[c] = [players[c] EXCEPT !.hp = h]
          /\ saved'[c] = h
          /\ window'[c] = [window[c] EXCEPT !.combatId = f]
      BY <2>4 DEF GoOn, TypeOK
    <3>2. /\ players'[c].hp = h
          /\ players'[c].inCombat = players[c].inCombat
          /\ players'[c].combatId = players[c].combatId
      BY <2>4, <3>1, PlayerFacts DEF PlayerEntity
    <3>3. window'[c].active = window[c].active /\ window'[c].combatId = f
      BY <3>1 DEF TypeOK, CombatWindow
    <3>4. f \in LiveFightsOf(c)
      BY DEF LiveFightsOf
    <3>5. ~haunted[c] => players[c].inCombat /\ players[c].combatId = f
      BY <2>4, <3>4, PlayerFacts DEF Settled, PlayerEntity
    <3> QED
      BY <1>5, <2>1, <2>2, <2>3, <2>4, <3>1, <3>2, <3>3, <3>5 DEF Settled
  <2>5. CASE ~Here(c)
    BY <2>2, <2>3, <2>5 DEF GoOn, Settled, Here
  <2> QED
    BY <2>4, <2>5
<1> QED
  BY <1>3, <1>6, <1>7

-----------------------------------------------------------------------------
(* Every step *)

\* The types of what a stretch of a fight changes.
StretchTyped ==
    /\ players' \in [Characters -> PlayerEntity \cup {Gone}]
    /\ saved' \in [Characters -> Hp]
    /\ characterCombatIds' \in [Characters -> FightIds \cup {0}]
    /\ combats' \in [FightIds -> ActiveCombat \cup {Gone}]
    /\ window' \in [Characters -> CombatWindow]
    /\ haunted' \in [Characters -> BOOLEAN]

\* A turn of the human, whoever plays it.
LEMMA TurnCoherent ==
    ASSUME Coherent, NEW f \in FightIds, Live(f), TurnIsTaken(f),
           nextCombatId' = nextCombatId
    PROVE  StretchTyped /\ FreshIds' /\ \A d \in Characters : Settled(d)'
<1> DEFINE c == combats[f].owner
<1>1. c \in Characters /\ nextCombatId' \in Nat /\ nextCombatId' >= nextCombatId
  BY FightFacts, BoundsAssumption DEF Coherent, TypeOK
<1>2. PICK result \in Results, h \in Hp :
        IF result = "goes_on"
        THEN GoOn(f, c, h)
        ELSE \E final \in HpAfterRewards(result, h) : Finish(f, c, final)
  BY DEF TurnIsTaken
<1>3. CASE result = "goes_on"
  BY <1>1, <1>2, <1>3, GoOnTyped, GoOnSettles DEF Coherent, StretchTyped
<1>4. CASE result # "goes_on"
  <2>1. PICK final \in HpAfterRewards(result, h) : Finish(f, c, final)
    BY <1>2, <1>4
  <2>2. final \in Hp
    BY <2>1, RewardFacts
  <2> QED
    BY <1>1, <2>1, <2>2, FinishTyped, FinishSettles DEF Coherent, StretchTyped
<1> QED
  BY <1>3, <1>4

\* The end of a fight by other means than a turn.
LEMMA EndCoherent ==
    ASSUME Coherent, NEW f \in FightIds, NEW c \in Characters, NEW h \in Hp,
           Finish(f, c, h),
           \/ Live(f) /\ combats[f].owner = c
           \/ f = nextCombatId /\ CanStart(c),
           nextCombatId' \in Nat, nextCombatId' >= nextCombatId
    PROVE  StretchTyped /\ FreshIds' /\ \A d \in Characters : Settled(d)'
  BY FinishTyped, FinishSettles DEF Coherent, StretchTyped

\* The first fight of a character begins with an id nobody has seen.
LEMMA StartCoherent ==
    ASSUME Coherent, NEW c \in Characters, StartFight(c)
    PROVE  Coherent'
<1> USE DEF Coherent
<1>0. PICK f \in FightIds : f = nextCombatId
  BY BoundsAssumption DEF StartFight, CanStart, TypeOK, FightIds
<1>1. /\ nextCombatId' = f + 1
      /\ ~Live(f)
      /\ Here(c)
      /\ ~players[c].inCombat
  BY <1>0, BoundsAssumption DEF StartFight, CanStart, FreshIds, Live, FightIds
<1>2. PICK h \in Hp :
        /\ combats' = [combats EXCEPT ![f] = [owner |-> c, hp |-> h, timer |-> "armed"]]
        /\ players' = [players EXCEPT ![c] = [hp |-> h, inCombat |-> TRUE, combatId |-> f]]
        /\ saved' = [saved EXCEPT ![c] = h]
  BY <1>0 DEF StartFight
<1>3. /\ characterCombatIds' = [characterCombatIds EXCEPT ![c] = f]
      /\ window' = [window EXCEPT ![c] = [active |-> TRUE, combatId |-> f]]
      /\ queued' = queued
      /\ haunted' = haunted
  BY <1>0 DEF StartFight
<1>4. TypeOK'
  <2>1. /\ [owner |-> c, hp |-> h, timer |-> "armed"] \in ActiveCombat
        /\ [hp |-> h, inCombat |-> TRUE, combatId |-> f] \in PlayerEntity
        /\ [active |-> TRUE, combatId |-> f] \in CombatWindow
    BY <1>1 DEF ActiveCombat, PlayerEntity, CombatWindow
  <2>2. nextCombatId' \in 1 .. MaxFights + 1
    BY <1>1, BoundsAssumption DEF FightIds
  <2> QED
    BY <1>1, <1>2, <1>3, <2>1, <2>2 DEF TypeOK
<1>5. FreshIds'
  BY <1>0, <1>1, <1>2, BoundsAssumption DEF FreshIds, TypeOK, FightIds
<1>6. \A g \in FightIds \ {f} : Untouched(g)
  BY <1>2 DEF Untouched, Live, TypeOK
<1>7. /\ Live(f)'
      /\ combats'[f].owner = c
      /\ combats'[f].hp = h
  BY <1>1, <1>2, GoneAssumption DEF Live, TypeOK, ActiveCombat
<1>8. ASSUME NEW d \in Characters, d # c
      PROVE  Settled(d)'
  <2>1. /\ players'[d] = players[d]
        /\ saved'[d] = saved[d]
        /\ characterCombatIds'[d] = characterCombatIds[d]
        /\ window'[d] = window[d]
        /\ haunted'[d] = haunted[d]
    BY <1>2, <1>3, <1>8 DEF TypeOK
  <2>2. nextCombatId' \in Nat /\ nextCombatId' >= nextCombatId /\ f >= nextCombatId
    BY <1>0, <1>1, BoundsAssumption DEF FightIds
  <2> QED
    BY <1>1, <1>6, <1>7, <1>8, <2>1, <2>2, Bystander
<1>9. Settled(c)'
  <2>1. /\ players'[c].hp = h
        /\ players'[c].inCombat = TRUE
        /\ players'[c].combatId = f
        /\ saved'[c] = h
    BY <1>2 DEF TypeOK
  <2>2. /\ characterCombatIds'[c] = f
        /\ window'[c].active = TRUE
        /\ window'[c].combatId = f
        /\ haunted'[c] = haunted[c]
    BY <1>3 DEF TypeOK
  <2>3. LiveFightsOf(c)' = LiveFightsOf(c) \cup {f}
    BY <1>1, <1>6, <1>7 DEF LiveFightsOf, Untouched
  <2>4. ~haunted[c] => LiveFightsOf(c) = {}
    BY <1>1 DEF Settled
  <2>5. f < nextCombatId'
    BY <1>1 DEF FightIds
  <2> QED
    BY <1>7, <2>1, <2>2, <2>3, <2>4, <2>5 DEF Settled
<1> QED
  BY <1>4, <1>5, <1>8, <1>9

\* A step that touches nothing but timers and their handlers.
LEMMA TimerCoherent ==
    ASSUME Coherent,
           UNCHANGED <<players, saved, characterCombatIds, nextCombatId, window, haunted>>,
           combats' \in [FightIds -> ActiveCombat \cup {Gone}],
           \A f \in FightIds : Untouched(f),
           queued' \in [FightIds -> {"none", "due", "stale"}]
    PROVE  Coherent'
<1> USE DEF Coherent
<1>1. TypeOK'
  BY DEF TypeOK
<1>2. FreshIds'
  BY DEF FreshIds, Untouched, Live
<1>3. nextCombatId' \in Nat /\ nextCombatId' >= nextCombatId
  BY BoundsAssumption DEF TypeOK
<1>4. \A d \in Characters : Settled(d)'
  BY <1>3, Bystander
<1> QED
  BY <1>1, <1>2, <1>4

\* A player who comes or goes takes no fight along.
LEMMA ComeAndGoCoherent ==
    ASSUME Coherent, NEW c \in Characters, Enter(c) \/ Leave(c)
    PROVE  Coherent'
<1> USE DEF Coherent
<1>1. /\ UNCHANGED <<characterCombatIds, combats, queued, nextCombatId>>
      /\ window' = [window EXCEPT ![c] = NoWindow]
  BY DEF Enter, Leave
<1>2. \A f \in FightIds : Untouched(f)
  BY <1>1 DEF Untouched, Live
<1>3. LiveFightsOf(c)' = LiveFightsOf(c)
  BY <1>1 DEF LiveFightsOf, Live
<1>4. nextCombatId' \in Nat /\ nextCombatId' >= nextCombatId
  BY <1>1, BoundsAssumption DEF TypeOK
<1>5. FreshIds'
  BY <1>1 DEF FreshIds
<1>6. NoWindow \in CombatWindow
  BY DEF NoWindow, CombatWindow
<1>7. CASE Enter(c)
  <2> DEFINE entity == [hp |-> saved[c], inCombat |-> FALSE, combatId |-> 0]
  <2>1. /\ players' = [players EXCEPT ![c] = entity]
        /\ saved' = saved
        /\ haunted' = [haunted EXCEPT ![c] = LiveFightsOf(c) # {}]
    BY <1>7 DEF Enter
  <2>2. entity \in PlayerEntity
    BY DEF TypeOK, PlayerEntity
  <2>3. TypeOK'
    BY <1>1, <1>6, <2>1, <2>2 DEF TypeOK
  <2>4. ASSUME NEW d \in Characters, d # c
        PROVE  Settled(d)'
    BY <1>1, <1>2, <1>4, <2>1, <2>4, Bystander DEF TypeOK
  <2>5. haunted'[c] <=> LiveFightsOf(c) # {}
    BY <2>1, Zenon DEF TypeOK
  <2>6. players'[c] = entity /\ saved'[c] = saved[c] /\ window'[c].active = FALSE
    BY <1>1, <2>1 DEF TypeOK, NoWindow
  <2>7. players'[c].hp = saved'[c] /\ players'[c].inCombat = FALSE
    BY <2>6
  <2>8. (Live(characterCombatIds[c]) <=> Live(characterCombatIds[c])')
    BY <1>1 DEF Live
  <2>9. Settled(c)'
    BY <1>1, <1>3, <2>5, <2>6, <2>7, <2>8 DEF Settled
  <2> QED
    BY <1>5, <2>3, <2>4, <2>9
<1>8. CASE Leave(c)
  <2>1. /\ players' = [players EXCEPT ![c] = Gone]
        /\ saved' = [saved EXCEPT ![c] = players[c].hp]
        /\ haunted' = haunted
        /\ Here(c)
    BY <1>8 DEF Leave
  <2>2. players[c].hp \in Hp
    BY <2>1, PlayerFacts
  <2>3. TypeOK'
    BY <1>1, <1>6, <2>1, <2>2 DEF TypeOK
  <2>4. ASSUME NEW d \in Characters, d # c
        PROVE  Settled(d)'
    BY <1>1, <1>2, <1>4, <2>1, <2>4, Bystander DEF TypeOK
  <2>5. ~Here(c)'
    BY <2>1 DEF Here, TypeOK
  <2>6. Settled(c)'
    BY <1>1, <2>5 DEF Settled, Live
  <2> QED
    BY <1>5, <2>3, <2>4, <2>6
<1> QED
  BY <1>7, <1>8

-----------------------------------------------------------------------------
(* Coherent is an invariant *)

LEMMA InitCoherent == Init => Coherent
<1> SUFFICES ASSUME Init
             PROVE  Coherent
  OBVIOUS
<1>1. TypeOK
  BY BoundsAssumption DEF Init, TypeOK, NoWindow, CombatWindow
<1>2. FreshIds
  BY DEF Init, FreshIds
<1>3. \A c \in Characters : Settled(c)
  BY DEF Init, Settled, Here
<1> QED
  BY <1>1, <1>2, <1>3 DEF Coherent

\* The fight a packet of a character reaches is its own.
LEMMA OwnFightFacts ==
    ASSUME Coherent, NEW c \in Characters, CanSubmit(c)
    PROVE  /\ OwnFight(c) \in FightIds
           /\ Live(OwnFight(c))
           /\ combats[OwnFight(c)].owner = c
  BY DEF Coherent, TypeOK, CanSubmit, OwnFight, Settled

LEMMA NextCoherent == Coherent /\ [Next]_vars => Coherent'
<1> SUFFICES ASSUME Coherent, [Next]_vars
             PROVE  Coherent'
  OBVIOUS
<1> USE DEF Coherent
<1>1. nextCombatId \in Nat /\ nextCombatId + 1 >= nextCombatId
  BY BoundsAssumption DEF TypeOK
<1>2. ASSUME NEW c \in Characters, StartFight(c)
      PROVE  Coherent'
  BY <1>2, StartCoherent
<1>3. ASSUME NEW c \in Characters, StartDecidedFight(c)
      PROVE  Coherent'
  <2>1. /\ CanStart(c)
        /\ nextCombatId' = nextCombatId + 1
        /\ queued' = queued
    BY <1>3 DEF StartDecidedFight
  <2>2. PICK result \in Results, h \in Hp :
          \E final \in HpAfterRewards(result, h) : Finish(nextCombatId, c, final)
    BY <1>3 DEF StartDecidedFight
  <2>3. PICK final \in HpAfterRewards(result, h) : Finish(nextCombatId, c, final)
    BY <2>2
  <2>4. final \in Hp /\ nextCombatId \in FightIds /\ nextCombatId' \in 1 .. MaxFights + 1
    BY <2>1, <2>3, RewardFacts, BoundsAssumption DEF CanStart, TypeOK, FightIds
  <2>5. StretchTyped /\ FreshIds' /\ \A d \in Characters : Settled(d)'
    BY <1>1, <2>1, <2>3, <2>4, EndCoherent
  <2> QED
    BY <2>1, <2>4, <2>5 DEF TypeOK, StretchTyped
<1>4. ASSUME NEW c \in Characters, RejectAction(c)
      PROVE  Coherent'
  <2> DEFINE f == OwnFight(c)
  <2>1. f \in FightIds /\ combats[f] \in ActiveCombat
    BY <1>4, OwnFightFacts, FightFacts DEF RejectAction
  <2>2. [combats[f] EXCEPT !.timer = "none"] \in ActiveCombat
    BY <2>1 DEF ActiveCombat
  <2>3. combats' = [combats EXCEPT ![f] = [combats[f] EXCEPT !.timer = "none"]]
    BY <1>4 DEF RejectAction
  <2>4. combats' \in [FightIds -> ActiveCombat \cup {Gone}]
    BY <2>2, <2>3 DEF TypeOK
  <2>5. \A g \in FightIds : Untouched(g)
    BY <2>1, <2>2, <2>3, GoneAssumption DEF Untouched, Live, TypeOK, ActiveCombat
  <2> QED
    BY <1>4, <2>4, <2>5, TimerCoherent DEF RejectAction, TypeOK
<1>5. ASSUME NEW c \in Characters, SubmitAction(c)
      PROVE  Coherent'
  <2>1. OwnFight(c) \in FightIds /\ Live(OwnFight(c))
    BY <1>5, OwnFightFacts DEF SubmitAction
  <2>2. queued' \in [FightIds -> {"none", "due", "stale"}]
    BY <1>5, <2>1 DEF SubmitAction, Overtaken, TypeOK
  <2>3. nextCombatId' = nextCombatId
    BY <1>5 DEF SubmitAction
  <2>4. StretchTyped /\ FreshIds' /\ \A d \in Characters : Settled(d)'
    BY <1>5, <2>1, <2>3, TurnCoherent DEF SubmitAction
  <2> QED
    BY <2>2, <2>3, <2>4 DEF TypeOK, StretchTyped
<1>6. ASSUME NEW c \in Characters, ForceEndCombat(c)
      PROVE  Coherent'
  <2>1. /\ OwnFight(c) \in FightIds
        /\ Live(OwnFight(c))
        /\ combats[OwnFight(c)].owner = c
        /\ players[c].hp \in Hp
    BY <1>6, OwnFightFacts, PlayerFacts DEF ForceEndCombat, CanSubmit
  <2>2. Finish(OwnFight(c), c, players[c].hp) /\ queued' = queued
          /\ nextCombatId' = nextCombatId
    BY <1>6, <2>1 DEF ForceEndCombat
  <2>3. StretchTyped /\ FreshIds' /\ \A d \in Characters : Settled(d)'
    BY <1>1, <2>1, <2>2, EndCoherent
  <2> QED
    BY <2>2, <2>3 DEF TypeOK, StretchTyped
<1>7. ASSUME NEW c \in Characters, Enter(c) \/ Leave(c)
      PROVE  Coherent'
  BY <1>7, ComeAndGoCoherent
<1>8. ASSUME NEW f \in FightIds, TimerExpires(f)
      PROVE  Coherent'
  <2>1. combats[f] \in ActiveCombat
    BY <1>8, FightFacts DEF TimerExpires
  <2>2. [combats[f] EXCEPT !.timer = "none"] \in ActiveCombat
    BY <2>1 DEF ActiveCombat
  <2>3. /\ combats' = [combats EXCEPT ![f] = [combats[f] EXCEPT !.timer = "none"]]
        /\ queued' = [queued EXCEPT ![f] = "due"]
    BY <1>8 DEF TimerExpires
  <2>4. /\ combats' \in [FightIds -> ActiveCombat \cup {Gone}]
        /\ queued' \in [FightIds -> {"none", "due", "stale"}]
    BY <2>2, <2>3 DEF TypeOK
  <2>5. \A g \in FightIds : Untouched(g)
    BY <2>1, <2>2, <2>3, GoneAssumption DEF Untouched, Live, TypeOK, ActiveCombat
  <2> QED
    BY <1>8, <2>4, <2>5, TimerCoherent DEF TimerExpires
<1>9. ASSUME NEW f \in FightIds, TurnTimesOut(f)
      PROVE  Coherent'
  <2>1. queued' \in [FightIds -> {"none", "due", "stale"}]
    BY <1>9 DEF TurnTimesOut, TypeOK
  <2>2. nextCombatId' = nextCombatId
    BY <1>9 DEF TurnTimesOut
  <2>3. StretchTyped /\ FreshIds' /\ \A d \in Characters : Settled(d)'
    BY <1>9, <2>2, TurnCoherent DEF TurnTimesOut
  <2> QED
    BY <2>1, <2>2, <2>3 DEF TypeOK, StretchTyped
<1>10. ASSUME NEW f \in FightIds, LateTimeout(f)
       PROVE  Coherent'
  <2>1. \A g \in FightIds : Untouched(g)
    BY <1>10 DEF LateTimeout, Untouched, Live
  <2>2. queued' \in [FightIds -> {"none", "due", "stale"}]
    BY <1>10 DEF LateTimeout, TypeOK
  <2> QED
    BY <1>10, <2>1, <2>2, TimerCoherent DEF LateTimeout, TypeOK
<1>11. CASE UNCHANGED vars
  <2>1. \A g \in FightIds : Untouched(g)
    BY <1>11 DEF vars, Untouched, Live
  <2> QED
    BY <1>11, <2>1, TimerCoherent DEF vars, TypeOK
<1> QED
  BY <1>2, <1>3, <1>4, <1>5, <1>6, <1>7, <1>8, <1>9, <1>10, <1>11 DEF Next, Timers

\* Coherent holds throughout every behaviour of a zone server.
THEOREM AlwaysCoherent == Spec => []Coherent
<1>1. Init => Coherent
  BY InitCoherent
<1>2. Coherent /\ [Next]_vars => Coherent'
  BY NextCoherent
<1> QED
  BY <1>1, <1>2, PTL DEF Spec
-----------------------------------------------------------------------------
(* What follows from it *)

\* Every variable keeps its type, for any number of characters and fights.
THEOREM TypeCorrect == Spec => []TypeOK
<1>1. Coherent => TypeOK
  BY DEF Coherent
<1> QED
  BY <1>1, AlwaysCoherent, PTL

\* The flag that bars a player from his equipment, from portals and from
\* meditation never outlives the fight it was set for (finishCombat).
THEOREM FlagsAreTrue == Spec => []FlaggedMeansFighting
<1>1. Coherent => FlaggedMeansFighting
  <2> SUFFICES ASSUME Coherent, NEW c \in Characters, Here(c), players[c].inCombat
               PROVE  /\ players[c].combatId \in FightIds
                      /\ characterCombatIds[c] = players[c].combatId
                      /\ players[c].combatId \in LiveFightsOf(c)
    BY DEF FlaggedMeansFighting
  <2> QED
    BY DEF Coherent, Settled, LiveFightsOf
<1> QED
  BY <1>1, AlwaysCoherent, PTL

\* Between two handlers of a zone server the database is never behind
\* (syncAllParticipants, finishCombat, evictPlayerForConnection).
THEOREM TheDatabaseIsCurrent == Spec => []NothingUnsaved
<1>1. Coherent => NothingUnsaved
  BY DEF Coherent, Settled, NothingUnsaved
<1> QED
  BY <1>1, AlwaysCoherent, PTL

\* A character no old fight follows is in one fight at most, and has the same
\* hit points inside and outside of it (tryStartSpawnCombat, finishCombat).
THEOREM FightsAreApart == Spec => []OneFightAtATime
<1>1. Coherent => OneFightAtATime
  BY DEF Coherent, Settled, OneFightAtATime
<1> QED
  BY <1>1, AlwaysCoherent, PTL

\* The client of such a character shows a fight exactly while the server has
\* one for it (CombatStart, CombatUpdate, CombatEnd).
THEOREM TheWindowIsTrue == Spec => []WindowShowsTheFight
<1>1. Coherent => WindowShowsTheFight
  BY DEF Coherent, Settled, WindowShowsTheFight
<1> QED
  BY <1>1, AlwaysCoherent, PTL

\* A turn of one character's fight leaves the other characters alone.
LEMMA TurnHurtsItsOwner ==
    ASSUME Coherent, NEW f \in FightIds, Live(f), TurnIsTaken(f),
           NEW d \in Characters, players'[d] # players[d]
    PROVE  LiveFightsOf(d) # {}
<1> DEFINE c == combats[f].owner
<1>1. c \in Characters /\ f \in LiveFightsOf(c)
  BY FightFacts DEF Coherent, LiveFightsOf
<1>2. PICK h : GoOn(f, c, h) \/ Finish(f, c, h)
  BY DEF TurnIsTaken
<1>3. d = c
  BY <1>2 DEF GoOn, Finish, Left, Coherent, TypeOK
<1> QED
  BY <1>1, <1>3

\* What a fight does to a character's hit points it does while it lasts: a
\* timeout that comes late hurts nobody (onTurnTimeout).
THEOREM LateTimeoutsHurtNobody == Spec => OnlyLiveFightsHurt
<1> DEFINE Hurt(c) == Here(c) /\ players'[c] # Gone /\ players'[c].hp # players[c].hp
           Allowed(c) == LiveFightsOf(c) # {} \/ nextCombatId' # nextCombatId
<1>1. Coherent /\ [Next]_vars => [\A c \in Characters : Hurt(c) => Allowed(c)]_vars
  <2> SUFFICES ASSUME Coherent, [Next]_vars, NEW d \in Characters, Hurt(d)
               PROVE  Allowed(d)
    OBVIOUS
  <2>1. players'[d] # players[d] /\ nextCombatId \in Nat
    BY BoundsAssumption DEF Coherent, TypeOK
  <2>2. ASSUME NEW c \in Characters, StartFight(c) \/ StartDecidedFight(c)
        PROVE  Allowed(d)
    BY <2>1, <2>2 DEF StartFight, StartDecidedFight
  <2>3. ASSUME NEW c \in Characters, SubmitAction(c)
        PROVE  Allowed(d)
    BY <2>1, <2>3, OwnFightFacts, TurnHurtsItsOwner DEF SubmitAction
  <2>4. ASSUME NEW c \in Characters, ForceEndCombat(c)
        PROVE  Allowed(d)
    <3>1. /\ OwnFight(c) \in LiveFightsOf(c)
          /\ Finish(OwnFight(c), c, players[c].hp)
      BY <2>4, OwnFightFacts DEF ForceEndCombat, LiveFightsOf
    <3>2. d = c
      BY <2>1, <3>1 DEF Finish, Left, Coherent, TypeOK
    <3> QED
      BY <3>1, <3>2
  <2>5. ASSUME NEW c \in Characters, Enter(c)
        PROVE  Allowed(d)
    <3>1. players' = [players EXCEPT ![c] =
                          [hp |-> saved[c], inCombat |-> FALSE, combatId |-> 0]]
      BY <2>5 DEF Enter
    <3>2. d = c
      BY <2>1, <3>1 DEF Coherent, TypeOK
    <3>3. players'[d].hp = saved[d]
      BY <3>1, <3>2 DEF Coherent, TypeOK
    <3>4. players[d].hp = saved[d]
      BY DEF Coherent, Settled
    <3> QED
      BY <3>3, <3>4
  <2>6. ASSUME NEW c \in Characters, Leave(c)
        PROVE  Allowed(d)
    BY <2>1, <2>6 DEF Leave, Coherent, TypeOK
  <2>7. ASSUME NEW f \in FightIds, TurnTimesOut(f)
        PROVE  Allowed(d)
    BY <2>1, <2>7, TurnHurtsItsOwner DEF TurnTimesOut
  <2>8. players' # players
    BY <2>1
  <2> QED
    BY <2>2, <2>3, <2>4, <2>5, <2>6, <2>7, <2>8
       DEF Next, Timers, vars, RejectAction, TimerExpires, LateTimeout
<1> QED
  BY <1>1, AlwaysCoherent, PTL DEF Spec, OnlyLiveFightsHurt
=============================================================================
