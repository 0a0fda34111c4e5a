----------------------------- MODULE CombatTurns -----------------------------
(***************************************************************************)
(* How the zone server runs one fight: beginTurn and the three ways in     *)
(* which CombatManager (server/zone/combat/CombatManager.cpp) comes to     *)
(* submit an action to it, and the timer that stands in for a human.       *)
(*                                                                         *)
(* One participant is human, the owner, who is added first; the others of  *)
(* its side are its companions.                                            *)
(***************************************************************************)
EXTENDS CombatInstance

VARIABLE timer      \* turnTimer runs, and will play for the human in the end

turnsVars == <<vars, timer>>

Human == 1

HumansTurn == turnOrder # <<>> /\ Actor = Human
OthersTurn == turnOrder # <<>> /\ Actor # Human

\* Slip: the timer of a turn is not for the next one.
BeginTurn_FirstOnly == timer' = (turnOrder = <<>> /\ Actor' = Human)

\* beginTurn: a human who has the turn of an undecided fight is given half a minute.
BeginTurn == timer' = (outcome' = "in_progress" /\ Actor' = Human)

\* startDebugCombat
BeginFight == RollInitiative /\ BeginTurn

\* resolveAiCompanionTurn and resolveEnemyTurn, in the call that gave them the turn. An
\* intent of theirs that is refused becomes a Defend.
PlayOthers == OthersTurn /\ Act /\ BeginTurn

\* submitAction of CombatManager, with an intent that the fight takes. A timeout that was
\* queued before it came and plays after it (run race, of CombatManager) plays such an
\* intent, too.
SubmitAction == HumansTurn /\ Act /\ BeginTurn

\* And with one that it refuses: the timer has been dropped by then, and nobody sets it again.
RefuseIntent == HumansTurn /\ RejectIntent /\ timer' = FALSE

\* defaultPlayerAction: a blow, if there is anybody to strike.
DefaultAction ==
    IF \E t \in Foes(Actor) : alive[t] THEN MeleeMisses \/ MeleeHits ELSE Defend

\* onTurnTimeout
TurnTimesOut == HumansTurn /\ timer /\ DefaultAction /\ BeginTurn
-----------------------------------------------------------------------------
TurnsInit == Init /\ timer = FALSE

TurnsNext == BeginFight \/ PlayOthers \/ SubmitAction \/ RefuseIntent \/ TurnTimesOut

TurnsSpec == TurnsInit /\ [][TurnsNext]_turnsVars

\* Initiative is rolled and mobs and companions are played in calls that do not wait, and
\* asio runs a timer that is due. The human promises nothing.
Fairness ==
    /\ WF_turnsVars(BeginFight)
    /\ WF_turnsVars(PlayOthers)
    /\ WF_turnsVars(TurnTimesOut)

FairSpec == TurnsSpec /\ Fairness
-----------------------------------------------------------------------------
(* Properties *)

\* A refused intent has left the human with a turn and no timer.
Stalled == HumansTurn /\ outcome = "in_progress" /\ ~ timer

\* What a fight promises to who runs it, and that this one keeps it as it is run here, steps
\* and fairness alike: a turn that is not stalled is taken.  (the interface of CombatInstance)
Rotation == INSTANCE TurnRotation WITH standing <- {s \in Slots : alive[s]}, held <- Stalled

ImplementsRotation == Rotation!FairSpec

\* Unless the fight is stalled for ever, everybody who stays alive gets to act again and
\* again until it is decided, however the others play.  (advanceTurn, beginTurn)
EveryoneGetsATurn == Rotation!EveryoneGetsATurn
=============================================================================
