---------------------------- MODULE TurnRotation ----------------------------
(***************************************************************************)
(* What a fight promises to whoever runs it, with all of its rules left    *)
(* out: the participants act one at a time in a fixed order that skips the *)
(* fallen, each turn may fell one opponent, and the fight is decided in    *)
(* the very step in which the last member of a side falls.                 *)
(*                                                                         *)
(* It abstracts the interface CombatManager uses: currentActor,            *)
(* submitAction and outcome of tbeq::combat::CombatInstance.               *)
(***************************************************************************)
EXTENDS Integers, Sequences

CONSTANTS
    Players, Enemies,   \* the two sides, disjoint and not empty
    NumSlots            \* how many participants there are in all

VARIABLES
    standing,   \* participants still alive
    turnOrder,  \* initiative order, empty until it is rolled
    turn,       \* position of the participant whose turn it is
    outcome,    \* in_progress, victory, defeat or fled
    held        \* whose turn it is may take for ever over it

rvars == <<standing, turnOrder, turn, outcome, held>>

Everyone == Players \cup Enemies

Holder == turnOrder[turn]

Opponents(s) == IF s \in Players THEN Enemies ELSE Players

Orders ==
    { o \in [1 .. NumSlots -> Everyone] :
        \A i, j \in 1 .. NumSlots : o[i] = o[j] => i = j }

\* Decided as soon as one side has nobody left.
Decision(left) ==
    IF left \cap Players = {} THEN "defeat"
    ELSE IF left \cap Enemies = {} THEN "victory"
    ELSE "in_progress"

\* Steps from the current position to position i, the current one coming last.
StepsTo(i) == IF i > turn THEN i - turn ELSE i - turn + Len(turnOrder)

NextStanding(i, left) ==
    /\ turnOrder[i] \in left
    /\ \A j \in DOMAIN turnOrder :
           turnOrder[j] \in left => StepsTo(i) <= StepsTo(j)

InPlay == turnOrder # <<>> /\ outcome = "in_progress"

Init ==
    /\ standing = Everyone
    /\ turnOrder = <<>>
    /\ turn = 1
    /\ outcome = "in_progress"
    /\ held = FALSE

Roll ==
    /\ turnOrder = <<>>
    /\ turnOrder' \in Orders
    /\ UNCHANGED <<standing, turn, outcome, held>>

\* The holder acts: nobody falls, or one opponent does, and either the fight
\* is decided or the turn goes to the next one standing.
TakeTurn ==
    /\ InPlay
    /\ Holder \in standing
    /\ \/ standing' = standing
       \/ \E victim \in Opponents(Holder) \cap standing : standing' = standing \ {victim}
    /\ outcome' = Decision(standing')
    /\ IF outcome' = "in_progress"
       THEN \E i \in DOMAIN turnOrder : NextStanding(i, standing') /\ turn' = i
       ELSE turn' = turn
    /\ held' = FALSE
    /\ UNCHANGED turnOrder

\* One player's escape ends the fight for the whole party.
Escape ==
    /\ InPlay
    /\ Holder \in standing \cap Players
    /\ outcome' = "fled"
    /\ held' = FALSE
    /\ UNCHANGED <<standing, turnOrder, turn>>

\* A player attempts what is not allowed, and keeps the turn.
Balk ==
    /\ InPlay
    /\ Holder \in standing \cap Players
    /\ held' = TRUE
    /\ UNCHANGED <<standing, turnOrder, turn, outcome>>

Next == Roll \/ TakeTurn \/ Escape \/ Balk

Spec == Init /\ [][Next]_rvars

\* The runner of a fight rolls initiative at once, and takes the turn of whoever does not,
\* but for a player who has balked.
FairSpec == Spec /\ WF_rvars(Roll) /\ WF_rvars(~ held /\ (TakeTurn \/ Escape))
-----------------------------------------------------------------------------
(* Properties *)

\* Unless a player who has balked holds up the fight for ever, everybody who keeps standing
\* gets to act again and again until it is decided, however the others play.
EveryoneGetsATurn ==
    \/ <>[]held
    \/ \A s \in Everyone :
          []<>(outcome # "in_progress" \/ s \notin standing \/ (InPlay /\ Holder = s))
=============================================================================
