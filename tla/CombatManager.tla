--------------------------- MODULE CombatManager ---------------------------
(***************************************************************************)
(* The fights of one zone server and the players in them: the class        *)
(* CombatManager (server/zone/combat), the entries and exits of            *)
(* ZoneServer that create and destroy the players it looks up, the turn    *)
(* timers of asio, and the combat window of the client.                    *)
(*                                                                         *)
(* A fight belongs to the one human in it.  beginTurn plays mobs and AI    *)
(* companions at once, in the call that ended the human's turn, so between *)
(* two events of the io_context a fight that goes on waits for its human;  *)
(* that its turn holder is alive is TurnHolderAlive of CombatInstance,     *)
(* whose Rotation this module takes one human turn at a time.  Companions  *)
(* never submit and nobody asks whether one is in combat, so their rows of *)
(* characterCombatIds_ are left out.  The debug commands that kill, spawn   *)
(* or end a fight are left out: they exist in --dev-mode only.             *)
(*                                                                         *)
(* Of a character's state only the hit points are kept: they stand for     *)
(* everything syncPlayerFromParticipant copies and persistState_ saves.    *)
(***************************************************************************)
EXTENDS Integers, FiniteSets

CONSTANTS
    Characters,     \* human characters
    MaxHp,          \* full hit points of every character
    MaxFights,      \* bound of this model: fights started in all
    Gone            \* neither a player nor a fight: no entry in that map

FightIds == 1 .. MaxFights

ASSUME BoundsAssumption ==
    /\ MaxHp \in Nat \ {0}
    /\ MaxFights \in Nat \ {0}

VARIABLES
    players,        \* players_: character -> PlayerEntity
    saved,          \* character -> hit points in the database
    characterCombatIds, \* character -> fight, 0 for no entry
    combats,        \* combats_: fight -> ActiveCombat
    queued,         \* fight -> timeout handler the timer has put in the queue
    nextCombatId,   \* nextCombatId_
    window,         \* character -> CombatWindow of the client playing it
    haunted         \* history: it came back while a fight it had left goes on

vars == <<players, saved, characterCombatIds, combats, queued, nextCombatId,
          window, haunted>>

Hp == 0 .. MaxHp

PlayerEntity == [hp : Hp, inCombat : BOOLEAN, combatId : FightIds \cup {0}]
ActiveCombat == [owner : Characters, hp : Hp, timer : {"none", "armed"}]
CombatWindow == [active : BOOLEAN, combatId : FightIds \cup {0}]
NoWindow     == [active |-> FALSE, combatId |-> 0]

ASSUME GoneAssumption == Gone \notin PlayerEntity \cup ActiveCombat

Here(c) == players[c] # Gone
Live(f) == combats[f] # Gone

LiveFightsOf(c) == {f \in FightIds : Live(f) /\ combats[f].owner = c}
-----------------------------------------------------------------------------
(* One stretch of a fight: a human turn, or the start, and all the turns of *)
(* mobs and companions up to the next human turn or the end                *)

Results == {"goes_on", "victory", "defeat", "fled"}

\* What a stretch may come to for a fighter with old hit points: a human whose
\* turn comes is alive, so he has hit points unless he came with none; one who
\* has fallen may still see his companions win or run.
Possible(result, old, new) ==
    /\ result = "goes_on" => new > 0 \/ new = old
    /\ result = "defeat" => new = 0

\* Slip: a level adds hit points and forgets the maximum.
HpAfterRewards_Adds(result, h) == IF result = "victory" THEN {h, h + 1} ELSE {h}

\* Hit points after the rewards of a victory: a level gained restores them.
HpAfterRewards(result, h) == IF result = "victory" THEN {h, MaxHp} ELSE {h}

\* Slip: the flags of the player survive the fight.
Left_KeepsFlag(c, h) == [players EXCEPT ![c].hp = h]

\* finishCombat for the player, if findPlayer_ still finds one.
Left(c, h) ==
    [players EXCEPT ![c] = [hp |-> h, inCombat |-> FALSE, combatId |-> 0]]

\* finishCombat: whoever owned the fight is cleared, whatever else the
\* character has begun meanwhile.
Finish(f, c, h) ==
    /\ combats' = [combats EXCEPT ![f] = Gone]
    /\ characterCombatIds' = [characterCombatIds EXCEPT ![c] = 0]
    /\ IF Here(c)
       THEN /\ players' = Left(c, h)
            /\ saved' = [saved EXCEPT ![c] = h]
            /\ window' = [window EXCEPT ![c].active = FALSE]
            /\ haunted' = [haunted EXCEPT ![c] = @ /\ LiveFightsOf(c) \ {f} # {}]
       ELSE UNCHANGED <<players, saved, window, haunted>>

\* Slip: the wounds of a turn reach the player but not the database.
GoOn_Unsaved(f, c, h) ==
    /\ combats' = [combats EXCEPT ![f] = [owner |-> c, hp |-> h, timer |-> "armed"]]
    /\ IF Here(c)
       THEN /\ players' = [players EXCEPT ![c].hp = h]
            /\ window' = [window EXCEPT ![c].combatId = f]
       ELSE UNCHANGED <<players, window>>
    /\ UNCHANGED <<saved, characterCombatIds, haunted>>

\* syncAllParticipants and beginTurn for the human's next turn: a fresh timer
\* replaces the old one, CombatUpdate reaches whoever plays the character now.
GoOn(f, c, h) ==
    /\ combats' = [combats EXCEPT ![f] = [owner |-> c, hp |-> h, timer |-> "armed"]]
    /\ IF Here(c)
       THEN /\ players' = [players EXCEPT ![c].hp = h]
            /\ saved' = [saved EXCEPT ![c] = h]
            /\ window' = [window EXCEPT ![c].combatId = f]
       ELSE UNCHANGED <<players, saved, window>>
    /\ UNCHANGED <<characterCombatIds, haunted>>

\* The turn of the fight's human is played, by the human or by default.
TurnIsTaken(f) ==
    LET c == combats[f].owner
    IN  \E result \in Results, h \in Hp :
          /\ Possible(result, combats[f].hp, h)
          /\ IF result = "goes_on"
             THEN GoOn(f, c, h)
             ELSE \E final \in HpAfterRewards(result, h) : Finish(f, c, final)
-----------------------------------------------------------------------------
(* Starting a fight *)

\* Slip: the flag is not looked at.
CanStart_Again(c) == Here(c) /\ nextCombatId <= MaxFights

\* tryAggro and tryStartSpawnCombat.
CanStart(c) ==
    /\ Here(c)
    /\ ~players[c].inCombat
    /\ nextCombatId <= MaxFights

\* startDebugCombat for the mobs of a spawn: the fight is registered, announced
\* and played up to the first turn of the human.
StartFight(c) ==
    /\ CanStart(c)
    /\ nextCombatId' = nextCombatId + 1
    /\ \E h \in Hp :
         /\ Possible("goes_on", players[c].hp, h)
         /\ combats' = [combats EXCEPT ![nextCombatId] =
                            [owner |-> c, hp |-> h, timer |-> "armed"]]
         /\ players' = [players EXCEPT ![c] =
                            [hp |-> h, inCombat |-> TRUE, combatId |-> nextCombatId]]
         /\ saved' = [saved EXCEPT ![c] = h]
    /\ characterCombatIds' = [characterCombatIds EXCEPT ![c] = nextCombatId]
    /\ window' = [window EXCEPT ![c] = [active |-> TRUE, combatId |-> nextCombatId]]
    /\ UNCHANGED <<queued, haunted>>

\* The same when mobs and companions decide the fight before the human's turn.
StartDecidedFight(c) ==
    /\ CanStart(c)
    /\ nextCombatId' = nextCombatId + 1
    /\ \E result \in Results \ {"goes_on"}, h \in Hp :
         /\ Possible(result, players[c].hp, h)
         /\ \E final \in HpAfterRewards(result, h) : Finish(nextCombatId, c, final)
    /\ UNCHANGED queued
-----------------------------------------------------------------------------
(* SubmitAction packets *)

\* The fight submitAction works on; it refuses a packet naming another one.
OwnFight(c) == characterCombatIds[c]

CanSubmit(c) == Here(c) /\ OwnFight(c) # 0 /\ Live(OwnFight(c))

\* submitAction cancels and drops the timer before it looks at the intent, and
\* a refused intent leaves the turn without one.
RejectAction(c) ==
    /\ CanSubmit(c)
    /\ combats' = [combats EXCEPT ![OwnFight(c)].timer = "none"]
    /\ UNCHANGED <<players, saved, characterCombatIds, queued, nextCombatId,
                   window, haunted>>

\* cancel() cannot recall a handler that the timer has already queued.
Overtaken(f) == IF queued[f] = "due" THEN "stale" ELSE queued[f]

SubmitAction(c) ==
    /\ CanSubmit(c)
    /\ queued' = [queued EXCEPT ![OwnFight(c)] = Overtaken(OwnFight(c))]
    /\ TurnIsTaken(OwnFight(c))
    /\ UNCHANGED nextCombatId

\* The /stuck command: forceEndCombat finishes the fight as it stands, without
\* an outcome.
ForceEndCombat(c) ==
    /\ CanSubmit(c)
    /\ Finish(OwnFight(c), combats[OwnFight(c)].owner, players[c].hp)
    /\ UNCHANGED <<queued, nextCombatId>>
-----------------------------------------------------------------------------
(* Turn timers *)

\* A turn's timer expires and its handler enters the queue of the io_context.
\* Thirty seconds are long enough for an earlier handler to have run.
TimerExpires(f) ==
    /\ Live(f)
    /\ combats[f].timer = "armed"
    /\ queued[f] = "none"
    /\ combats' = [combats EXCEPT ![f].timer = "none"]
    /\ queued' = [queued EXCEPT ![f] = "due"]
    /\ UNCHANGED <<players, saved, characterCombatIds, nextCombatId, window, haunted>>

\* onTurnTimeout of a fight that is still in combats_: the turn it waits for is
\* that of the same human, whichever turn the timer was meant for.
TurnTimesOut(f) ==
    /\ queued[f] # "none"
    /\ Live(f)
    /\ queued' = [queued EXCEPT ![f] = "none"]
    /\ TurnIsTaken(f)
    /\ UNCHANGED nextCombatId

\* Slip: the fight goes by the copy of it the handler kept.
LateTimeout_Plays(f) ==
    /\ queued[f] # "none"
    /\ ~Live(f)
    /\ queued' = [queued EXCEPT ![f] = "none"]
    /\ \E c \in Characters : Here(c) /\ Finish(f, c, 0)
    /\ UNCHANGED nextCombatId

\* onTurnTimeout of a fight that has ended.
LateTimeout(f) ==
    /\ queued[f] # "none"
    /\ ~Live(f)
    /\ queued' = [queued EXCEPT ![f] = "none"]
    /\ UNCHANGED <<players, saved, characterCombatIds, combats, nextCombatId,
                   window, haunted>>
-----------------------------------------------------------------------------
(* Players come and go *)

\* handlePlayerEnterPrepare, LoadCharacterResponse and handleSessionResume: a
\* new entity from the saved state replaces the one there may be.  CombatManager
\* is not told.  The row is read here at the moment of entry; in the code it was read
\* before, and what may have been saved since is up to ZoneHandoff (run overwrite).
Enter(c) ==
    /\ players' = [players EXCEPT ![c] = [hp |-> saved[c], inCombat |-> FALSE, combatId |-> 0]]
    /\ window' = [window EXCEPT ![c] = NoWindow]
    /\ haunted' = [haunted EXCEPT ![c] = LiveFightsOf(c) # {}]
    /\ UNCHANGED <<saved, characterCombatIds, combats, queued, nextCombatId>>

\* evictPlayerForConnection and removePlayer: the connection closes, the client
\* ends its session or its transfer is authorized.  The fight goes on.
Leave(c) ==
    /\ Here(c)
    /\ saved' = [saved EXCEPT ![c] = players[c].hp]
    /\ players' = [players EXCEPT ![c] = Gone]
    /\ window' = [window EXCEPT ![c] = NoWindow]
    /\ UNCHANGED <<characterCombatIds, combats, queued, nextCombatId, haunted>>
-----------------------------------------------------------------------------
(* Specification *)

Init ==
    /\ players = [c \in Characters |-> Gone]
    /\ saved \in [Characters -> Hp]
    /\ characterCombatIds = [c \in Characters |-> 0]
    /\ combats = [f \in FightIds |-> Gone]
    /\ queued = [f \in FightIds |-> "none"]
    /\ nextCombatId = 1
    /\ window = [c \in Characters |-> NoWindow]
    /\ haunted = [c \in Characters |-> FALSE]

Timers == \E f \in FightIds : TimerExpires(f) \/ TurnTimesOut(f) \/ LateTimeout(f)

Next ==
    \/ \E c \in Characters :
         \/ StartFight(c)
         \/ StartDecidedFight(c)
         \/ RejectAction(c)
         \/ SubmitAction(c)
         \/ ForceEndCombat(c)
         \/ Enter(c)
         \/ Leave(c)
    \/ Timers

Spec == Init /\ [][Next]_vars

\* asio runs what is due; players and connections promise nothing.
Fairness ==
    \A f \in FightIds :
        WF_vars(TimerExpires(f)) /\ WF_vars(TurnTimesOut(f) \/ LateTimeout(f))

FairSpec == Spec /\ Fairness
-----------------------------------------------------------------------------
(* Properties *)

\* Every variable has its type.
TypeOK ==
    /\ players \in [Characters -> PlayerEntity \cup {Gone}]
    /\ saved \in [Characters -> Hp]
    /\ characterCombatIds \in [Characters -> FightIds \cup {0}]
    /\ combats \in [FightIds -> ActiveCombat \cup {Gone}]
    /\ queued \in [FightIds -> {"none", "due", "stale"}]
    /\ nextCombatId \in 1 .. MaxFights + 1
    /\ window \in [Characters -> CombatWindow]
    /\ haunted \in [Characters -> BOOLEAN]

\* A player flagged as fighting, who may not change equipment, use a portal or
\* meditate, is in a fight that exists, is his and takes his actions: the flag
\* never outlives the fight.  (startDebugCombat, finishCombat)
FlaggedMeansFighting ==
    \A c \in Characters : Here(c) /\ players[c].inCombat =>
        LET f == players[c].combatId
        IN  /\ f \in FightIds
            /\ characterCombatIds[c] = f
            /\ f \in LiveFightsOf(c)

\* The database is never behind: whenever no handler is running, a crash of the
\* zone server loses no wound and no healing.  (syncAllParticipants,
\* finishCombat, evictPlayerForConnection)
NothingUnsaved ==
    \A c \in Characters : Here(c) => players[c].hp = saved[c]

\* A character no old fight follows is in one fight at most, the fight its flags
\* name, and has the same hit points inside and outside of it.
\* (tryStartSpawnCombat, syncAllParticipants, finishCombat)
OneFightAtATime ==
    \A c \in Characters : Here(c) /\ ~haunted[c] =>
        IF players[c].inCombat
        THEN /\ LiveFightsOf(c) = {players[c].combatId}
             /\ combats[players[c].combatId].hp = players[c].hp
        ELSE LiveFightsOf(c) = {}

\* The client of such a character shows a fight exactly while the server has one
\* for it, and submits to that one.  (CombatStart, CombatUpdate, CombatEnd)
WindowShowsTheFight ==
    \A c \in Characters : Here(c) /\ ~haunted[c] =>
        /\ window[c].active = players[c].inCombat
        /\ window[c].active => window[c].combatId = players[c].combatId

\* Fights change the hit points of a character only while one of his is going
\* on: a timeout that comes late for a fight that has ended hurts nobody.
\* (onTurnTimeout, combats_)
OnlyLiveFightsHurt ==
    [][ \A c \in Characters :
          Here(c) /\ players'[c] # Gone /\ players'[c].hp # players[c].hp
            => LiveFightsOf(c) # {} \/ nextCombatId' # nextCombatId ]_vars

\* The default action is submitted for turns that have timed out, after thirty
\* seconds (docs/combat-system.md), and for no others.
OnlyIdleTurnsTimeOut ==
    [][ \A f \in FightIds :
          Live(f) /\ queued[f] = "stale" /\ queued'[f] = "none"
            => combats'[f] = combats[f] ]_vars
=============================================================================
