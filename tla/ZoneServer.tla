------------------------------ MODULE ZoneServer ------------------------------
(***************************************************************************)
(* The world of one zone as its server keeps it: the players and where     *)
(* they stand, the companions that follow them, the spawns of mobs that    *)
(* attack whoever comes near, and the snapshots of all this that every     *)
(* step sends to every player (server/zone/ZoneServer.cpp).                *)
(*                                                                         *)
(* Each operator below is the handler of one client packet, and changes    *)
(* the state of the server and what is on its way to the clients.  The     *)
(* modules that say who calls them are ZoneClient, for the packets of a    *)
(* client, and ZoneHandoff, for those of WorldLogin, of which this one     *)
(* keeps only that a player comes in, is let go, and hears where to go.    *)
(*                                                                         *)
(* The zone is a row of tiles.  What a fight is made of is CombatInstance  *)
(* and CombatManager; here it begins and ends, and can outlive the visit   *)
(* of its player.                                                          *)
(***************************************************************************)
EXTENDS Integers, Sequences, FiniteSets

CONSTANTS
    Players,        \* characters, and the clients that play them
    None,
    LastTile,       \* the tiles of the zone are 0 .. LastTile
    Walls,          \* those that are not walkable
    EntryTile,      \* where a character that comes through a portal stands
    CentreTile,     \* findNearestWalkableTile of the centre
    PortalTile, NpcTile,
    SpawnTile,      \* the tiles of the spawns, in their order
    AggroRadius, SayRadius, NpcRadius,
    MaxFights       \* bound of this model: fights of a player that go on at a time

Tiles  == 0 .. LastTile
Spawns == 1 .. Len(SpawnTile)

ASSUME TilesAssumption ==
    /\ LastTile \in Nat
    /\ Walls \subseteq Tiles
    /\ {EntryTile, CentreTile, PortalTile} \subseteq Tiles \ Walls
    /\ NpcTile \in Tiles
    /\ SpawnTile \in Seq(Tiles)
ASSUME RadiiAssumption ==
    AggroRadius \in Nat /\ SayRadius \in Nat /\ NpcRadius \in Nat /\ MaxFights \in Nat
ASSUME NoneAssumption ==
    /\ None \notin Tiles
    /\ None \notin [tile : Tiles, inCombat : BOOLEAN, connected : BOOLEAN]

VARIABLES
    players,        \* player -> its PlayerEntity, or None
    saved,          \* player -> the tile in its row
    companion,      \* player -> the tile of its AiPartyMember, or None
    spawns,         \* spawn -> "active", "dead", or "due" once respawnAtUnix is past
    fights,         \* player -> fights that have it among their players
    mapped,         \* players with an entry in characterCombatIds_
    transfers,      \* players with an entry in pendingTransfers_ whose connection is open;
                    \* one whose connection is closed speaks to nobody and is as good as none
    hangups,        \* players whose connection is closed, and the zone has not noticed
    wire            \* player -> packets on their way to its client

zone == <<players, saved, companion, spawns, fights, mapped, transfers, hangups>>

Entity(tile) == [tile |-> tile, inCombat |-> FALSE, connected |-> FALSE]

Distance(a, b) == IF a < b THEN b - a ELSE a - b

\* findPlayerByConnection: the entity that is bound to the connection of the client.
IsHere(p) == players[p] # None /\ players[p].connected
-----------------------------------------------------------------------------
(* What is sent *)

\* buildEntitySnapshot: players, connected or not, companions, and the spawns that live.
Shown(inside, pets, mobs) ==
    {<<"player", p, inside[p].tile>> : p \in {q \in Players : inside[q] # None}}
        \cup {<<"companion", p, pets[p]>> : p \in {q \in Players : pets[q] # None}}
        \cup {<<"spawn", s, SpawnTile[s]>> : s \in {r \in Spawns : mobs[r] = "active"}}

Snapshot(shown) == [kind |-> "EntitySnapshot", shown |-> shown]

\* A packet for a closed connection is lost, and so is one for nobody.
Reachable(inside, p) == inside[p] # None /\ inside[p].connected /\ p \notin hangups

\* The same snapshot twice in a row counts once: applying it again changes nothing.
Post(queue, packet) ==
    IF packet.kind = "EntitySnapshot" /\ queue # <<>> /\ queue[Len(queue)] = packet
    THEN queue ELSE Append(queue, packet)

Send(out, inside, p, packet) ==
    IF Reachable(inside, p) THEN [out EXCEPT ![p] = Post(@, packet)] ELSE out

\* broadcastEntitySnapshot
Broadcast(out, inside, pets, mobs) ==
    LET packet == Snapshot(Shown(inside, pets, mobs))
    IN  [p \in Players |-> IF Reachable(inside, p) THEN Post(out[p], packet) ELSE out[p]]

\* An answer that is still unread when its client asks again is one to an earlier question.
Answer(kind, ok, tile) == [kind |-> kind, ok |-> ok, tile |-> tile, late |-> FALSE]

IsAnswer(packet) == "late" \in DOMAIN packet

Aged(queue) ==
    [i \in DOMAIN queue |->
        IF IsAnswer(queue[i]) THEN [queue[i] EXCEPT !.late = TRUE] ELSE queue[i]]

\* What a client that asks has on its way to it, before its answer.
Asked(p) == [wire EXCEPT ![p] = Aged(@)]

\* The answer goes to the connection that asked, whether it has a player or not.
Replied(out, p, packet) == [out EXCEPT ![p] = Append(@, packet)]

JustReply(p, packet) ==
    /\ wire' = Replied(Asked(p), p, packet)
    /\ UNCHANGED zone
-----------------------------------------------------------------------------
(* Fights *)

\* updateSpawnRespawns
Respawned == [s \in Spawns |-> IF spawns[s] = "due" THEN "active" ELSE spawns[s]]

\* tryAggro: the first of the spawns that live within the radius, if the player is free.
Attacker(p, tile, mobs) ==
    LET near == {s \in Spawns : mobs[s] = "active" /\ Distance(tile, SpawnTile[s]) <= AggroRadius}
    IN  IF players[p].inCombat \/ near = {} \/ fights[p] >= MaxFights THEN None
        ELSE CHOOSE s \in near : \A r \in near : s <= r

\* Slip: the entry of the player outlives the fight.
EndFight_KeepsTheEntry(p) ==
    /\ fights[p] > 0
    /\ fights' = [fights EXCEPT ![p] = @ - 1]
    /\ mapped' = mapped
    /\ players' = IF players[p] = None THEN players ELSE [players EXCEPT ![p].inCombat = FALSE]

\* A fight of this player ends, the one it is in or one from an earlier visit.
\* finishCombat clears the flag of whoever bears the name by now.
EndFight(p) ==
    /\ fights[p] > 0
    /\ fights' = [fights EXCEPT ![p] = @ - 1]
    /\ mapped' = mapped \ {p}
    /\ players' = IF players[p] = None THEN players ELSE [players EXCEPT ![p].inCombat = FALSE]

FightEnds(p) ==
    /\ EndFight(p)
    /\ wire' = Send(wire, players, p, [kind |-> "CombatEnd"])
    /\ UNCHANGED <<saved, companion, spawns, transfers, hangups>>

\* respawnAtUnix passes, whether the fight over that spawn is over or not.
RespawnTime(s) ==
    /\ spawns[s] = "dead"
    /\ spawns' = [spawns EXCEPT ![s] = "due"]
    /\ UNCHANGED <<players, saved, companion, fights, mapped, transfers, hangups, wire>>
-----------------------------------------------------------------------------
(* Requests of a client *)

CanStepTo(from, to) == to \in Tiles \ Walls /\ Distance(from, to) = 1

\* Slip: the companions are moved once everybody has been told.
HandleMoveIntent_CompanionsLast(p, to) ==
    IF ~ (IsHere(p) /\ CanStepTo(players[p].tile, to))
    THEN JustReply(p, Answer("MoveResult", FALSE, 0))
    ELSE LET attacker == Attacker(p, to, Respawned)
             mobs   == IF attacker = None THEN Respawned
                       ELSE [Respawned EXCEPT ![attacker] = "dead"]
             inside == [players EXCEPT ![p].tile = to,
                                       ![p].inCombat = @ \/ attacker # None]
             pets   == IF companion[p] = None THEN companion ELSE [companion EXCEPT ![p] = to]
             out    == Replied(Asked(p), p, Answer("MoveResult", TRUE, to))
         IN  /\ players' = inside
             /\ companion' = pets
             /\ spawns' = mobs
             /\ fights' = IF attacker = None THEN fights ELSE [fights EXCEPT ![p] = @ + 1]
             /\ mapped' = IF attacker = None THEN mapped ELSE mapped \cup {p}
             /\ wire' = Broadcast(IF attacker = None THEN out
                                  ELSE Send(out, inside, p, [kind |-> "CombatStart"]),
                                  inside, companion, mobs)
             /\ UNCHANGED <<saved, transfers, hangups>>

\* handleMoveIntent: the answer, the spawns that come back, the fight that begins, the
\* companions that follow; and after each of those that changed anything, a snapshot.
HandleMoveIntent(p, to) ==
    IF ~ (IsHere(p) /\ CanStepTo(players[p].tile, to))
    THEN JustReply(p, Answer("MoveResult", FALSE, 0))
    ELSE LET attacker == Attacker(p, to, Respawned)
             mobs   == IF attacker = None THEN Respawned
                       ELSE [Respawned EXCEPT ![attacker] = "dead"]
             moved  == [players EXCEPT ![p].tile = to]
             inside == [moved EXCEPT ![p].inCombat = @ \/ attacker # None]
             pets   == IF companion[p] = None THEN companion ELSE [companion EXCEPT ![p] = to]
             told   == Replied(Asked(p), p, Answer("MoveResult", TRUE, to))
             out    == IF Respawned = spawns THEN told
                       ELSE Broadcast(told, moved, companion, Respawned)
             fought == IF attacker = None THEN out
                       ELSE Broadcast(Send(out, inside, p, [kind |-> "CombatStart"]),
                                      inside, companion, mobs)
         IN  /\ players' = inside
             /\ companion' = pets
             /\ spawns' = mobs
             /\ fights' = IF attacker = None THEN fights ELSE [fights EXCEPT ![p] = @ + 1]
             /\ mapped' = IF attacker = None THEN mapped ELSE mapped \cup {p}
             /\ wire' = Broadcast(fought, inside, pets, mobs)
             /\ UNCHANGED <<saved, transfers, hangups>>

\* Slip: a relocated player goes on fighting, and nobody tells its client otherwise.
Fled_Silently(p) == [out |-> Asked(p), ended |-> FALSE]

\* What forceEndCombat leaves of a fight, and tells the client.
Fled(p) ==
    [out   |-> IF p \in mapped THEN Send(Asked(p), players, p, [kind |-> "CombatEnd"])
               ELSE Asked(p),
     ended |-> p \in mapped]

\* executeStuckCommand, and TeleportToZone to the zone one is in: out of the fight, to the
\* centre with one's companions, saved, shown, answered.
HandleRelocation(p, kind) ==
    IF ~ IsHere(p) THEN JustReply(p, Answer(kind, FALSE, 0))
    ELSE LET fled   == Fled(p)
             inside == [players EXCEPT ![p].tile = CentreTile,
                                       ![p].inCombat = @ /\ ~ fled.ended]
             pets   == IF companion[p] = None THEN companion
                       ELSE [companion EXCEPT ![p] = CentreTile]
         IN  /\ players' = inside
             /\ companion' = pets
             /\ saved' = [saved EXCEPT ![p] = CentreTile]
             /\ transfers' = transfers \ {p}
             /\ fights' = IF fled.ended THEN [fights EXCEPT ![p] = @ - 1] ELSE fights
             /\ mapped' = IF fled.ended THEN mapped \ {p} ELSE mapped
             /\ wire' = Replied(Broadcast(fled.out, inside, pets, spawns), p,
                                Answer(kind, TRUE, CentreTile))
             /\ UNCHANGED <<spawns, hangups>>

\* Slip: the answer to a player who is not at a portal is followed by the other one.
HandleUsePortal_TwoAnswers(p) ==
    IF ~ (IsHere(p) /\ players[p].tile = PortalTile)
    THEN /\ wire' = Replied(Replied(Asked(p), p, Answer("UsePortalResult", FALSE, 0)), p,
                            Answer("UsePortalResult", FALSE, 0))
         /\ UNCHANGED zone
    ELSE JustReply(p, Answer("UsePortalResult", FALSE, 0))

PortalOpens(p) == IsHere(p) /\ players[p].tile = PortalTile /\ ~ players[p].inCombat

\* handleUsePortal and beginZoneTransfer, which saves the player and asks WorldLogin. An
\* entry that an earlier request of the player has left in pendingTransfers_ is overwritten.
HandleUsePortal(p) ==
    IF ~ PortalOpens(p)
    THEN JustReply(p, Answer("UsePortalResult", FALSE, 0))
    ELSE /\ saved' = [saved EXCEPT ![p] = PortalTile]
         /\ transfers' = transfers \cup {p}
         /\ wire' = Replied(Asked(p), p, Answer("UsePortalResult", TRUE, 0))
         /\ UNCHANGED <<players, companion, spawns, fights, mapped, hangups>>

\* Slip: who is too far away is not told.
HandleNpcInteract_Silent(p) ==
    IF IsHere(p) /\ Distance(players[p].tile, NpcTile) <= NpcRadius
    THEN JustReply(p, Answer("MerchantOpen", TRUE, 0))
    ELSE wire' = Asked(p) /\ UNCHANGED zone

\* handleNpcInteract: a merchant's window, or a system message; nothing for a connection
\* that has no player.
HandleNpcInteract(p) ==
    IF ~ IsHere(p) THEN wire' = Asked(p) /\ UNCHANGED zone
    ELSE JustReply(p, Answer(IF Distance(players[p].tile, NpcTile) <= NpcRadius
                             THEN "MerchantOpen" ELSE "SystemMessage", TRUE, 0))

\* handleSubmitAction: the action may end the fight before it is answered.
HandleSubmitAction(p) ==
    \/ JustReply(p, Answer("SubmitActionResult", TRUE, 0))
    \/ /\ IsHere(p) /\ p \in mapped
       /\ EndFight(p)
       /\ wire' = Replied(Send(Asked(p), players, p, [kind |-> "CombatEnd"]), p,
                          Answer("SubmitActionResult", TRUE, 0))
       /\ UNCHANGED <<saved, companion, spawns, transfers, hangups>>

\* handleDebugCommand, SpawnAi: one more companion; here, at most one of a player.
HandleSpawnAi(p) ==
    LET pets == [companion EXCEPT ![p] = players[p].tile]
    IN  IF ~ IsHere(p) THEN JustReply(p, Answer("DebugCommandResponse", FALSE, 0))
        ELSE /\ companion[p] = None
             /\ companion' = pets
             /\ wire' = Replied(Broadcast(Asked(p), players, pets, spawns), p,
                                Answer("DebugCommandResponse", TRUE, 0))
             /\ UNCHANGED <<players, saved, spawns, fights, mapped, transfers, hangups>>

\* SpawnMob and startDebugCombat, for mobs of the catalog: nobody else is shown anything.
HandleSpawnMob(p) ==
    IF ~ IsHere(p) \/ players[p].inCombat
    THEN JustReply(p, Answer("DebugCommandResponse", FALSE, 0))
    ELSE /\ fights[p] < MaxFights
         /\ players' = [players EXCEPT ![p].inCombat = TRUE]
         /\ fights' = [fights EXCEPT ![p] = @ + 1]
         /\ mapped' = mapped \cup {p}
         /\ wire' = Replied(Send(Asked(p), players, p, [kind |-> "CombatStart"]), p,
                            Answer("DebugCommandResponse", TRUE, 0))
         /\ UNCHANGED <<saved, companion, spawns, transfers, hangups>>

\* ForceCombatEnd, and KillTarget of the last enemy.
HandleForceCombatEnd(p) ==
    IF ~ (IsHere(p) /\ p \in mapped)
    THEN JustReply(p, Answer("DebugCommandResponse", FALSE, 0))
    ELSE /\ EndFight(p)
         /\ wire' = Replied(Send(Asked(p), players, p, [kind |-> "CombatEnd"]), p,
                            Answer("DebugCommandResponse", TRUE, 0))
         /\ UNCHANGED <<saved, companion, spawns, transfers, hangups>>

\* TeleportToZone, to another zone: out of the fight, saved, and WorldLogin is asked, over
\* an earlier request as well.
HandleTeleportAway(p) ==
    IF ~ IsHere(p) THEN JustReply(p, Answer("DebugCommandResponse", FALSE, 0))
    ELSE LET fled == Fled(p)
         IN  /\ players' = [players EXCEPT ![p].inCombat = @ /\ ~ fled.ended]
             /\ saved' = [saved EXCEPT ![p] = players[p].tile]
             /\ transfers' = transfers \cup {p}
             /\ fights' = IF fled.ended THEN [fights EXCEPT ![p] = @ - 1] ELSE fights
             /\ mapped' = IF fled.ended THEN mapped \ {p} ELSE mapped
             /\ wire' = Replied(fled.out, p, Answer("DebugCommandResponse", TRUE, 0))
             /\ UNCHANGED <<companion, spawns, hangups>>

\* deliverSayChat, to everybody around, the speaker included. It has no answer.
HandleSay(p) ==
    /\ wire' = IF ~ IsHere(p) THEN Asked(p)
               ELSE [q \in Players |->
                        IF Reachable(players, q)
                               /\ Distance(players[q].tile, players[p].tile) <= SayRadius
                        THEN Post(Asked(p)[q], [kind |-> "ChatDeliver"]) ELSE Asked(p)[q]]
    /\ UNCHANGED zone

\* handleSessionResume: the connection is bound to the entity. The snapshot that tells the
\* others is the one that leaves the new player out.
HandleSessionResume(p) ==
    LET tile   == players[p].tile
        inside == [players EXCEPT ![p].connected = TRUE]
        gone   == hangups \ {p}
        first  == <<Answer("SessionResumeResponse", TRUE, tile), [kind |-> "ZoneSnapshot"],
                    Snapshot(Shown(inside, companion, spawns))>>
        others == Snapshot({e \in Shown(inside, companion, spawns) : <<e[1], e[2]>> # <<"player", p>>})
    IN  IF players[p] = None
        THEN /\ wire' = [wire EXCEPT ![p] = <<Answer("SessionResumeResponse", FALSE, 0)>>]
             /\ UNCHANGED zone
        ELSE /\ players' = inside
             /\ hangups' = gone
             /\ wire' = [q \in Players |->
                            IF q = p THEN Append(first, others)
                            ELSE IF Reachable(players, q) THEN Post(wire[q], others) ELSE wire[q]]
             /\ UNCHANGED <<saved, companion, spawns, fights, mapped, transfers>>

\* handleRequestZoneTiles
HandleRequestZoneTiles(p) ==
    IF IsHere(p) THEN JustReply(p, Answer("ZoneTileGrid", TRUE, 0))
    ELSE wire' = Asked(p) /\ UNCHANGED zone
-----------------------------------------------------------------------------
(* Coming and going *)

\* PlayerEnterPrepare and LoadCharacterResponse: an entity that is still there is dropped,
\* the new one stands where the row says, or where the portal leads.
Admit(p, tile) ==
    /\ players' = [players EXCEPT ![p] = Entity(tile)]
    /\ saved' = [saved EXCEPT ![p] = tile]
    /\ UNCHANGED <<companion, spawns, fights, mapped, transfers, hangups, wire>>

\* evictPlayerForConnection and removePlayer: saved, erased, and everybody told. A
\* companion stays where it is, and a fight goes on.
Leave(p) ==
    LET inside == [players EXCEPT ![p] = None]
    IN  /\ saved' = IF players[p] = None THEN saved ELSE [saved EXCEPT ![p] = players[p].tile]
        /\ players' = inside
        /\ wire' = Broadcast(wire, inside, companion, spawns)
        /\ UNCHANGED <<companion, spawns, fights, mapped, transfers>>

\* handleClientDisconnect and handleSessionEnd: nothing, if the connection had no player.
HandleClientDisconnect(p) ==
    /\ p \in hangups
    /\ hangups' = hangups \ {p}
    /\ IF IsHere(p) THEN Leave(p)
       ELSE UNCHANGED <<players, saved, companion, spawns, fights, mapped, transfers, wire>>

\* handleZoneTransferAuthorize
HandleZoneTransferAuthorize(p) == Leave(p) /\ UNCHANGED hangups

\* ZoneConnectForward: the client of the entry is told where to go, or that it cannot; if
\* the entry is gone, nobody is. It goes by the name of the player: an answer to an earlier
\* request (late) is told to the client that has made a new one.
HandleZoneConnectForward(p, ok, late) ==
    /\ transfers' = transfers \ {p}
    /\ wire' = IF p \notin transfers THEN wire
               ELSE Replied(wire, p, [Answer("ZoneConnectInfo", ok, 0) EXCEPT !.late = late])
    /\ UNCHANGED <<players, saved, companion, spawns, fights, mapped, hangups>>
-----------------------------------------------------------------------------
InitServer ==
    /\ players = [p \in Players |-> None]
    /\ saved = [p \in Players |-> EntryTile]
    /\ companion = [p \in Players |-> None]
    /\ spawns = [s \in Spawns |-> "active"]
    /\ fights = [p \in Players |-> 0]
    /\ mapped = {}
    /\ transfers = {}
    /\ hangups = {}
    /\ wire = [p \in Players |-> <<>>]
=============================================================================
