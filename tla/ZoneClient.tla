------------------------------ MODULE ZoneClient ------------------------------
(***************************************************************************)
(* The clients of a zone (client/net/ZoneClient.cpp, and the parts of      *)
(* client/src/main.cpp that call it).                                      *)
(*                                                                         *)
(* A client is one thread. A request is sent and its answer is waited for, *)
(* until a deadline, on the connection that also carries what the zone     *)
(* pushes: snapshots, fights, chat. Every wait has its own rule for what   *)
(* it does with the packets it did not ask for. Between requests, each     *)
(* frame reads a packet.                                                   *)
(*                                                                         *)
(* A request reaches the zone in the step that sends it; what comes back   *)
(* takes its time.                                                         *)
(***************************************************************************)
EXTENDS ZoneServer

CONSTANTS
    Requests,       \* what the players of this model ask for
    MaxBacklog,     \* bound: packets and snapshots not dealt with when a player acts
    MaxActs         \* bound: visits, requests and deadlines that pass

ASSUME BoundsAssumption == MaxBacklog \in Nat /\ MaxActs \in Nat

VARIABLES
    client,         \* player -> its ZoneClient and what the screen shows
    crossing,       \* player -> what WorldLogin has to do about its transfers
    timeouts,
    acts            \* visits, requests and deadlines so far

vars == <<zone, wire, client, crossing, timeouts, acts>>

Phases == {"out", "admitted", "resuming", "draining", "tiles", "in", "failed"}

\* asked: requests WorldLogin has not answered. released: the zone was told to let the
\* player go, and where to is the next thing it reads about him. again (history): he has
\* asked while an earlier request was open, the only way to have two of them.
Crossing ==
    {x \in [asked : Nat, released : BOOLEAN, again : BOOLEAN] :
        ~ x.again => x.asked + (IF x.released THEN 1 ELSE 0) <= 1}

NoCrossing == [asked |-> 0, released |-> FALSE, again |-> FALSE]

\* WorldLogin has something to say about the transfers of the player.
Owes(x) == x.asked > 0 \/ x.released

NoClient ==
    [phase |-> "out", got |-> {}, call |-> None, tile |-> 0, queue |-> <<>>, view |-> {},
     window |-> FALSE, missed |-> {}]

\* Packets that a client has not come to yet, the snapshots it put off included.
Backlog(p) == Len(wire[p]) + Len(client[p].queue)

Acts(p) ==
    /\ client[p].phase = "in" /\ client[p].call = None
    /\ \A q \in Players : client[q].phase = "in" => Backlog(q) <= MaxBacklog
    /\ acts < MaxActs
    /\ acts' = acts + 1

Update(p, record) == client' = [client EXCEPT ![p] = record]

Received(p) == wire' = [wire EXCEPT ![p] = Tail(@)]
-----------------------------------------------------------------------------
(* What a client does with a packet *)

\* syncPlayerPositionFromSnapshot
OwnTile(p, shown, tile) ==
    LET own == {t \in Tiles : <<"player", p, t>> \in shown}
    IN  IF own = {} THEN tile ELSE CHOOSE t \in own : TRUE

\* queueEntitySnapshot: one's own tile is taken at once, the rest is for a later frame.
Queued(p, c, packet) ==
    [c EXCEPT !.queue = IF @ # <<>> /\ @[Len(@)] = packet.shown THEN @ ELSE Append(@, packet.shown),
              !.tile = OwnTile(p, packet.shown, @),
              !.missed = @ \ {"snapshot"}]

\* dispatchGameplayPacket, and the callbacks of main.cpp. Results of moves, of portals
\* and of transfers have no case there.
Dispatched(p, c, packet) ==
    CASE packet.kind = "EntitySnapshot" -> Queued(p, c, packet)
      [] packet.kind = "CombatStart" -> [c EXCEPT !.window = TRUE, !.missed = @ \ {"fight"}]
      [] packet.kind = "CombatEnd" -> [c EXCEPT !.window = FALSE, !.missed = @ \ {"fight"}]
      [] packet.kind = "PlayerCommandResult" /\ packet.ok -> [c EXCEPT !.tile = packet.tile]
      [] OTHER -> c

\* A wait that throws away what it does not wait for.
Discarded(c, packet) ==
    [c EXCEPT !.missed = @ \cup (CASE packet.kind = "EntitySnapshot" -> {"snapshot"}
                                   [] packet.kind \in {"CombatStart", "CombatEnd"} -> {"fight"}
                                   [] OTHER -> {})]

\* The waits of the login keep snapshots and throw everything else away.
AtLogin(p, c, packet) ==
    IF packet.kind = "EntitySnapshot" THEN Queued(p, c, packet) ELSE Discarded(c, packet)

\* The calls, and the packets that each looks for.
Answers ==
    [move |-> {"MoveResult"}, portal |-> {"UsePortalResult", "ZoneConnectInfo"},
     stuck |-> {"PlayerCommandResult"}, talk |-> {"MerchantOpen", "SystemMessage"},
     attack |-> {"SubmitActionResult"}, trade |-> {"TradeResult"},
     debug |-> {"DebugCommandResponse"},
     teleport |-> {"DebugCommandResponse", "ZoneConnectInfo"},
     teleported |-> {"DebugCommandResponse", "ZoneConnectInfo"},
     recall |-> {"DebugCommandResponse", "ZoneConnectInfo"},
     recalled |-> {"DebugCommandResponse", "ZoneConnectInfo"}]

ASSUME CallsAssumption == None \notin DOMAIN Answers

\* usePortal and sendDebugTeleportToZone wait on after the answer that it was granted.
Ends(call, packet) ==
    /\ packet.kind \in Answers[call]
    /\ ~ (packet.kind = "UsePortalResult" /\ packet.ok)
    /\ ~ (packet.kind = "DebugCommandResponse" /\ packet.ok /\ call # "debug")

\* The wait for the destination that follows a teleport that was granted.
Granted(call, packet) ==
    IF packet.kind # "DebugCommandResponse" THEN call
    ELSE CASE call = "teleport" -> "teleported" [] call = "recall" -> "recalled" [] OTHER -> call

\* What the wait of a call does with a packet, before it looks whether it is the answer.
Heard(p, c, packet) ==
    CASE c.call = "portal" -> Discarded(c, packet)
      [] c.call = "move" /\ packet.kind = "MoveResult" ->
            IF packet.ok THEN [c EXCEPT !.tile = packet.tile] ELSE c
      [] OTHER -> Dispatched(p, c, packet)

\* A relocation that was granted closes the windows (resetLockingUiState).
Concluded(c, packet) ==
    [c EXCEPT !.call = None,
              !.window = @ /\ ~ (packet.kind = "PlayerCommandResult" /\ packet.ok
                                 /\ c.call = "stuck")]
-----------------------------------------------------------------------------
(* Coming in *)

\* WorldLogin has the zone admit the character, where its row or a portal says.
Enter(p) ==
    /\ client[p].phase = "out"
    /\ acts < MaxActs
    /\ acts' = acts + 1
    /\ \E tile \in {saved[p], EntryTile} : Admit(p, tile)
    /\ client' = [client EXCEPT ![p].phase = "admitted"]
    /\ UNCHANGED <<crossing, timeouts>>

\* completeEnterZone and reconnectToZone: a new connection, and SessionResume.
Connect(p) ==
    /\ client[p].phase = "admitted"
    /\ HandleSessionResume(p)
    /\ client' = [client EXCEPT ![p].phase = "resuming"]
    /\ UNCHANGED <<crossing, timeouts, acts>>

\* sessionResume waits for both.
Resuming(p) ==
    /\ client[p].phase = "resuming" /\ wire[p] # <<>>
    /\ LET packet == Head(wire[p])
           c      == AtLogin(p, client[p], packet)
           got    == c.got \cup ({packet.kind} \cap {"SessionResumeResponse", "ZoneSnapshot"})
       IN  Update(p, IF packet.kind = "SessionResumeResponse" /\ ~ packet.ok
                     THEN [c EXCEPT !.phase = "failed"]
                     ELSE [c EXCEPT !.tile = IF packet.kind = "SessionResumeResponse"
                                             THEN packet.tile ELSE @,
                                    !.got = got,
                                    !.phase = IF Cardinality(got) = 2 THEN "draining" ELSE @])
    /\ Received(p)
    /\ UNCHANGED <<zone, crossing, timeouts, acts>>

\* Then the snapshots that follow are drained,
Draining(p) ==
    /\ client[p].phase = "draining" /\ wire[p] # <<>>
    /\ Head(wire[p]).kind = "EntitySnapshot"
    /\ Update(p, Queued(p, client[p], Head(wire[p])))
    /\ Received(p)
    /\ UNCHANGED <<zone, crossing, timeouts, acts>>

\* until there is a pause, half a second is over, or another packet comes, which is thrown
\* away as the next wait would throw it away; and the tiles are asked for.
RequestZoneTiles(p) ==
    /\ client[p].phase = "draining"
    /\ HandleRequestZoneTiles(p)
    /\ client' = [client EXCEPT ![p].phase = "tiles"]
    /\ UNCHANGED <<crossing, timeouts, acts>>

AwaitingTiles(p) ==
    /\ client[p].phase = "tiles" /\ wire[p] # <<>>
    /\ LET c == AtLogin(p, client[p], Head(wire[p]))
       IN  Update(p, IF Head(wire[p]).kind = "ZoneTileGrid" THEN [c EXCEPT !.phase = "in", !.got = {}]
                     ELSE c)
    /\ Received(p)
    /\ UNCHANGED <<zone, crossing, timeouts, acts>>

\* The connection of a login that failed stays open until the player tries again or quits.
LoginTimesOut(p) ==
    /\ client[p].phase \in {"resuming", "tiles"}
    /\ acts < MaxActs
    /\ acts' = acts + 1
    /\ timeouts' = timeouts + 1
    /\ client' = [client EXCEPT ![p].phase = "failed"]
    /\ UNCHANGED <<zone, wire, crossing>>

\* The connection is closed: what was on its way is lost, and nobody is answered on it.
HangUp(p) ==
    /\ Update(p, NoClient)
    /\ hangups' = hangups \cup {p}
    /\ transfers' = transfers \ {p}
    /\ wire' = [wire EXCEPT ![p] = <<>>]
    /\ UNCHANGED <<players, saved, companion, spawns, fights, mapped>>

Quit(p) ==
    /\ client[p].phase \notin {"out", "admitted"}
    /\ HangUp(p)
    /\ UNCHANGED <<crossing, timeouts, acts>>
-----------------------------------------------------------------------------
(* Requests *)

\* A call that is made now, whose packet the zone handles.
Calls(p, request, call) ==
    /\ request \in Requests /\ Acts(p)
    /\ client' = [client EXCEPT ![p].call = call]
    /\ UNCHANGED timeouts

\* beginZoneTransfer sends a ZoneTransferRequest, whether there is one under way or not.
AsksWorldLogin(p) ==
    crossing' = [crossing EXCEPT ![p].asked = @ + 1,
                                 ![p].again = @ \/ Owes(crossing[p])]

\* The keys of the world are dead while the window of a fight is open.
Move(p) ==
    /\ ~ client[p].window
    /\ Calls(p, "move", "move")
    /\ \E to \in {client[p].tile - 1, client[p].tile + 1} : HandleMoveIntent(p, to)
    /\ UNCHANGED crossing

UsePortal(p) ==
    /\ ~ client[p].window
    /\ Calls(p, "portal", "portal")
    /\ HandleUsePortal(p)
    /\ IF PortalOpens(p) THEN AsksWorldLogin(p) ELSE UNCHANGED crossing

Talk(p) ==
    /\ ~ client[p].window
    /\ Calls(p, "talk", "talk")
    /\ HandleNpcInteract(p)
    /\ UNCHANGED crossing

Stuck(p) ==
    /\ Calls(p, "stuck", "stuck")
    /\ HandleRelocation(p, "PlayerCommandResult")
    /\ UNCHANGED crossing

Attack(p) ==
    /\ client[p].window
    /\ Calls(p, "attack", "attack")
    /\ HandleSubmitAction(p)
    /\ UNCHANGED crossing

\* equipItem, unequipItem, merchantBuy, merchantSell: what they change is in Character.
Trade(p) ==
    /\ Calls(p, "trade", "trade")
    /\ JustReply(p, Answer("TradeResult", IsHere(p), 0))
    /\ UNCHANGED crossing

SpawnAi(p) == Calls(p, "debug", "debug") /\ HandleSpawnAi(p) /\ UNCHANGED crossing

SpawnMob(p) == Calls(p, "debug", "debug") /\ HandleSpawnMob(p) /\ UNCHANGED crossing

ForceCombatEnd(p) == Calls(p, "debug", "debug") /\ HandleForceCombatEnd(p) /\ UNCHANGED crossing

TeleportHere(p) ==
    /\ Calls(p, "teleport", "recall")
    /\ HandleRelocation(p, "DebugCommandResponse")
    /\ UNCHANGED crossing

TeleportAway(p) ==
    /\ Calls(p, "teleport", "teleport")
    /\ HandleTeleportAway(p)
    /\ IF IsHere(p) THEN AsksWorldLogin(p) ELSE UNCHANGED crossing

\* sendSayChat waits for nothing.
Say(p) ==
    /\ "say" \in Requests /\ Acts(p)
    /\ HandleSay(p)
    /\ UNCHANGED <<client, crossing, timeouts>>

\* One packet of a wait. The way to another zone leads out of this one.
ReadAnswer(p) ==
    LET c      == client[p]
        packet == Head(wire[p])
        heard  == Heard(p, c, packet)
        leaves == packet.kind = "ZoneConnectInfo" /\ packet.ok /\ c.call \notin {"teleport", "recall"}
    IN  /\ c.call # None /\ wire[p] # <<>>
        /\ IF ~ Ends(c.call, packet)
           THEN /\ Update(p, [heard EXCEPT !.call = Granted(@, packet)])
                /\ Received(p)
                /\ UNCHANGED zone
           ELSE IF leaves THEN HangUp(p)
           ELSE /\ Update(p, Concluded(heard, packet))
                /\ Received(p)
                /\ UNCHANGED zone
        /\ UNCHANGED <<crossing, timeouts, acts>>

\* The deadline of a call passes. A teleport that was granted counts as done.
TimeOut(p) ==
    /\ client[p].call \notin {None, "recalled"}
    /\ acts < MaxActs
    /\ acts' = acts + 1
    /\ timeouts' = timeouts + 1
    /\ client' = [client EXCEPT ![p].call = None,
                                ![p].window = @ /\ client[p].call # "teleported"]
    /\ UNCHANGED <<zone, wire, crossing>>

\* A teleport within the zone always waits for its deadline: nobody will send for it.
RecallEnds(p) ==
    /\ client[p].call = "recalled"
    /\ client' = [client EXCEPT ![p].call = None, ![p].window = FALSE]
    /\ UNCHANGED <<zone, wire, crossing, timeouts, acts>>

\* pollEntitySnapshot, once a frame: a snapshot that was put off, or one packet.
Poll(p) ==
    LET c      == client[p]
        packet == Head(wire[p])
    IN  /\ c.phase = "in" /\ c.call = None
        /\ IF c.queue # <<>>
           THEN /\ Update(p, [c EXCEPT !.view = Head(c.queue), !.queue = Tail(@)])
                /\ UNCHANGED wire
           ELSE /\ wire[p] # <<>>
                /\ Received(p)
                /\ Update(p, IF packet.kind = "EntitySnapshot"
                             THEN [c EXCEPT !.view = packet.shown,
                                            !.tile = OwnTile(p, packet.shown, @),
                                            !.missed = @ \ {"snapshot"}]
                             ELSE Dispatched(p, c, packet))
        /\ UNCHANGED <<zone, crossing, timeouts, acts>>
-----------------------------------------------------------------------------
(* WorldLogin, which ZoneHandoff has in full, and the rest of the zone *)

\* The answer may be for an earlier request if there are others than the one it is for.
Refused(p) ==
    /\ crossing[p].asked > 0 /\ ~ crossing[p].released
    /\ crossing' = [crossing EXCEPT ![p].asked = @ - 1]
    /\ \E late \in {FALSE, crossing[p].asked > 1} : HandleZoneConnectForward(p, FALSE, late)
    /\ UNCHANGED <<client, timeouts, acts>>

Released(p) ==
    /\ crossing[p].asked > 0 /\ ~ crossing[p].released
    /\ crossing' = [crossing EXCEPT ![p].asked = @ - 1, ![p].released = TRUE]
    /\ HandleZoneTransferAuthorize(p)
    /\ UNCHANGED <<client, timeouts, acts>>

Forwarded(p) ==
    /\ crossing[p].released
    /\ crossing' = [crossing EXCEPT ![p].released = FALSE]
    /\ \E late \in {FALSE, crossing[p].asked > 0} : HandleZoneConnectForward(p, TRUE, late)
    /\ UNCHANGED <<client, timeouts, acts>>

\* Of two requests that WorldLogin has before the first player is ready, the later takes
\* the place of the earlier in pendingZoneTransfers_, and both have one answer.
Merged(p) ==
    /\ crossing[p].asked > 1
    /\ crossing' = [crossing EXCEPT ![p].asked = @ - 1]
    /\ UNCHANGED <<zone, wire, client, timeouts, acts>>

Notice(p) ==
    /\ HandleClientDisconnect(p)
    /\ UNCHANGED <<client, crossing, timeouts, acts>>

FightOver(p) ==
    /\ FightEnds(p)
    /\ UNCHANGED <<client, crossing, timeouts, acts>>

RespawnDue(s) ==
    /\ RespawnTime(s)
    /\ UNCHANGED <<client, crossing, timeouts, acts>>
-----------------------------------------------------------------------------
Init ==
    /\ InitServer
    /\ client = [p \in Players |-> NoClient]
    /\ crossing = [p \in Players |-> NoCrossing]
    /\ timeouts = 0
    /\ acts = 0

Asks(p) ==
    \/ Move(p) \/ UsePortal(p) \/ Talk(p) \/ Stuck(p) \/ Attack(p) \/ Trade(p) \/ Say(p)
    \/ SpawnAi(p) \/ SpawnMob(p) \/ ForceCombatEnd(p) \/ TeleportHere(p) \/ TeleportAway(p)

ComesIn(p) ==
    \/ Enter(p) \/ Connect(p) \/ Resuming(p) \/ Draining(p)
    \/ RequestZoneTiles(p) \/ AwaitingTiles(p)

Transfer(p) == Refused(p) \/ Released(p) \/ Forwarded(p) \/ Merged(p)

Next ==
    \/ \E p \in Players :
          \/ ComesIn(p) \/ LoginTimesOut(p) \/ Quit(p) \/ Asks(p) \/ ReadAnswer(p) \/ TimeOut(p)
          \/ RecallEnds(p) \/ Poll(p) \/ Transfer(p) \/ Notice(p) \/ FightOver(p)
    \/ \E s \in Spawns : RespawnDue(s)

Spec == Init /\ [][Next]_vars
-----------------------------------------------------------------------------
TypeOK ==
    /\ players \in [Players -> [tile : Tiles \ Walls, inCombat : BOOLEAN, connected : BOOLEAN]
                                  \cup {None}]
    /\ saved \in [Players -> Tiles \ Walls]
    /\ companion \in [Players -> (Tiles \ Walls) \cup {None}]
    /\ spawns \in [Spawns -> {"active", "dead", "due"}]
    /\ fights \in [Players -> 0 .. MaxFights]
    /\ mapped \subseteq {p \in Players : fights[p] > 0}
    /\ transfers \subseteq Players /\ hangups \subseteq Players
    /\ crossing \in [Players -> Crossing]
    /\ acts \in 0 .. MaxActs /\ timeouts \in 0 .. acts
    /\ \A p \in Players :
          /\ client[p].phase \in Phases
          /\ client[p].call \in DOMAIN Answers \cup {None}
          /\ client[p].tile \in Tiles
          /\ client[p].phase \in {"draining", "tiles", "in"} => client[p].tile \notin Walls
          /\ client[p].missed \subseteq {"snapshot", "fight"}
          /\ client[p].phase \in {"out", "admitted", "failed"} => client[p].call = None

\* A client with nothing left to read, that plays the player of its connection.
Settled(p) ==
    /\ client[p].phase = "in" /\ client[p].call = None
    /\ wire[p] = <<>> /\ client[p].queue = <<>>
    /\ IsHere(p) /\ p \notin hangups

\* Whatever the players did, and in whatever order a client came to its packets: once it has
\* read them all it shows its own player, the others, their companions and the mobs where
\* the zone has them, and nobody who has left, unless the wait at a portal threw the last
\* snapshot away.
ShowsWhereTheyAre ==
    \A p \in Players : Settled(p) /\ "snapshot" \notin client[p].missed =>
        /\ client[p].tile = players[p].tile
        /\ \A e \in client[p].view :
              CASE e[1] = "player" -> /\ players[e[2]] # None
                                      /\ players[e[2]].connected => e[3] = players[e[2]].tile
                [] e[1] = "companion" -> e[3] = companion[e[2]]
                [] e[1] = "spawn" -> spawns[e[2]] = "active"

\* And its window of a fight is open if and only if the zone holds the player to be in one,
\* across old fights that end in a later visit, relocations out of a fight and late answers:
\* otherwise the keys stay dead, or the portal refuses for no reason one can see.
WindowFollowsTheFight ==
    \A p \in Players : Settled(p) /\ "fight" \notin client[p].missed =>
        client[p].window = players[p].inCombat

\* Nobody waits in vain: as long as no deadline has passed, a client that waits has the
\* answer to its call on its way, or WorldLogin still owes one that the zone will pass on,
\* whatever is pushed meanwhile. Only who talks on a connection that has lost its player is
\* not answered at all: so it is for one who quits during a transfer, comes back, and is
\* then released to the other zone.
AnAnswerIsOnItsWay ==
    \A p \in Players :
        LET c == client[p]
        IN  c.call \notin {None, "recalled"} /\ timeouts = 0 =>
                \/ \E i \in DOMAIN wire[p] : Ends(c.call, wire[p][i])
                \/ \E i \in DOMAIN wire[p] :
                       c.call = "recall" /\ wire[p][i].kind = "DebugCommandResponse"
                \/ p \in transfers /\ Owes(crossing[p])
                \/ c.call = "talk" /\ ~ IsHere(p)

\* The step ends a call of the player with an answer to an earlier one.
EndsWithALateAnswer(p) ==
    /\ client[p].call # None /\ client'[p].call = None
    /\ wire[p] # <<>> /\ IsAnswer(Head(wire[p])) /\ Head(wire[p]).late
    /\ ReadAnswer(p)

\* Replies bear no number that a client would look at. Still, as long as no deadline has
\* passed, the packet that ends a call is an answer to that call and not to an earlier one,
\* but for one: who quits while WorldLogin has a transfer of his to answer, comes back and
\* uses a portal again is told what became of the first. (beginZoneTransfer overwrites
\* pendingTransfers_, and ZoneConnectForward names the character only)
AnswersAreTheirOwn ==
    [][timeouts = 0 =>
         \A p \in Players : EndsWithALateAnswer(p) =>
             crossing[p].again /\ Head(wire[p]).kind = "ZoneConnectInfo"]_vars

\* "Used for request/response correlation on synchronous client calls" (docs/networking.md,
\* of the sequenceId): the packet that ends a call is the answer to that call.
RepliesAreCorrelated == [][\A p \in Players : ~ EndsWithALateAnswer(p)]_vars
=============================================================================
