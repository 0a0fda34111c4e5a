---------------------------- MODULE ZoneHandoff ----------------------------
(***************************************************************************)
(* How a character gets into a zone and from one zone to the next: the     *)
(* login handoff and the portal transfer between the client, WorldLogin    *)
(* (server/world_login/WorldLoginServer.cpp), the zone servers             *)
(* (server/zone/ZoneServer.cpp) and the database they share.               *)
(*                                                                         *)
(* Each server is one thread, so an action is one packet handled, or one   *)
(* connection found closed.  A zone and WorldLogin talk over one TCP link, *)
(* a pair of FIFO queues.  What a client sends or is sent is handled in    *)
(* the step that sends it; the delay before it is the client's own.        *)
(*                                                                         *)
(* Of a character only two things are kept: where the database says it is, *)
(* and how far it has come, a number that stands for the whole state_json. *)
(* A token names the login it was issued to.                               *)
(***************************************************************************)
EXTENDS Integers, Sequences

CONSTANTS
    Clients,        \* client processes
    Characters,
    Plays,          \* client -> the character it logs in with
    Zones,
    None,           \* an absent map entry, an empty token
    MaxLogins,      \* bound of this model: sessions issued to each client
    MaxState,       \* bound of this model: how far a character can come
    MaxTimeouts,    \* bound of this model: portals a client stops waiting for
    MaxCrashes      \* bound of this model: zone servers that die

ASSUME WorldAssumption ==
    /\ Plays \in [Clients -> Characters]
    /\ None \notin Clients \cup Characters \cup Zones
ASSUME BoundsAssumption ==
    /\ MaxLogins \in Nat
    /\ MaxState \in Nat
    /\ MaxTimeouts \in Nat
    /\ MaxCrashes \in Nat

VARIABLES
    db,             \* character -> its row: zone and state
    linked,         \* zones whose link to WorldLogin is up
    zones,          \* zones_ of WorldLogin: registered, alive or not
    pendingHandoffs,        \* WorldLogin: character -> client and token
    pendingZoneTransfers,   \* WorldLogin: character -> source, dest and token
    toWorld, toZone,        \* zone -> packets on the two halves of its link
    players,        \* zone -> character -> PlayerEntity
    pendingToken,   \* zone -> pendingSessionResumeToken_, one for all
    pendingTransfers,       \* zone -> character -> client that asked to leave
    client,         \* client -> what it is doing
    hangups,        \* zone and client of connections closed, not yet noticed
    logins,         \* client -> sessions issued to it
    timeouts, crashes   \* how much of those bounds is used up

world  == <<zones, pendingHandoffs, pendingZoneTransfers>>
links  == <<linked, toWorld, toZone>>
zone   == <<players, pendingToken, pendingTransfers>>
counts == <<logins, timeouts, crashes>>
vars   == <<db, world, links, zone, client, hangups, counts>>

Tokens == Clients \X (1 .. MaxLogins)

Row          == [zone : Zones, state : 0 .. MaxState]
PlayerEntity == [state : 0 .. MaxState, token : Tokens \cup {None},
                 connection : Clients \cup {None}]
Transfer     == [source : Zones, dest : Zones]

\* A map entry that is absent is no entry.
ASSUME NoneAssumption == None \notin PlayerEntity \cup Transfer

\* "selecting": SelectCharacterRequest sent; "offered": has a ZoneConnectInfo;
\* "crossing": waits in usePortal; "refused": its SessionResume was rejected.
Phases      == {"out", "selecting", "offered", "in", "crossing", "refused"}
ClientState == [phase : Phases, zone : Zones \cup {None}, token : Tokens \cup {None}]

ToZone ==
    [kind : {"PlayerEnterPrepare"}, character : Characters, token : Tokens \cup {None}]
        \cup [kind : {"LoadCharacterResponse"}, character : Characters, state : 0 .. MaxState]
        \cup [kind : {"ZoneTransferAuthorize"}, character : Characters]
        \cup [kind : {"ZoneConnectForward"}, character : Characters, ok : {TRUE}, dest : Zones]
        \cup [kind : {"ZoneConnectForward"}, character : Characters, ok : {FALSE}, dest : {None}]
ToWorld ==
    [kind : {"LoadCharacterRequest", "PlayerEnterReady"}, character : Characters]
        \cup [kind : {"ZoneTransferRequest"}, character : Characters, dest : Zones,
              token : Tokens \cup {None}]

\* Slip: the client forgets its phase and not its zone.
Out_KeepsZone(k) == [client[k] EXCEPT !.phase = "out"]

\* A client on its own: no zone, its session as it was.
Out(k) == [client[k] EXCEPT !.phase = "out", !.zone = None]

\* Whether the connection a client holds is the one its character is bound to.
Bound(k, z) == players[z][Plays[k]] # None /\ players[z][Plays[k]].connection = k

\* A packet for a zone that has died is dropped by the closed connection.
SendToZone(z, packet) ==
    toZone' = IF z \in linked THEN [toZone EXCEPT ![z] = Append(@, packet)] ELSE toZone

Reply(z, packet) == toWorld' = [toWorld EXCEPT ![z] = Append(@, packet)]

\* The next packet of a queue is of this kind.
Arrives(queue, kind) == queue # <<>> /\ Head(queue).kind = kind
-----------------------------------------------------------------------------
(* The client *)

\* SelectCharacterRequest over a fresh session; that the zone is not registered
\* is answered at once and changes nothing.
SelectCharacter(k) ==
    LET c     == Plays[k]
        z     == db[c].zone
        token == <<k, logins[k] + 1>>
    IN  /\ client[k].phase \in {"out", "refused"}
        /\ logins[k] < MaxLogins
        /\ z \in zones
        /\ logins' = [logins EXCEPT ![k] = @ + 1]
        /\ client' = [client EXCEPT ![k] =
                          [phase |-> "selecting", zone |-> None, token |-> token]]
        /\ pendingHandoffs' =
               [pendingHandoffs EXCEPT ![c] = [client |-> k, token |-> token]]
        /\ SendToZone(z, [kind |-> "PlayerEnterPrepare", character |-> c, token |-> token])
        /\ UNCHANGED <<db, zones, pendingZoneTransfers, linked, toWorld, zone,
                       hangups, timeouts, crashes>>

\* handleSessionResume: the entity must be there, with the token of the client or
\* with none. Once it is bound to the new connection, the end of an older one
\* finds nobody to evict.
SessionResume(k) ==
    LET c == Plays[k]
        z == client[k].zone
        accepted == /\ players[z][c] # None
                    /\ players[z][c].token \in {None, client[k].token}
    IN  /\ client[k].phase = "offered"
        /\ IF accepted
           THEN /\ players' = [players EXCEPT ![z][c] =
                                   [@ EXCEPT !.connection = k, !.token = client[k].token]]
                /\ client' = [client EXCEPT ![k].phase = "in"]
                /\ hangups' = hangups \ {<<z, k>>}
           ELSE /\ client' = [client EXCEPT ![k] = [Out(k) EXCEPT !.phase = "refused"]]
                /\ UNCHANGED <<players, hangups>>
        /\ UNCHANGED <<db, world, links, pendingToken, pendingTransfers, counts>>

\* Slip: what a character achieves is saved when it leaves.
Play_SavedLater(k) ==
    LET c == Plays[k]
        z == client[k].zone
    IN  /\ client[k].phase = "in"
        /\ Bound(k, z)
        /\ players[z][c].state < MaxState
        /\ players' = [players EXCEPT ![z][c].state = @ + 1]
        /\ UNCHANGED <<db, world, links, pendingToken, pendingTransfers, client, hangups, counts>>

\* Whatever changes the character's state and saves it: equipment, trade, combat.
Play(k) ==
    LET c == Plays[k]
        z == client[k].zone
    IN  /\ client[k].phase = "in"
        /\ Bound(k, z)
        /\ players[z][c].state < MaxState
        /\ players' = [players EXCEPT ![z][c].state = @ + 1]
        /\ db' = [db EXCEPT ![c].state = players[z][c].state + 1]
        /\ UNCHANGED <<world, links, pendingToken, pendingTransfers, client, hangups, counts>>

\* handleUsePortal and beginZoneTransfer.
UsePortal(k, dest) ==
    LET c == Plays[k]
        z == client[k].zone
    IN  /\ client[k].phase = "in"
        /\ Bound(k, z)
        /\ dest # z
        /\ db' = [db EXCEPT ![c] = [zone |-> z, state |-> players[z][c].state]]
        /\ pendingTransfers' = [pendingTransfers EXCEPT ![z][c] = k]
        /\ Reply(z, [kind |-> "ZoneTransferRequest", character |-> c, dest |-> dest,
                     token |-> players[z][c].token])
        /\ client' = [client EXCEPT ![k].phase = "crossing"]
        /\ UNCHANGED <<world, linked, toZone, players, pendingToken, hangups, counts>>

\* executeStuckCommand.
Stuck(k) ==
    LET c == Plays[k]
        z == client[k].zone
    IN  /\ client[k].phase = "in"
        /\ Bound(k, z)
        /\ pendingTransfers' = [pendingTransfers EXCEPT ![z][c] = None]
        /\ db' = [db EXCEPT ![c] = [zone |-> z, state |-> players[z][c].state]]
        /\ UNCHANGED <<world, links, players, pendingToken, client, hangups, counts>>

\* The player leaves or the connection breaks, at any point. A zone it was
\* connected to notices in a step of its own, by SessionEnd or by the closed socket.
Quit(k) ==
    /\ client[k].phase \in {"selecting", "offered", "in", "crossing"}
    /\ client' = [client EXCEPT ![k] = Out(k)]
    /\ hangups' = IF client[k].phase \in {"in", "crossing"}
                  THEN hangups \cup {<<client[k].zone, k>>} ELSE hangups
    /\ UNCHANGED <<db, world, links, zone, counts>>

\* "Portal timed out": after 15 seconds the client plays on where it is.
StopWaiting(k) ==
    /\ client[k].phase = "crossing"
    /\ timeouts < MaxTimeouts
    /\ timeouts' = timeouts + 1
    /\ client' = [client EXCEPT ![k].phase = "in"]
    /\ UNCHANGED <<db, world, links, zone, hangups, logins, crashes>>
-----------------------------------------------------------------------------
(* A zone server *)

\* handleClientDisconnect: only the connection a player is bound to evicts it.
Hangup(z, k) ==
    LET c == Plays[k]
    IN  /\ <<z, k>> \in hangups
        /\ hangups' = hangups \ {<<z, k>>}
        /\ IF Bound(k, z)
           THEN /\ db' = [db EXCEPT ![c] = [zone |-> z, state |-> players[z][c].state]]
                /\ players' = [players EXCEPT ![z][c] = None]
           ELSE UNCHANGED <<db, players>>
        /\ UNCHANGED <<world, links, pendingToken, pendingTransfers, client, counts>>

\* Slip: a character that is there already is not asked for again.
AskForCharacter_OnlyIfNew(z, c) ==
    IF players[z][c] = None
    THEN Reply(z, [kind |-> "LoadCharacterRequest", character |-> c])
    ELSE UNCHANGED toWorld

AskForCharacter(z, c) == Reply(z, [kind |-> "LoadCharacterRequest", character |-> c])

\* handlePlayerEnterPrepare: an entity already there is dropped, not saved.
PlayerEnterPrepare(z) ==
    LET packet == Head(toZone[z])
    IN  /\ Arrives(toZone[z], "PlayerEnterPrepare")
        /\ toZone' = [toZone EXCEPT ![z] = Tail(@)]
        /\ players' = [players EXCEPT ![z][packet.character] = None]
        /\ pendingToken' = [pendingToken EXCEPT ![z] = packet.token]
        /\ AskForCharacter(z, packet.character)
        /\ UNCHANGED <<db, world, linked, pendingTransfers, client, hangups, counts>>

\* The entity gets the token of the last PlayerEnterPrepare, whoever it was for.
LoadCharacterResponse(z) ==
    LET packet == Head(toZone[z])
    IN  /\ Arrives(toZone[z], "LoadCharacterResponse")
        /\ toZone' = [toZone EXCEPT ![z] = Tail(@)]
        /\ players' = [players EXCEPT ![z][packet.character] =
                           [state |-> packet.state, token |-> pendingToken[z],
                            connection |-> None]]
        /\ Reply(z, [kind |-> "PlayerEnterReady", character |-> packet.character])
        /\ UNCHANGED <<db, world, linked, pendingToken, pendingTransfers, client,
                       hangups, counts>>

\* handleZoneTransferAuthorize: removePlayer saves state and location.
ZoneTransferAuthorize(z) ==
    LET c == Head(toZone[z]).character
    IN  /\ Arrives(toZone[z], "ZoneTransferAuthorize")
        /\ toZone' = [toZone EXCEPT ![z] = Tail(@)]
        /\ players' = [players EXCEPT ![z][c] = None]
        /\ db' = IF players[z][c] = None THEN db
                 ELSE [db EXCEPT ![c] = [zone |-> z, state |-> players[z][c].state]]
        /\ UNCHANGED <<world, linked, toWorld, pendingToken, pendingTransfers,
                       client, hangups, counts>>

\* The client that asked hears of it, if it still waits on that connection; it
\* hangs up before it connects to its new zone.
ZoneConnectForward(z) ==
    LET packet  == Head(toZone[z])
        k       == pendingTransfers[z][packet.character]
        waiting == k # None /\ client[k].phase = "crossing" /\ client[k].zone = z
    IN  /\ Arrives(toZone[z], "ZoneConnectForward")
        /\ toZone' = [toZone EXCEPT ![z] = Tail(@)]
        /\ pendingTransfers' = [pendingTransfers EXCEPT ![z][packet.character] = None]
        /\ IF ~waiting
           THEN UNCHANGED <<client, hangups>>
           ELSE IF packet.ok
           THEN /\ client' = [client EXCEPT ![k] =
                                  [@ EXCEPT !.phase = "offered", !.zone = packet.dest]]
                /\ hangups' = hangups \cup {<<z, k>>}
           ELSE /\ client' = [client EXCEPT ![k].phase = "in"]
                /\ UNCHANGED hangups
        /\ UNCHANGED <<db, world, linked, toWorld, players, pendingToken, counts>>
-----------------------------------------------------------------------------
(* WorldLogin *)

Read(z, kind) ==
    /\ Arrives(toWorld[z], kind)
    /\ toWorld' = [toWorld EXCEPT ![z] = Tail(@)]

\* connectAndRegister: the new link takes the place of the registered one. A
\* restart takes longer than WorldLogin needs to read what the last server sent.
ZoneRegister(z) ==
    /\ z \notin linked
    /\ toWorld[z] = <<>>
    /\ linked' = linked \cup {z}
    /\ zones' = zones \cup {z}
    /\ UNCHANGED <<db, pendingHandoffs, pendingZoneTransfers, toWorld, toZone,
                   zone, client, hangups, counts>>

LoadCharacterRequest(z) ==
    LET c == Head(toWorld[z]).character
    IN  /\ Read(z, "LoadCharacterRequest")
        /\ SendToZone(z, [kind |-> "LoadCharacterResponse", character |-> c,
                          state |-> db[c].state])
        /\ UNCHANGED <<db, world, linked, zone, client, hangups, counts>>

Release(c) == [kind |-> "ZoneTransferAuthorize", character |-> c]

Forward(c, dest) ==
    [kind |-> "ZoneConnectForward", character |-> c, ok |-> dest # None, dest |-> dest]

\* Slip: the source is told to let go before the destination is looked up.
Refuse_AfterRelease(z, c) ==
    toZone' = [toZone EXCEPT ![z] = @ \o <<Release(c), Forward(c, None)>>]

\* "Destination zone unavailable".
Refuse(z, c) == SendToZone(z, Forward(c, None))

\* Slip: the client is sent on before the source has saved and evicted.
Orders_ForwardFirst(c, transfer) == <<Forward(c, transfer.dest), Release(c)>>

\* What the source is sent once the destination is ready: let go of the player,
\* then tell its client where to go.
Orders(c, transfer) == <<Release(c), Forward(c, transfer.dest)>>

\* The row moves to the destination before anybody asks whether it is there.
ZoneTransferRequest(z) ==
    LET packet == Head(toWorld[z])
        c      == packet.character
    IN  /\ Read(z, "ZoneTransferRequest")
        /\ db' = [db EXCEPT ![c].zone = packet.dest]
        /\ IF packet.dest \notin zones
           THEN /\ Refuse(z, c)
                /\ UNCHANGED pendingZoneTransfers
           ELSE /\ SendToZone(packet.dest, [kind |-> "PlayerEnterPrepare", character |-> c,
                                            token |-> packet.token])
                /\ pendingZoneTransfers' =
                       [pendingZoneTransfers EXCEPT ![c] =
                            [source |-> z, dest |-> packet.dest]]
        /\ UNCHANGED <<zones, pendingHandoffs, linked, zone, client, hangups, counts>>

\* PlayerEnterReady of a character in transfer.
ReadyToCross(z) ==
    LET c        == Head(toWorld[z]).character
        transfer == pendingZoneTransfers[c]
    IN  /\ Read(z, "PlayerEnterReady")
        /\ transfer # None
        /\ pendingZoneTransfers' = [pendingZoneTransfers EXCEPT ![c] = None]
        /\ toZone' = IF transfer.source \notin linked THEN toZone
                     ELSE [toZone EXCEPT ![transfer.source] = @ \o Orders(c, transfer)]
        /\ UNCHANGED <<db, zones, pendingHandoffs, linked, zone, client, hangups, counts>>

\* PlayerEnterReady of a character logging in: the zone is read from the
\* database once more. The client that asked may be gone by now.
ReadyToEnter(z) ==
    LET c       == Head(toWorld[z]).character
        handoff == pendingHandoffs[c]
        k       == handoff.client
    IN  /\ Read(z, "PlayerEnterReady")
        /\ pendingZoneTransfers[c] = None
        /\ pendingHandoffs' = [pendingHandoffs EXCEPT ![c] = None]
        /\ IF /\ handoff # None
              /\ client[k].phase = "selecting"
              /\ client[k].token = handoff.token
           THEN client' = [client EXCEPT ![k] =
                    IF db[c].zone \in zones
                    THEN [@ EXCEPT !.phase = "offered", !.zone = db[c].zone]
                    ELSE Out(k)]
           ELSE UNCHANGED client
        /\ UNCHANGED <<db, zones, pendingZoneTransfers, linked, toZone, zone,
                       hangups, counts>>
-----------------------------------------------------------------------------
(* Crashes *)

\* A zone server dies, and with it its players, its connections, what it had
\* still to read and the last of what it sent. zones_ keeps its entry.
ZoneCrash(z) ==
    /\ z \in linked
    /\ crashes < MaxCrashes
    /\ crashes' = crashes + 1
    /\ linked' = linked \ {z}
    /\ toZone' = [toZone EXCEPT ![z] = <<>>]
    /\ \E n \in 0 .. Len(toWorld[z]) : toWorld' = [toWorld EXCEPT ![z] = SubSeq(@, 1, n)]
    /\ players' = [players EXCEPT ![z] = [c \in Characters |-> None]]
    /\ pendingToken' = [pendingToken EXCEPT ![z] = None]
    /\ pendingTransfers' = [pendingTransfers EXCEPT ![z] = [c \in Characters |-> None]]
    /\ client' = [k \in Clients |-> IF client[k].zone = z THEN Out(k) ELSE client[k]]
    /\ hangups' = {h \in hangups : h[1] # z}
    /\ UNCHANGED <<db, world, logins, timeouts>>
-----------------------------------------------------------------------------
(* Specification *)

Init ==
    /\ db \in [Characters -> [zone : Zones, state : {0}]]
    /\ linked = {}
    /\ zones = {}
    /\ pendingHandoffs = [c \in Characters |-> None]
    /\ pendingZoneTransfers = [c \in Characters |-> None]
    /\ toWorld = [z \in Zones |-> <<>>]
    /\ toZone = [z \in Zones |-> <<>>]
    /\ players = [z \in Zones |-> [c \in Characters |-> None]]
    /\ pendingToken = [z \in Zones |-> None]
    /\ pendingTransfers = [z \in Zones |-> [c \in Characters |-> None]]
    /\ client = [k \in Clients |-> [phase |-> "out", zone |-> None, token |-> None]]
    /\ hangups = {}
    /\ logins = [k \in Clients |-> 0]
    /\ timeouts = 0
    /\ crashes = 0

ZoneReads(z) ==
    \/ PlayerEnterPrepare(z)
    \/ LoadCharacterResponse(z)
    \/ ZoneTransferAuthorize(z)
    \/ ZoneConnectForward(z)

WorldReads(z) ==
    \/ LoadCharacterRequest(z)
    \/ ZoneTransferRequest(z)
    \/ ReadyToCross(z)
    \/ ReadyToEnter(z)

ClientActs(k) ==
    \/ SelectCharacter(k)
    \/ SessionResume(k)
    \/ Play(k)
    \/ \E dest \in Zones : UsePortal(k, dest)
    \/ Stuck(k)
    \/ Quit(k)
    \/ StopWaiting(k)

Next ==
    \/ \E k \in Clients : ClientActs(k)
    \/ \E z \in Zones, k \in Clients : Hangup(z, k)
    \/ \E z \in Zones : ZoneReads(z) \/ WorldReads(z) \/ ZoneRegister(z) \/ ZoneCrash(z)

Spec == Init /\ [][Next]_vars

Fairness ==
    /\ \A z \in Zones : WF_vars(ZoneReads(z)) /\ WF_vars(WorldReads(z))
    /\ \A z \in Zones, k \in Clients : WF_vars(Hangup(z, k))

FairSpec == Spec /\ Fairness
-----------------------------------------------------------------------------
(* Properties *)

\* Types, and that a client has a zone exactly while it deals with one.
TypeOK ==
    /\ db \in [Characters -> Row]
    /\ linked \subseteq zones /\ zones \subseteq Zones
    /\ pendingHandoffs \in [Characters -> {None} \cup [client : Clients, token : Tokens]]
    /\ pendingZoneTransfers \in [Characters -> {None} \cup Transfer]
    /\ toWorld \in [Zones -> Seq(ToWorld)]
    /\ toZone \in [Zones -> Seq(ToZone)]
    /\ players \in [Zones -> [Characters -> {None} \cup PlayerEntity]]
    /\ pendingToken \in [Zones -> Tokens \cup {None}]
    /\ pendingTransfers \in [Zones -> [Characters -> Clients \cup {None}]]
    /\ client \in [Clients -> ClientState]
    /\ \A k \in Clients : client[k].zone # None <=>
                              client[k].phase \in {"offered", "in", "crossing"}
    /\ hangups \subseteq Zones \X Clients
    /\ logins \in [Clients -> 0 .. MaxLogins]
    /\ timeouts \in 0 .. MaxTimeouts
    /\ crashes \in 0 .. MaxCrashes

\* A character is played in one zone at a time: of its entities in the zones at
\* most one is bound to a connection. The source must have let go of it before
\* the client may resume at the destination.
OneHome ==
    \A c \in Characters : \A y, z \in Zones :
        /\ players[y][c] # None /\ players[y][c].connection # None
        /\ players[z][c] # None /\ players[z][c].connection # None
        => y = z

\* A client that plays has its entity: whatever it does now, findPlayerByConnection
\* finds it, through portals that open, portals that do not and zones that die.
NotStranded ==
    \A k \in Clients : client[k].phase = "in" => Bound(k, client[k].zone)

\* What was saved of a character is never overwritten by an earlier state of it,
\* whichever server writes the row and however late.
NoProgressLost ==
    [][\A c \in Characters : db'[c].state >= db[c].state]_vars

\* The zones that play a character, and how far it has come there.
Copies(c) ==
    {[zone |-> z, state |-> players[z][c].state] :
        z \in {y \in Zones : players[y][c] # None /\ players[y][c].connection # None}}

Store == INSTANCE CharacterStore WITH
             row <- [c \in Characters |-> db[c].state],
             copies <- [c \in Characters |-> Copies(c)]

\* Handoffs, crossings, hang-ups and crashes keep one writer per character and lose no
\* update: a zone in which the client may resume plays the row as it is then, although it
\* was read long before, when no other zone has the character; and whoever saves it
\* (persistPlayerState, removePlayer) adds to what is saved.
ImplementsStore == Store!Spec

\* Every SelectCharacterRequest is answered, also when the last visit of the
\* character has left an entity or a half-done transfer behind; and so is every
\* portal request, also when the destination is not running, but not once a client
\* has stopped waiting for a transfer that goes on without it.
EveryRequestIsAnswered ==
    \A k \in Clients :
        /\ client[k].phase = "selecting" ~> client[k].phase # "selecting"
        /\ client[k].phase = "crossing" ~> client[k].phase # "crossing" \/ timeouts > 0
=============================================================================
