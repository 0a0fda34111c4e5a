------------------------ MODULE ZoneHandoff_proofs ------------------------
(***************************************************************************)
(* Proofs about the way of a character into a zone and from one zone to    *)
(* the next, for any number of clients, characters and zones.  The last    *)
(* section shows that the servers implement CharacterStore.                *)
(***************************************************************************)
EXTENDS ZoneHandoff, TLAPS

-----------------------------------------------------------------------------
(* Queues *)

\* What is left of a queue when its first packet has been read.
LEMMA ReadQueue ==
    ASSUME NEW S, NEW queue \in Seq(S), queue # <<>>
    PROVE  /\ Head(queue) \in S
           /\ Head(queue) = queue[1]
           /\ Tail(queue) \in Seq(S)
           /\ DOMAIN queue = 1 .. Len(queue)
           /\ Len(queue) \in Nat \ {0}
           /\ DOMAIN Tail(queue) = 1 .. Len(queue) - 1
           /\ \A i \in DOMAIN Tail(queue) : Tail(queue)[i] = queue[i + 1]
  OBVIOUS

\* A queue with a packet more.
LEMMA SendQueue ==
    ASSUME NEW S, NEW queue \in Seq(S), NEW packet \in S
    PROVE  /\ Append(queue, packet) \in Seq(S)
           /\ DOMAIN queue = 1 .. Len(queue)
           /\ Len(queue) \in Nat
           /\ DOMAIN Append(queue, packet) = 1 .. Len(queue) + 1
           /\ \A i \in DOMAIN queue : Append(queue, packet)[i] = queue[i]
           /\ Append(queue, packet)[Len(queue) + 1] = packet
  OBVIOUS

\* And with two.
LEMMA SendTwo ==
    ASSUME NEW S, NEW queue \in Seq(S), NEW p \in S, NEW q \in S
    PROVE  /\ queue \o <<p, q>> \in Seq(S)
           /\ DOMAIN queue = 1 .. Len(queue)
           /\ Len(queue) \in Nat
           /\ DOMAIN (queue \o <<p, q>>) = 1 .. Len(queue) + 2
           /\ \A i \in DOMAIN queue : (queue \o <<p, q>>)[i] = queue[i]
           /\ (queue \o <<p, q>>)[Len(queue) + 1] = p
           /\ (queue \o <<p, q>>)[Len(queue) + 2] = q
  OBVIOUS

\* What a crash leaves of a queue.
LEMMA CutQueue ==
    ASSUME NEW S, NEW queue \in Seq(S), NEW n \in 0 .. Len(queue)
    PROVE  /\ SubSeq(queue, 1, n) \in Seq(S)
           /\ DOMAIN queue = 1 .. Len(queue)
           /\ Len(queue) \in Nat
           /\ DOMAIN SubSeq(queue, 1, n) = 1 .. n
           /\ \A i \in 1 .. n : SubSeq(queue, 1, n)[i] = queue[i]
  OBVIOUS
-----------------------------------------------------------------------------
(* Types *)

\* What a zone reads.
LEMMA ZonePackets ==
    ASSUME TypeOK, NEW z \in Zones, toZone[z] # <<>>
    PROVE  LET packet == Head(toZone[z])
           IN  /\ packet \in ToZone
               /\ packet.character \in Characters
               /\ packet.kind = "PlayerEnterPrepare" => packet.token \in Tokens \cup {None}
               /\ packet.kind = "LoadCharacterResponse" => packet.state \in 0 .. MaxState
               /\ packet.kind = "ZoneConnectForward" =>
                      packet.ok \in BOOLEAN /\ packet.ok <=> packet.dest \in Zones
<1>1. toZone[z] \in Seq(ToZone)
  BY DEF TypeOK
<1>2. Head(toZone[z]) \in ToZone
  BY <1>1, ReadQueue
<1> QED
  BY <1>2, WorldAssumption DEF ToZone

\* What WorldLogin reads.
LEMMA WorldPackets ==
    ASSUME TypeOK, NEW z \in Zones, toWorld[z] # <<>>
    PROVE  LET packet == Head(toWorld[z])
           IN  /\ packet \in ToWorld
               /\ packet.character \in Characters
               /\ packet.kind = "ZoneTransferRequest" =>
                      packet.dest \in Zones /\ packet.token \in Tokens \cup {None}
<1>1. toWorld[z] \in Seq(ToWorld)
  BY DEF TypeOK
<1>2. Head(toWorld[z]) \in ToWorld
  BY <1>1, ReadQueue
<1> QED
  BY <1>2 DEF ToWorld

LEMMA ReadTyped ==
    ASSUME TypeOK, NEW z \in Zones
    PROVE  /\ toZone[z] # <<>> =>
                  [toZone EXCEPT ![z] = Tail(@)] \in [Zones -> Seq(ToZone)]
           /\ toWorld[z] # <<>> =>
                  [toWorld EXCEPT ![z] = Tail(@)] \in [Zones -> Seq(ToWorld)]
  BY ReadQueue DEF TypeOK

LEMMA SendTyped ==
    ASSUME TypeOK, NEW z \in Zones
    PROVE  /\ \A packet \in ToZone : SendToZone(z, packet) => toZone' \in [Zones -> Seq(ToZone)]
           /\ \A packet \in ToWorld : Reply(z, packet) => toWorld' \in [Zones -> Seq(ToWorld)]
<1>1. toZone[z] \in Seq(ToZone) /\ toWorld[z] \in Seq(ToWorld)
  BY DEF TypeOK
<1>2. \A packet \in ToZone : Append(toZone[z], packet) \in Seq(ToZone)
  BY <1>1, SendQueue
<1>3. \A packet \in ToWorld : Append(toWorld[z], packet) \in Seq(ToWorld)
  BY <1>1, SendQueue
<1>4. toZone \in [Zones -> Seq(ToZone)] /\ toWorld \in [Zones -> Seq(ToWorld)]
  BY DEF TypeOK
<1>5. \A packet \in ToZone : SendToZone(z, packet) => toZone' \in [Zones -> Seq(ToZone)]
  BY <1>2, <1>4 DEF SendToZone
<1>6. \A packet \in ToWorld : Reply(z, packet) => toWorld' \in [Zones -> Seq(ToWorld)]
  BY <1>3, <1>4 DEF Reply
<1> QED
  BY <1>5, <1>6

LEMMA PacketsTyped ==
    ASSUME NEW c \in Characters
    PROVE  /\ \A token \in Tokens \cup {None} :
                  [kind |-> "PlayerEnterPrepare", character |-> c, token |-> token] \in ToZone
           /\ \A state \in 0 .. MaxState :
                  [kind |-> "LoadCharacterResponse", character |-> c, state |-> state] \in ToZone
           /\ Release(c) \in ToZone
           /\ \A d \in Zones \cup {None} : Forward(c, d) \in ToZone
           /\ [kind |-> "LoadCharacterRequest", character |-> c] \in ToWorld
           /\ [kind |-> "PlayerEnterReady", character |-> c] \in ToWorld
           /\ \A d \in Zones, token \in Tokens \cup {None} :
                  [kind |-> "ZoneTransferRequest", character |-> c, dest |-> d, token |-> token]
                      \in ToWorld
  BY WorldAssumption DEF ToZone, ToWorld, Release, Forward

LEMMA EntityTyped ==
    ASSUME TypeOK, NEW z \in Zones, NEW c \in Characters, players[z][c] # None
    PROVE  /\ players[z][c] \in PlayerEntity
           /\ players[z][c].state \in 0 .. MaxState
           /\ players[z][c].token \in Tokens \cup {None}
           /\ players[z][c].connection \in Clients \cup {None}
  BY DEF TypeOK, PlayerEntity

LEMMA ClientTyped ==
    ASSUME TypeOK, NEW k \in Clients
    PROVE  /\ Plays[k] \in Characters
           /\ client[k] \in ClientState
           /\ client[k].phase \in Phases
           /\ client[k].zone \in Zones \cup {None}
           /\ client[k].token \in Tokens \cup {None}
           /\ client[k].phase \in {"offered", "in", "crossing"} <=> client[k].zone # None
           /\ client[k].phase \in {"offered", "in", "crossing"} => client[k].zone \in Zones
  BY WorldAssumption DEF TypeOK, ClientState

LEMMA RowTyped ==
    ASSUME TypeOK, NEW c \in Characters
    PROVE  db[c] \in Row /\ db[c].zone \in Zones /\ db[c].state \in 0 .. MaxState
  BY DEF TypeOK, Row

\* A row written from the entity of a zone.
LEMMA SavedTyped ==
    ASSUME TypeOK, NEW z \in Zones, NEW c \in Characters, players[z][c] # None
    PROVE  [db EXCEPT ![c] = [zone |-> z, state |-> players[z][c].state]] \in [Characters -> Row]
<1>1. [zone |-> z, state |-> players[z][c].state] \in Row
  BY EntityTyped DEF Row
<1> QED
  BY <1>1 DEF TypeOK

\* A client whose phase and zone go together, and everybody else as before.
LEMMA ClientStepTyped ==
    ASSUME TypeOK, NEW k \in Clients, NEW me \in ClientState,
           me.zone # None <=> me.phase \in {"offered", "in", "crossing"},
           client' = [client EXCEPT ![k] = me]
    PROVE  /\ client' \in [Clients -> ClientState]
           /\ \A j \in Clients : client'[j].zone # None <=>
                                     client'[j].phase \in {"offered", "in", "crossing"}
  BY DEF TypeOK

\* Losing what it deals with takes a client out of its zone.
LEMMA OutTyped ==
    ASSUME TypeOK, NEW k \in Clients, NEW phase \in {"out", "refused"}
    PROVE  /\ Out(k) \in ClientState
           /\ [Out(k) EXCEPT !.phase = phase] \in ClientState
           /\ Out(k).zone = None /\ Out(k).phase = "out"
           /\ [Out(k) EXCEPT !.phase = phase].zone = None
           /\ [Out(k) EXCEPT !.phase = phase].phase = phase
  BY DEF TypeOK, ClientState, Out, Phases

LEMMA PhaseTyped ==
    ASSUME TypeOK, NEW k \in Clients, client[k].zone # None,
           NEW phase \in {"offered", "in", "crossing"}, NEW z \in Zones
    PROVE  /\ [client[k] EXCEPT !.phase = phase] \in ClientState
           /\ [client[k] EXCEPT !.phase = phase].zone # None
           /\ [client[k] EXCEPT !.phase = phase].phase = phase
           /\ [client[k] EXCEPT !.phase = phase, !.zone = z] \in ClientState
           /\ [client[k] EXCEPT !.phase = phase, !.zone = z].zone # None
           /\ [client[k] EXCEPT !.phase = phase, !.zone = z].phase = phase
  BY WorldAssumption DEF TypeOK, ClientState, Phases

LEMMA InitTyped == Init => TypeOK
<1> SUFFICES ASSUME Init PROVE TypeOK
  OBVIOUS
<1>1. db \in [Characters -> Row]
  BY BoundsAssumption DEF Init, Row
<1>2. client \in [Clients -> ClientState]
  BY DEF Init, ClientState, Phases
<1>3. toWorld \in [Zones -> Seq(ToWorld)] /\ toZone \in [Zones -> Seq(ToZone)]
  BY DEF Init
<1> QED
  BY <1>1, <1>2, <1>3, BoundsAssumption DEF Init, TypeOK

\* The steps of a client.
LEMMA ClientActsTyped ==
    ASSUME TypeOK, NEW k \in Clients, ClientActs(k)
    PROVE  TypeOK'
<1>1. CASE SelectCharacter(k)
  <2> DEFINE c == Plays[k]
             token == <<k, logins[k] + 1>>
             me == [phase |-> "selecting", zone |-> None, token |-> token]
  <2>1. c \in Characters /\ db[c].zone \in Zones
    BY ClientTyped, RowTyped
  <2>2. token \in Tokens /\ logins[k] + 1 \in 0 .. MaxLogins
    BY <1>1, BoundsAssumption DEF SelectCharacter, TypeOK, Tokens
  <2>3. me \in ClientState
    BY <2>2 DEF ClientState, Phases
  <2>4. client' = [client EXCEPT ![k] = me]
    BY <1>1 DEF SelectCharacter
  <2>5. toZone' \in [Zones -> Seq(ToZone)]
    BY <1>1, <2>1, <2>2, SendTyped, PacketsTyped DEF SelectCharacter
  <2>6. pendingHandoffs' \in [Characters -> {None} \cup [client : Clients, token : Tokens]]
    BY <1>1, <2>1, <2>2 DEF SelectCharacter, TypeOK
  <2>7. logins' \in [Clients -> 0 .. MaxLogins]
    BY <1>1, <2>2 DEF SelectCharacter, TypeOK
  <2>8. /\ client' \in [Clients -> ClientState]
        /\ \A j \in Clients : client'[j].zone # None <=>
                                  client'[j].phase \in {"offered", "in", "crossing"}
    BY <2>3, <2>4, ClientStepTyped, Zenon
  <2> QED
    BY <1>1, <2>5, <2>6, <2>7, <2>8 DEF SelectCharacter, TypeOK, zone
<1>2. CASE SessionResume(k)
  <2> DEFINE c == Plays[k]
             z == client[k].zone
  <2>1. c \in Characters /\ z \in Zones /\ client[k].token \in Tokens \cup {None}
    BY <1>2, ClientTyped DEF SessionResume
  <2>2. client[k].zone # None
    BY <1>2, ClientTyped DEF SessionResume
  <2>3. CASE players[z][c] # None /\ players[z][c].token \in {None, client[k].token}
    <3> DEFINE e == [players[z][c] EXCEPT !.connection = k, !.token = client[k].token]
    <3>1. players' = [players EXCEPT ![z][c] = e]
      BY <1>2, <2>1, <2>3 DEF SessionResume, TypeOK
    <3>2. e \in PlayerEntity
      <4>1. players[z][c] \in PlayerEntity
        BY <2>1, <2>3, EntityTyped
      <4>2. k \in Clients \cup {None} /\ client[k].token \in Tokens \cup {None}
        BY <2>1
      <4> QED
        BY <4>1, <4>2 DEF PlayerEntity
    <3>3. players' \in [Zones -> [Characters -> {None} \cup PlayerEntity]]
      BY <2>1, <3>1, <3>2 DEF TypeOK
    <3>4. client' = [client EXCEPT ![k] = [client[k] EXCEPT !.phase = "in"]]
      BY <1>2, <2>3 DEF SessionResume
    <3>5. /\ client' \in [Clients -> ClientState]
          /\ \A j \in Clients : client'[j].zone # None <=>
                                    client'[j].phase \in {"offered", "in", "crossing"}
      BY <2>1, <2>2, <3>4, PhaseTyped, ClientStepTyped
    <3>6. hangups' \subseteq Zones \X Clients
      BY <1>2, <2>3 DEF SessionResume, TypeOK
    <3> QED
      BY <1>2, <3>3, <3>5, <3>6 DEF SessionResume, TypeOK, world, links, counts
  <2>4. CASE ~ (players[z][c] # None /\ players[z][c].token \in {None, client[k].token})
    <3>1. client' = [client EXCEPT ![k] = [Out(k) EXCEPT !.phase = "refused"]]
      BY <1>2, <2>4 DEF SessionResume
    <3>2. /\ client' \in [Clients -> ClientState]
          /\ \A j \in Clients : client'[j].zone # None <=>
                                    client'[j].phase \in {"offered", "in", "crossing"}
      BY <3>1, OutTyped, ClientStepTyped
    <3> QED
      BY <1>2, <2>4, <3>2 DEF SessionResume, TypeOK, world, links, counts
  <2> QED
    BY <2>3, <2>4
<1>3. CASE Play(k)
  <2> DEFINE c == Plays[k]
             z == client[k].zone
  <2>1. c \in Characters /\ z \in Zones /\ players[z][c] # None
    BY <1>3, ClientTyped DEF Play, Bound
  <2>2. players[z][c].state + 1 \in 0 .. MaxState
    BY <1>3, <2>1, EntityTyped, BoundsAssumption DEF Play
  <2>3. players' = [players EXCEPT ![z][c] = [players[z][c] EXCEPT !.state = @ + 1]]
    BY <1>3, <2>1 DEF Play, TypeOK
  <2>4. [players[z][c] EXCEPT !.state = @ + 1] \in PlayerEntity
    BY <2>1, <2>2, EntityTyped DEF PlayerEntity
  <2>5. players' \in [Zones -> [Characters -> {None} \cup PlayerEntity]]
    BY <2>1, <2>3, <2>4 DEF TypeOK
  <2>6. db' \in [Characters -> Row]
    BY <1>3, <2>1, <2>2 DEF Play, TypeOK, Row
  <2> QED
    BY <1>3, <2>5, <2>6 DEF Play, TypeOK, world, links, counts
<1>4. ASSUME NEW dest \in Zones, UsePortal(k, dest)
      PROVE  TypeOK'
  <2> DEFINE c == Plays[k]
             z == client[k].zone
  <2>1. c \in Characters /\ z \in Zones /\ players[z][c] # None
    BY <1>4, ClientTyped DEF UsePortal, Bound
  <2>2. db' \in [Characters -> Row]
    BY <1>4, <2>1, SavedTyped DEF UsePortal
  <2>3. toWorld' \in [Zones -> Seq(ToWorld)]
    BY <1>4, <2>1, SendTyped, PacketsTyped, EntityTyped DEF UsePortal
  <2>4. pendingTransfers' \in [Zones -> [Characters -> Clients \cup {None}]]
    BY <1>4, <2>1 DEF UsePortal, TypeOK
  <2>5. client' = [client EXCEPT ![k] = [client[k] EXCEPT !.phase = "crossing"]]
    BY <1>4 DEF UsePortal
  <2>6. /\ client' \in [Clients -> ClientState]
        /\ \A j \in Clients : client'[j].zone # None <=>
                                  client'[j].phase \in {"offered", "in", "crossing"}
    BY <2>1, <2>5, PhaseTyped, ClientStepTyped, WorldAssumption
  <2> QED
    BY <1>4, <2>2, <2>3, <2>4, <2>6 DEF UsePortal, TypeOK, world, counts
<1>5. CASE Stuck(k)
  <2> DEFINE c == Plays[k]
             z == client[k].zone
  <2>1. c \in Characters /\ z \in Zones /\ players[z][c] # None
    BY <1>5, ClientTyped DEF Stuck, Bound
  <2>2. db' \in [Characters -> Row]
    BY <1>5, <2>1, SavedTyped DEF Stuck
  <2>3. pendingTransfers' \in [Zones -> [Characters -> Clients \cup {None}]]
    BY <1>5, <2>1 DEF Stuck, TypeOK
  <2> QED
    BY <1>5, <2>2, <2>3 DEF Stuck, TypeOK, world, links, counts
<1>6. CASE Quit(k)
  <2>1. client' = [client EXCEPT ![k] = Out(k)]
    BY <1>6 DEF Quit
  <2>2. /\ client' \in [Clients -> ClientState]
        /\ \A j \in Clients : client'[j].zone # None <=>
                                  client'[j].phase \in {"offered", "in", "crossing"}
    BY <2>1, OutTyped, ClientStepTyped
  <2>3. hangups' \subseteq Zones \X Clients
    BY <1>6, ClientTyped DEF Quit, TypeOK
  <2> QED
    BY <1>6, <2>2, <2>3 DEF Quit, TypeOK, world, links, zone, counts
<1>7. CASE StopWaiting(k)
  <2>1. client' = [client EXCEPT ![k] = [client[k] EXCEPT !.phase = "in"]]
    BY <1>7 DEF StopWaiting
  <2>2. /\ client' \in [Clients -> ClientState]
        /\ \A j \in Clients : client'[j].zone # None <=>
                                  client'[j].phase \in {"offered", "in", "crossing"}
    <3>1. client[k].zone \in Zones
      BY <1>7, ClientTyped DEF StopWaiting
    <3> QED
      BY <2>1, <3>1, PhaseTyped, ClientStepTyped, WorldAssumption
  <2>3. timeouts' \in 0 .. MaxTimeouts
    BY <1>7, BoundsAssumption DEF StopWaiting, TypeOK
  <2> QED
    BY <1>7, <2>2, <2>3 DEF StopWaiting, TypeOK, world, links, zone
<1> QED
  BY <1>1, <1>2, <1>3, <1>4, <1>5, <1>6, <1>7 DEF ClientActs

\* The steps of a zone server.
LEMMA ZoneReadsTyped ==
    ASSUME TypeOK, NEW z \in Zones, ZoneReads(z)
    PROVE  TypeOK'
<1> DEFINE packet == Head(toZone[z])
           c == packet.character
<1>0. /\ toZone[z] # <<>>
      /\ c \in Characters
      /\ toZone' \in [Zones -> Seq(ToZone)]
  <2>1. toZone[z] # <<>> /\ toZone' = [toZone EXCEPT ![z] = Tail(@)]
    BY DEF ZoneReads, PlayerEnterPrepare, LoadCharacterResponse, ZoneTransferAuthorize,
           ZoneConnectForward, Arrives
  <2> QED
    BY <2>1, ZonePackets, ReadTyped
<1>1. CASE PlayerEnterPrepare(z)
  <2>1. toWorld' \in [Zones -> Seq(ToWorld)]
    BY <1>0, <1>1, SendTyped, PacketsTyped DEF PlayerEnterPrepare, AskForCharacter
  <2>2. players' \in [Zones -> [Characters -> {None} \cup PlayerEntity]]
    BY <1>0, <1>1 DEF PlayerEnterPrepare, TypeOK
  <2>3. pendingToken' \in [Zones -> Tokens \cup {None}]
    BY <1>0, <1>1, ZonePackets DEF PlayerEnterPrepare, Arrives, TypeOK
  <2> QED
    BY <1>0, <1>1, <2>1, <2>2, <2>3 DEF PlayerEnterPrepare, TypeOK, world, counts
<1>2. CASE LoadCharacterResponse(z)
  <2>1. toWorld' \in [Zones -> Seq(ToWorld)]
    BY <1>0, <1>2, SendTyped, PacketsTyped DEF LoadCharacterResponse
  <2>2. [state |-> packet.state, token |-> pendingToken[z], connection |-> None] \in PlayerEntity
    BY <1>0, <1>2, ZonePackets DEF LoadCharacterResponse, Arrives, TypeOK, PlayerEntity
  <2>3. players' \in [Zones -> [Characters -> {None} \cup PlayerEntity]]
    BY <1>0, <1>2, <2>2 DEF LoadCharacterResponse, TypeOK
  <2> QED
    BY <1>0, <1>2, <2>1, <2>3 DEF LoadCharacterResponse, TypeOK, world, counts
<1>3. CASE ZoneTransferAuthorize(z)
  <2>1. players' \in [Zones -> [Characters -> {None} \cup PlayerEntity]]
    BY <1>0, <1>3 DEF ZoneTransferAuthorize, TypeOK
  <2>2. db' \in [Characters -> Row]
    BY <1>0, <1>3, SavedTyped DEF ZoneTransferAuthorize, TypeOK
  <2> QED
    BY <1>0, <1>3, <2>1, <2>2 DEF ZoneTransferAuthorize, TypeOK, world, counts
<1>4. CASE ZoneConnectForward(z)
  <2> DEFINE k == pendingTransfers[z][c]
             waiting == k # None /\ client[k].phase = "crossing" /\ client[k].zone = z
  <2>1. pendingTransfers' \in [Zones -> [Characters -> Clients \cup {None}]]
    BY <1>0, <1>4 DEF ZoneConnectForward, TypeOK
  <2>2. waiting => k \in Clients
    BY <1>0 DEF TypeOK
  <2>3. /\ client' \in [Clients -> ClientState]
        /\ \A j \in Clients : client'[j].zone # None <=>
                                  client'[j].phase \in {"offered", "in", "crossing"}
        /\ hangups' \subseteq Zones \X Clients
    <3>1. CASE ~ waiting
      BY <1>4, <3>1 DEF ZoneConnectForward, TypeOK
    <3>2. CASE waiting /\ packet.ok
      <4> DEFINE me == [client[k] EXCEPT !.phase = "offered", !.zone = packet.dest]
      <4>1. client' = [client EXCEPT ![k] = me]
        BY <1>4, <3>2 DEF ZoneConnectForward
      <4>2. packet.dest \in Zones
        BY <1>4, <3>2, ZonePackets DEF ZoneConnectForward, Arrives
      <4>3. client[k].zone # None /\ hangups' = hangups \cup {<<z, k>>}
        BY <1>4, <2>2, <3>2, ClientTyped DEF ZoneConnectForward
      <4>4. hangups' \subseteq Zones \X Clients
        BY <2>2, <3>2, <4>3 DEF TypeOK
      <4>5. me \in ClientState /\ me.zone # None /\ me.phase = "offered"
        <5>1. client[k] \in ClientState
          BY <2>2, <3>2 DEF TypeOK
        <5> QED
          BY <4>2, <5>1, WorldAssumption DEF ClientState, Phases
      <4>6. k \in Clients
        BY <2>2, <3>2
      <4> HIDE DEF me, k
      <4> QED
        BY <4>1, <4>4, <4>5, <4>6, ClientStepTyped
    <3>3. CASE waiting /\ ~ packet.ok
      <4>1. client' = [client EXCEPT ![k] = [client[k] EXCEPT !.phase = "in"]]
        BY <1>4, <3>3 DEF ZoneConnectForward
      <4>2. client[k].zone # None /\ hangups' = hangups
        BY <1>4, <2>2, <3>3, ClientTyped DEF ZoneConnectForward
      <4> QED
        BY <2>2, <3>3, <4>1, <4>2, PhaseTyped, ClientStepTyped DEF TypeOK
    <3> QED
      BY <3>1, <3>2, <3>3
  <2> QED
    BY <1>0, <1>4, <2>1, <2>3 DEF ZoneConnectForward, TypeOK, world, counts
<1> QED
  BY <1>1, <1>2, <1>3, <1>4 DEF ZoneReads

LEMMA HangupTyped ==
    ASSUME TypeOK, NEW z \in Zones, NEW k \in Clients, Hangup(z, k)
    PROVE  TypeOK'
<1>1. Plays[k] \in Characters
  BY ClientTyped
<1>2. Bound(k, z) => players[z][Plays[k]] # None
  BY DEF Bound
<1>3. db \in [Characters -> Row] /\ players \in [Zones -> [Characters -> {None} \cup PlayerEntity]]
  BY DEF TypeOK
<1>4. CASE Bound(k, z)
  <2>1. db' \in [Characters -> Row]
    BY <1>1, <1>2, <1>4, SavedTyped DEF Hangup
  <2>2. players' = [players EXCEPT ![z][Plays[k]] = None]
    BY <1>4 DEF Hangup
  <2>3. players' \in [Zones -> [Characters -> {None} \cup PlayerEntity]]
    BY <1>1, <1>3, <2>2
  <2> QED
    BY <2>1, <2>3 DEF Hangup, TypeOK, world, links, counts
<1>5. CASE ~ Bound(k, z)
  BY <1>5 DEF Hangup, TypeOK, world, links, counts
<1> QED
  BY <1>4, <1>5

\* The steps of WorldLogin.
LEMMA WorldReadsTyped ==
    ASSUME TypeOK, NEW z \in Zones, WorldReads(z)
    PROVE  TypeOK'
<1> DEFINE packet == Head(toWorld[z])
           c == packet.character
<1>0. /\ toWorld[z] # <<>>
      /\ c \in Characters
      /\ toWorld' \in [Zones -> Seq(ToWorld)]
  <2>1. toWorld[z] # <<>> /\ toWorld' = [toWorld EXCEPT ![z] = Tail(@)]
    BY DEF WorldReads, LoadCharacterRequest, ZoneTransferRequest, ReadyToCross, ReadyToEnter,
           Read, Arrives
  <2> QED
    BY <2>1, WorldPackets, ReadTyped
<1>1. CASE LoadCharacterRequest(z)
  <2>1. toZone' \in [Zones -> Seq(ToZone)]
    BY <1>0, <1>1, SendTyped, PacketsTyped, RowTyped DEF LoadCharacterRequest
  <2> QED
    BY <1>0, <1>1, <2>1 DEF LoadCharacterRequest, TypeOK, world, zone, counts
<1>2. CASE ZoneTransferRequest(z)
  <2>1. packet.dest \in Zones /\ packet.token \in Tokens \cup {None}
    BY <1>2, WorldPackets DEF ZoneTransferRequest, Read, Arrives
  <2>2. db' \in [Characters -> Row]
    <3>1. db' = [db EXCEPT ![c] = [db[c] EXCEPT !.zone = packet.dest]]
      BY <1>2 DEF ZoneTransferRequest
    <3>2. [db[c] EXCEPT !.zone = packet.dest] \in Row
      BY <1>0, <2>1, RowTyped DEF Row
    <3> QED
      BY <1>0, <3>1, <3>2 DEF TypeOK
  <2>3. toZone' \in [Zones -> Seq(ToZone)]
    BY <1>0, <1>2, <2>1, SendTyped, PacketsTyped DEF ZoneTransferRequest, Refuse
  <2>4. pendingZoneTransfers' \in [Characters -> {None} \cup Transfer]
    BY <1>0, <1>2, <2>1 DEF ZoneTransferRequest, TypeOK, Transfer
  <2> QED
    BY <1>0, <1>2, <2>2, <2>3, <2>4 DEF ZoneTransferRequest, TypeOK, zone, counts
<1>3. CASE ReadyToCross(z)
  <2> DEFINE transfer == pendingZoneTransfers[c]
  <2>1. transfer.source \in Zones /\ transfer.dest \in Zones
    BY <1>0, <1>3 DEF ReadyToCross, TypeOK, Transfer
  <2>2. toZone' \in [Zones -> Seq(ToZone)]
    <3>1. Release(c) \in ToZone /\ Forward(c, transfer.dest) \in ToZone
      BY <1>0, <2>1, PacketsTyped
    <3>2. toZone[transfer.source] \o Orders(c, transfer) \in Seq(ToZone)
      BY <2>1, <3>1, SendTwo DEF TypeOK, Orders
    <3> QED
      BY <1>3, <2>1, <3>2 DEF ReadyToCross, TypeOK
  <2>3. pendingZoneTransfers' \in [Characters -> {None} \cup Transfer]
    BY <1>0, <1>3 DEF ReadyToCross, TypeOK
  <2> QED
    BY <1>0, <1>3, <2>2, <2>3 DEF ReadyToCross, TypeOK, zone, counts
<1>4. CASE ReadyToEnter(z)
  <2> DEFINE handoff == pendingHandoffs[c]
             k == handoff.client
             told == /\ handoff # None
                     /\ client[k].phase = "selecting"
                     /\ client[k].token = handoff.token
  <2>1. handoff # None => k \in Clients
    BY <1>0 DEF TypeOK
  <2>2. pendingHandoffs' \in [Characters -> {None} \cup [client : Clients, token : Tokens]]
    BY <1>0, <1>4 DEF ReadyToEnter, TypeOK
  <2>3. /\ client' \in [Clients -> ClientState]
        /\ \A j \in Clients : client'[j].zone # None <=>
                                  client'[j].phase \in {"offered", "in", "crossing"}
    <3>1. CASE ~ told
      BY <1>4, <3>1 DEF ReadyToEnter, TypeOK
    <3>2. CASE told /\ db[c].zone \in zones
      <4> DEFINE me == [client[k] EXCEPT !.phase = "offered", !.zone = db[c].zone]
      <4>1. client' = [client EXCEPT ![k] = me]
        BY <1>4, <3>2 DEF ReadyToEnter
      <4>2. db[c].zone \in Zones
        BY <1>0, RowTyped
      <4>3. client[k] \in ClientState
        BY <2>1, <3>2 DEF TypeOK
      <4>4. me \in ClientState /\ me.phase = "offered" /\ me.zone # None
        BY <4>2, <4>3, WorldAssumption DEF ClientState, Phases
      <4> QED
        BY <2>1, <3>2, <4>1, <4>4, ClientStepTyped
    <3>3. CASE told /\ db[c].zone \notin zones
      <4>1. client' = [client EXCEPT ![k] = Out(k)]
        BY <1>4, <3>3 DEF ReadyToEnter
      <4> QED
        BY <2>1, <3>3, <4>1, OutTyped, ClientStepTyped
    <3> QED
      BY <3>1, <3>2, <3>3
  <2> QED
    BY <1>0, <1>4, <2>2, <2>3 DEF ReadyToEnter, TypeOK, zone, counts
<1> QED
  BY <1>1, <1>2, <1>3, <1>4 DEF WorldReads

LEMMA RegisterTyped ==
    ASSUME TypeOK, NEW z \in Zones, ZoneRegister(z)
    PROVE  TypeOK'
  BY DEF ZoneRegister, TypeOK, zone, counts

LEMMA CrashTyped ==
    ASSUME TypeOK, NEW z \in Zones, ZoneCrash(z)
    PROVE  TypeOK'
<1>1. toZone' \in [Zones -> Seq(ToZone)]
  BY DEF ZoneCrash, TypeOK
<1>2. toWorld' \in [Zones -> Seq(ToWorld)]
  <2>1. PICK n \in 0 .. Len(toWorld[z]) :
            toWorld' = [toWorld EXCEPT ![z] = SubSeq(toWorld[z], 1, n)]
    BY DEF ZoneCrash
  <2>2. SubSeq(toWorld[z], 1, n) \in Seq(ToWorld)
    BY CutQueue DEF TypeOK
  <2> QED
    BY <2>1, <2>2 DEF TypeOK
<1>3. /\ players' \in [Zones -> [Characters -> {None} \cup PlayerEntity]]
      /\ pendingToken' \in [Zones -> Tokens \cup {None}]
      /\ pendingTransfers' \in [Zones -> [Characters -> Clients \cup {None}]]
  BY DEF ZoneCrash, TypeOK
<1>4. /\ client' \in [Clients -> ClientState]
      /\ \A j \in Clients : client'[j].zone # None <=>
                                client'[j].phase \in {"offered", "in", "crossing"}
  <2>1. \A k \in Clients : /\ Out(k) \in ClientState
                           /\ Out(k).zone = None /\ Out(k).phase = "out"
    BY OutTyped
  <2> QED
    BY <2>1 DEF ZoneCrash, TypeOK
<1>5. crashes' \in 0 .. MaxCrashes
  BY BoundsAssumption DEF ZoneCrash, TypeOK
<1> QED
  BY <1>1, <1>2, <1>3, <1>4, <1>5 DEF ZoneCrash, TypeOK, world

LEMMA StepTyped ==
    ASSUME TypeOK, [Next]_vars
    PROVE  TypeOK'
<1>1. CASE UNCHANGED vars
  BY <1>1 DEF TypeOK, vars, world, links, zone, counts
<1> QED
  BY <1>1, ClientActsTyped, HangupTyped, ZoneReadsTyped, WorldReadsTyped, RegisterTyped,
     CrashTyped DEF Next

\* Every variable keeps its type, and a client has a zone exactly while it deals with one:
\* portals, refusals, hang-ups and dying zones leave no client in a zone it has no
\* connection to (SessionResume, handleUsePortal, handleClientDisconnect, ZoneCrash).
THEOREM TypeCorrect == Spec => []TypeOK
<1>1. Init => TypeOK
  BY InitTyped
<1>2. TypeOK /\ [Next]_vars => TypeOK'
  BY StepTyped
<1> QED
  BY <1>1, <1>2, PTL DEF Spec
-----------------------------------------------------------------------------
(* One home *)

\* Nobody but one client has asked to play the character, and it has done so once.
AskedForOnce(c) ==
    \A j, k \in Clients :
        Plays[j] = c /\ Plays[k] = c /\ logins[j] > 0 /\ logins[k] > 0 => j = k /\ logins[k] = 1

\* Who is told of a character, or bound to it, is a client that plays it and has logged in.
OwnNames ==
    /\ \A k \in Clients : logins[k] = 0 => client[k].phase = "out"
    /\ \A c \in Characters : pendingHandoffs[c] # None => Plays[pendingHandoffs[c].client] = c
    /\ \A c \in Characters, z \in Zones :
          pendingTransfers[z][c] # None => Plays[pendingTransfers[z][c]] = c
    /\ \A c \in Characters, z \in Zones :
          players[z][c] # None /\ players[z][c].connection # None =>
              /\ Plays[players[z][c].connection] = c
              /\ logins[players[z][c].connection] > 0

\* In front of every order to send a client on stands the one to let its player go, or
\* that one has been carried out.
LetGo(queue, inside) ==
    \A i \in DOMAIN queue :
        queue[i].kind = "ZoneConnectForward" /\ queue[i].ok =>
            LET c == queue[i].character
            IN  IF i = 1 THEN inside[c] = None ELSE queue[i - 1] = Release(c)

LetGoFirst == \A z \in Zones : LetGo(toZone[z], players[z])

\* Of the zones at most one has the player of this client, and only the one the client
\* deals with can have it.
OneBinding(k) ==
    /\ client[k].phase \in {"selecting", "offered"} => \A z \in Zones : ~ Bound(k, z)
    /\ client[k].phase \in {"in", "crossing"} =>
           \A z \in Zones : Bound(k, z) => z = client[k].zone
    /\ \A y, z \in Zones : Bound(k, y) /\ Bound(k, z) => y = z

HomeInv ==
    /\ OwnNames
    /\ LetGoFirst
    /\ \A k \in Clients : AskedForOnce(Plays[k]) => OneBinding(k)

\* What OneHome says of one character.
OneHomeOf(c) ==
    \A y, z \in Zones :
        /\ players[y][c] # None /\ players[y][c].connection # None
        /\ players[z][c] # None /\ players[z][c].connection # None
        => y = z

\* A character that has been asked for twice stays so.
LEMMA LoginsGrow ==
    ASSUME TypeOK, [Next]_vars
    PROVE  /\ \A k \in Clients : logins[k] \in Nat /\ logins'[k] \in Nat /\ logins'[k] >= logins[k]
           /\ \A k \in Clients : logins'[k] = logins[k] \/ SelectCharacter(k)
<1>1. \A k \in Clients : logins[k] \in Nat
  BY BoundsAssumption DEF TypeOK
<1>2. CASE \E k \in Clients : SelectCharacter(k)
  <2>1. PICK k \in Clients : SelectCharacter(k)
    BY <1>2
  <2>2. logins' = [logins EXCEPT ![k] = logins[k] + 1]
    BY <2>1 DEF SelectCharacter
  <2>3. \A j \in Clients : logins'[j] = IF j = k THEN logins[j] + 1 ELSE logins[j]
    BY <2>2 DEF TypeOK
  <2> QED
    BY <1>1, <2>1, <2>3
<1>3. CASE \A k \in Clients : ~ SelectCharacter(k)
  <2>1. logins' = logins
    BY <1>3 DEF Next, vars, counts, ClientActs, SessionResume, Play, UsePortal, Stuck, Quit,
                StopWaiting, Hangup, ZoneReads, PlayerEnterPrepare, LoadCharacterResponse,
                ZoneTransferAuthorize, ZoneConnectForward, WorldReads, LoadCharacterRequest,
                ZoneTransferRequest, ReadyToCross, ReadyToEnter, ZoneRegister, ZoneCrash
  <2> QED
    BY <1>1, <2>1
<1> QED
  BY <1>2, <1>3

LEMMA AskedForOnceBefore ==
    ASSUME TypeOK, [Next]_vars, NEW c \in Characters, AskedForOnce(c)'
    PROVE  AskedForOnce(c)
  BY LoginsGrow DEF AskedForOnce

LEMMA InitHome == Init => HomeInv
<1> SUFFICES ASSUME Init PROVE HomeInv
  OBVIOUS
<1>1. OwnNames
  BY DEF Init, OwnNames
<1>2. LetGoFirst
  <2>1. \A z \in Zones : toZone[z] = <<>>
    BY DEF Init
  <2> QED
    BY <2>1 DEF LetGoFirst, LetGo
<1>3. \A k \in Clients : OneBinding(k)
  BY WorldAssumption DEF Init, OneBinding, Bound
<1> QED
  BY <1>1, <1>2, <1>3 DEF HomeInv

LEMMA OwnNamesKept ==
    ASSUME TypeOK, OwnNames, [Next]_vars
    PROVE  OwnNames'
<1> USE DEF OwnNames
<1>0. ASSUME NEW j \in Clients PROVE logins[j] > 0 => logins'[j] > 0
  BY LoginsGrow
<1>1. ASSUME NEW k \in Clients, SelectCharacter(k) PROVE OwnNames'
  <2>1. logins'[k] > 0 /\ \A j \in Clients \ {k} : logins'[j] = logins[j] /\ client'[j] = client[j]
    BY <1>1, BoundsAssumption DEF SelectCharacter, TypeOK
  <2>2. \A c \in Characters : pendingHandoffs'[c] # None => Plays[pendingHandoffs'[c].client] = c
    BY <1>1 DEF SelectCharacter, TypeOK
  <2>3. players' = players /\ pendingTransfers' = pendingTransfers
    BY <1>1 DEF SelectCharacter, zone
  <2>4. \A z \in Zones, c \in Characters :
            players[z][c] # None => players[z][c].connection \in Clients \cup {None}
    BY EntityTyped
  <2> QED
    BY <1>0, <2>1, <2>2, <2>3, <2>4
<1>2. ASSUME NEW k \in Clients, SessionResume(k) PROVE OwnNames'
  <2>1. Plays[k] \in Characters /\ client[k].zone \in Zones /\ logins[k] > 0
    BY <1>2, ClientTyped, LoginsGrow DEF SessionResume
  <2>2. \A z \in Zones, c \in Characters :
            players'[z][c] # None =>
                \/ players'[z][c] = players[z][c]
                \/ Plays[k] = c /\ players'[z][c].connection = k
    <3>1. CASE UNCHANGED players
      BY <3>1
    <3>2. CASE players' = [players EXCEPT ![client[k].zone][Plays[k]] =
                               [@ EXCEPT !.connection = k, !.token = client[k].token]]
               /\ players[client[k].zone][Plays[k]] # None
      <4>1. players[client[k].zone][Plays[k]] \in PlayerEntity
        BY <2>1, <3>2, EntityTyped
      <4> QED
        BY <2>1, <3>2, <4>1 DEF TypeOK, PlayerEntity
    <3> QED
      BY <1>2, <3>1, <3>2 DEF SessionResume
  <2>3. \A j \in Clients : client'[j] = client[j] \/ j = k
    BY <1>2 DEF SessionResume, TypeOK
  <2>4. logins' = logins /\ pendingHandoffs' = pendingHandoffs /\ pendingTransfers' = pendingTransfers
    BY <1>2 DEF SessionResume, counts, world
  <2> QED
    BY <2>1, <2>2, <2>3, <2>4
<1>3. ASSUME NEW k \in Clients, Play(k) PROVE OwnNames'
  <2>1. Plays[k] \in Characters /\ client[k].zone \in Zones
    BY <1>3, ClientTyped DEF Play
  <2>2. \A z \in Zones, c \in Characters :
            players'[z][c] # None => /\ players[z][c] # None
                                     /\ players'[z][c].connection = players[z][c].connection
    <3>1. players[client[k].zone][Plays[k]] \in PlayerEntity
      BY <1>3, <2>1, EntityTyped DEF Play, Bound
    <3> QED
      BY <1>3, <2>1, <3>1 DEF Play, Bound, TypeOK, PlayerEntity
  <2>3. UNCHANGED <<pendingHandoffs, pendingTransfers, client, logins>>
    BY <1>3 DEF Play, world, counts
  <2>4. \A z \in Zones, c \in Characters :
            players'[z][c] # None /\ players'[z][c].connection # None =>
                /\ Plays[players'[z][c].connection] = c
                /\ logins[players'[z][c].connection] > 0
    BY <2>2
  <2> QED
    BY <2>3, <2>4
<1>4. ASSUME NEW k \in Clients, NEW dest \in Zones, UsePortal(k, dest) PROVE OwnNames'
  BY <1>4, ClientTyped, LoginsGrow DEF UsePortal, world, counts, TypeOK
<1>5. ASSUME NEW k \in Clients, Stuck(k) PROVE OwnNames'
  BY <1>5, ClientTyped DEF Stuck, world, counts, TypeOK
<1>6. ASSUME NEW k \in Clients, Quit(k) PROVE OwnNames'
  BY <1>6, OutTyped DEF Quit, world, zone, counts, TypeOK
<1>7. ASSUME NEW k \in Clients, StopWaiting(k) PROVE OwnNames'
  BY <1>7, LoginsGrow DEF StopWaiting, world, zone, TypeOK
<1>8. ASSUME NEW z \in Zones, NEW k \in Clients, Hangup(z, k) PROVE OwnNames'
  <2>1. \A y \in Zones, c \in Characters :
            players'[y][c] # None => players'[y][c] = players[y][c]
    <3>1. CASE Bound(k, z)
      <4>1. players' = [players EXCEPT ![z][Plays[k]] = None]
        BY <1>8, <3>1 DEF Hangup
      <4> QED
        BY <4>1, ClientTyped DEF TypeOK
    <3>2. CASE ~ Bound(k, z)
      BY <1>8, <3>2 DEF Hangup
    <3> QED
      BY <3>1, <3>2
  <2> QED
    BY <1>8, <2>1 DEF Hangup, world, counts
<1>9. ASSUME NEW z \in Zones, PlayerEnterPrepare(z) PROVE OwnNames'
  BY <1>9, ZonePackets DEF PlayerEnterPrepare, Arrives, world, counts, TypeOK
<1>10. ASSUME NEW z \in Zones, LoadCharacterResponse(z) PROVE OwnNames'
  BY <1>10, ZonePackets DEF LoadCharacterResponse, Arrives, world, counts, TypeOK
<1>11. ASSUME NEW z \in Zones, ZoneTransferAuthorize(z) PROVE OwnNames'
  <2>1. UNCHANGED <<pendingHandoffs, client, logins>>
    BY <1>11 DEF ZoneTransferAuthorize, world, counts
  <2>2. \A y \in Zones, c \in Characters :
            players'[y][c] # None => players'[y][c] = players[y][c]
    BY <1>11, ZonePackets DEF ZoneTransferAuthorize, Arrives, TypeOK
  <2>3. \A y \in Zones, c \in Characters :
            pendingTransfers'[y][c] # None => pendingTransfers'[y][c] = pendingTransfers[y][c]
    BY <1>11, ZonePackets DEF ZoneTransferAuthorize, Arrives, TypeOK
  <2> QED
    BY <2>1, <2>2, <2>3
<1>12. ASSUME NEW z \in Zones, ZoneConnectForward(z) PROVE OwnNames'
  <2>0. PICK c : c = Head(toZone[z]).character
    OBVIOUS
  <2>1. \A k \in Clients : logins[k] = 0 => client'[k] = client[k]
    <3>1. client \in [Clients -> ClientState]
      BY DEF TypeOK
    <3>2. PICK j : j = pendingTransfers[z][c]
      OBVIOUS
    <3>3. CASE client' = client
      BY <3>3
    <3>4. CASE client' # client
      <4>1. client[j].phase = "crossing" /\ \E new : client' = [client EXCEPT ![j] = new]
        BY <1>12, <2>0, <3>2, <3>4, Zenon DEF ZoneConnectForward
      <4> QED
        BY <3>1, <4>1
    <3> QED
      BY <3>3, <3>4
  <2>2. \A y \in Zones, x \in Characters :
            pendingTransfers'[y][x] # None => pendingTransfers'[y][x] = pendingTransfers[y][x]
    <3>1. pendingTransfers' = [pendingTransfers EXCEPT ![z][c] = None]
      BY <1>12, <2>0 DEF ZoneConnectForward
    <3>2. pendingTransfers \in [Zones -> [Characters -> Clients \cup {None}]]
      BY DEF TypeOK
    <3>3. ASSUME NEW y \in Zones, NEW x \in Characters
          PROVE  pendingTransfers'[y][x] \in {pendingTransfers[y][x], None}
      BY <3>1, <3>2
    <3> QED
      BY <3>3
  <2>3. UNCHANGED <<players, pendingHandoffs, logins>>
    BY <1>12 DEF ZoneConnectForward, world, counts
  <2> QED
    BY <2>1, <2>2, <2>3
<1>13. ASSUME NEW z \in Zones, WorldReads(z) PROVE OwnNames'
  <2>1. \A k \in Clients : logins[k] = 0 => client'[k] = client[k]
    BY <1>13 DEF WorldReads, LoadCharacterRequest, ZoneTransferRequest, ReadyToCross,
                 ReadyToEnter, zone, TypeOK
  <2>2. \A c \in Characters :
            pendingHandoffs'[c] # None => pendingHandoffs'[c] = pendingHandoffs[c]
    BY <1>13, WorldPackets DEF WorldReads, LoadCharacterRequest, ZoneTransferRequest,
            ReadyToCross, ReadyToEnter, Read, Arrives, world, TypeOK
  <2>3. UNCHANGED <<players, pendingTransfers, logins>>
    BY <1>13 DEF WorldReads, LoadCharacterRequest, ZoneTransferRequest, ReadyToCross,
                 ReadyToEnter, zone, counts
  <2> QED
    BY <2>1, <2>2, <2>3
<1>14. ASSUME NEW z \in Zones, ZoneRegister(z) PROVE OwnNames'
  BY <1>14 DEF ZoneRegister, zone, counts
<1>15. ASSUME NEW z \in Zones, ZoneCrash(z) PROVE OwnNames'
  <2>1. \A k \in Clients : client[k].phase = "out" => client'[k].phase = "out"
    BY <1>15, OutTyped DEF ZoneCrash
  <2>2. \A y \in Zones, c \in Characters :
            players'[y][c] # None => players'[y][c] = players[y][c]
    BY <1>15 DEF ZoneCrash, TypeOK
  <2>3. \A y \in Zones, c \in Characters :
            pendingTransfers'[y][c] # None => pendingTransfers'[y][c] = pendingTransfers[y][c]
    BY <1>15 DEF ZoneCrash, TypeOK
  <2>4. UNCHANGED <<pendingHandoffs, logins>>
    BY <1>15 DEF ZoneCrash, world
  <2> QED
    BY <2>1, <2>2, <2>3, <2>4
<1>16. CASE UNCHANGED vars
  BY <1>16 DEF vars, world, zone, counts
<1> QED
  BY <1>1, <1>2, <1>3, <1>4, <1>5, <1>6, <1>7, <1>8, <1>9, <1>10, <1>11, <1>12, <1>13, <1>14,
     <1>15, <1>16 DEF Next, ClientActs, ZoneReads

\* A zone reads a packet.
LEMMA LetGoRead ==
    ASSUME NEW queue \in Seq(ToZone), queue # <<>>, NEW inside, NEW left, LetGo(queue, inside),
           \A c \in Characters : Head(queue) = Release(c) => left[c] = None
    PROVE  LetGo(Tail(queue), left)
<1> SUFFICES ASSUME NEW i \in DOMAIN Tail(queue),
                    Tail(queue)[i].kind = "ZoneConnectForward", Tail(queue)[i].ok
             PROVE  LET c == Tail(queue)[i].character
                    IN  IF i = 1 THEN left[c] = None ELSE Tail(queue)[i - 1] = Release(c)
  BY DEF LetGo
<1> DEFINE c == Tail(queue)[i].character
<1>1. /\ Head(queue) = queue[1]
      /\ DOMAIN queue = 1 .. Len(queue) /\ Len(queue) \in Nat
      /\ DOMAIN Tail(queue) = 1 .. Len(queue) - 1
      /\ \A j \in 1 .. Len(queue) - 1 : Tail(queue)[j] = queue[j + 1]
  BY ReadQueue
<1>2. i \in 1 .. Len(queue) - 1 /\ i + 1 \in 1 .. Len(queue) /\ i + 1 # 1 /\ Tail(queue)[i] = queue[i + 1]
  BY <1>1
<1>3. queue[i] = Release(c)
  BY <1>1, <1>2 DEF LetGo
<1>4. c \in Characters
  <2>1. queue[i + 1] \in ToZone
    BY <1>1, <1>2
  <2> QED
    BY <1>2, <2>1 DEF ToZone
<1>5. CASE i = 1
  BY <1>1, <1>3, <1>4, <1>5
<1>6. CASE i # 1
  <2>1. i - 1 \in 1 .. Len(queue) - 1 /\ Tail(queue)[i - 1] = queue[i]
    BY <1>1, <1>2, <1>6
  <2> QED
    BY <1>3, <1>6, <2>1
<1> QED
  BY <1>5, <1>6

\* A packet is sent that is no order to send a client on.
LEMMA LetGoSend ==
    ASSUME NEW queue \in Seq(ToZone), NEW inside, LetGo(queue, inside), NEW packet \in ToZone,
           ~ (packet.kind = "ZoneConnectForward" /\ packet.ok)
    PROVE  LetGo(Append(queue, packet), inside)
<1>1. /\ DOMAIN queue = 1 .. Len(queue) /\ Len(queue) \in Nat
      /\ DOMAIN Append(queue, packet) = 1 .. Len(queue) + 1
      /\ \A i \in DOMAIN queue : Append(queue, packet)[i] = queue[i]
      /\ Append(queue, packet)[Len(queue) + 1] = packet
  BY SendQueue
<1> QED
  BY <1>1 DEF LetGo

\* The source of a transfer gets both orders.
LEMMA LetGoOrders ==
    ASSUME NEW queue \in Seq(ToZone), NEW inside, LetGo(queue, inside),
           NEW c \in Characters, NEW d \in Zones
    PROVE  LetGo(queue \o <<Release(c), Forward(c, d)>>, inside)
<1> DEFINE longer == queue \o <<Release(c), Forward(c, d)>>
<1>1. Release(c) \in ToZone /\ Forward(c, d) \in ToZone
  BY PacketsTyped
<1>2. /\ DOMAIN queue = 1 .. Len(queue) /\ Len(queue) \in Nat
      /\ DOMAIN longer = 1 .. Len(queue) + 2
      /\ \A i \in DOMAIN queue : longer[i] = queue[i]
      /\ longer[Len(queue) + 1] = Release(c)
      /\ longer[Len(queue) + 2] = Forward(c, d)
  BY <1>1, SendTwo
<1>3. /\ Release(c).kind # "ZoneConnectForward"
      /\ Forward(c, d).character = c
  BY DEF Release, Forward
<1> HIDE DEF longer
<1>4. ASSUME NEW i \in DOMAIN longer, longer[i].kind = "ZoneConnectForward", longer[i].ok
      PROVE  IF i = 1 THEN inside[longer[i].character] = None
             ELSE longer[i - 1] = Release(longer[i].character)
  <2>1. CASE i \in DOMAIN queue
    <3>1. longer[i] = queue[i] /\ (i # 1 => i - 1 \in DOMAIN queue)
      BY <1>2, <2>1
    <3> QED
      BY <1>2, <1>4, <2>1, <3>1 DEF LetGo
  <2>2. CASE i = Len(queue) + 2
    BY <1>2, <1>3, <2>2
  <2> QED
    BY <1>2, <1>3, <1>4, <2>1, <2>2
<1> QED
  BY <1>4 DEF LetGo, longer

\* Nothing is read or sent, and nobody comes in.
LEMMA LetGoSame ==
    ASSUME NEW queue \in Seq(ToZone), NEW inside, NEW left, LetGo(queue, inside),
           \A c \in Characters : inside[c] = None => left[c] = None
    PROVE  LetGo(queue, left)
<1>1. \A i \in DOMAIN queue : queue[i] \in ToZone
  OBVIOUS
<1>2. \A packet \in ToZone : packet.character \in Characters
  BY DEF ToZone
<1> QED
  BY <1>1, <1>2 DEF LetGo

\* Only a LoadCharacterResponse brings a player into a zone.
LEMMA NobodyAppears ==
    ASSUME TypeOK, [Next]_vars, NEW z \in Zones, ~ LoadCharacterResponse(z)
    PROVE  \A c \in Characters : players[z][c] = None => players'[z][c] = None
<1>1. ASSUME NEW k \in Clients, ClientActs(k)
      PROVE  \A c \in Characters : players[z][c] = None => players'[z][c] = None
  <2>1. client[k].phase \in {"offered", "in"} => Plays[k] \in Characters /\ client[k].zone \in Zones
    BY ClientTyped
  <2>2. CASE SessionResume(k)
    <3>1. CASE UNCHANGED players
      BY <3>1
    <3>2. CASE players' = [players EXCEPT ![client[k].zone][Plays[k]] =
                               [@ EXCEPT !.connection = k, !.token = client[k].token]]
               /\ players[client[k].zone][Plays[k]] # None
      BY <2>1, <2>2, <3>2 DEF SessionResume, TypeOK
    <3> QED
      BY <2>2, <3>1, <3>2 DEF SessionResume
  <2>3. CASE Play(k)
    BY <2>1, <2>3 DEF Play, Bound, TypeOK
  <2>4. CASE ~ SessionResume(k) /\ ~ Play(k)
    BY <1>1, <2>4 DEF ClientActs, SelectCharacter, UsePortal, Stuck, Quit, StopWaiting, zone
  <2> QED
    BY <2>2, <2>3, <2>4
<1>2. ASSUME NEW y \in Zones, NEW k \in Clients, Hangup(y, k)
      PROVE  \A c \in Characters : players[z][c] = None => players'[z][c] = None
  <2>1. CASE Bound(k, y)
    <3>1. players' = [players EXCEPT ![y][Plays[k]] = None]
      BY <1>2, <2>1 DEF Hangup
    <3> QED
      BY <3>1, ClientTyped DEF TypeOK
  <2>2. CASE ~ Bound(k, y)
    BY <1>2, <2>2 DEF Hangup
  <2> QED
    BY <2>1, <2>2
<1>3. ASSUME NEW y \in Zones, ZoneReads(y)
      PROVE  \A c \in Characters : players[z][c] = None => players'[z][c] = None
  <2>1. Head(toZone[y]).character \in Characters
    BY <1>3, ZonePackets DEF ZoneReads, PlayerEnterPrepare, LoadCharacterResponse,
             ZoneTransferAuthorize, ZoneConnectForward, Arrives
  <2>2. CASE PlayerEnterPrepare(y)
    BY <2>1, <2>2 DEF PlayerEnterPrepare, TypeOK
  <2>3. CASE LoadCharacterResponse(y)
    <3>1. y # z
      BY <2>3
    <3> QED
      BY <2>3, <3>1 DEF LoadCharacterResponse, TypeOK
  <2>4. CASE ZoneTransferAuthorize(y)
    BY <2>1, <2>4 DEF ZoneTransferAuthorize, TypeOK
  <2>5. CASE ZoneConnectForward(y)
    BY <2>5 DEF ZoneConnectForward
  <2> QED
    BY <1>3, <2>2, <2>3, <2>4, <2>5 DEF ZoneReads
<1>4. ASSUME NEW y \in Zones, ZoneCrash(y)
      PROVE  \A c \in Characters : players[z][c] = None => players'[z][c] = None
  BY <1>4 DEF ZoneCrash, TypeOK
<1>5. CASE UNCHANGED players
  BY <1>5
<1>6. ASSUME NEW y \in Zones, WorldReads(y) \/ ZoneRegister(y) PROVE UNCHANGED players
  BY <1>6 DEF WorldReads, LoadCharacterRequest, ZoneTransferRequest, ReadyToCross,
              ReadyToEnter, ZoneRegister, zone
<1>7. CASE UNCHANGED vars
  BY <1>7 DEF vars, zone
<1> QED
  BY <1>1, <1>2, <1>3, <1>4, <1>5, <1>6, <1>7 DEF Next

LEMMA LetGoFirstKept ==
    ASSUME TypeOK, LetGoFirst, [Next]_vars
    PROVE  LetGoFirst'
<1> DEFINE Goal(z) == LetGo(toZone'[z], players'[z])
<1>0. /\ \A z \in Zones : toZone[z] \in Seq(ToZone) /\ LetGo(toZone[z], players[z])
      /\ DOMAIN toZone = Zones
  BY DEF TypeOK, LetGoFirst
<1>1. ASSUME NEW z \in Zones, toZone'[z] = toZone[z], ~ LoadCharacterResponse(z)
      PROVE  Goal(z)
  <2>1. \A c \in Characters : players[z][c] = None => players'[z][c] = None
    BY <1>1, NobodyAppears
  <2>2. LetGo(toZone[z], players'[z])
    BY <1>0, <2>1, LetGoSame
  <2> QED
    BY <1>1, <2>2
<1>2. ASSUME NEW z \in Zones, NEW packet \in ToZone, toZone'[z] = Append(toZone[z], packet),
             ~ (packet.kind = "ZoneConnectForward" /\ packet.ok), ~ LoadCharacterResponse(z)
      PROVE  Goal(z)
  <2>0. \A c \in Characters : players[z][c] = None => players'[z][c] = None
    BY <1>2, NobodyAppears
  <2>1. LetGo(toZone[z], players'[z])
    BY <1>0, <2>0, LetGoSame
  <2> QED
    BY <1>0, <1>2, <2>1, LetGoSend
<1>3. ASSUME NEW z \in Zones, ZoneReads(z)
      PROVE  Goal(z)
  <2>1. toZone[z] # <<>> /\ toZone'[z] = Tail(toZone[z])
    BY <1>0, <1>3 DEF ZoneReads, PlayerEnterPrepare, LoadCharacterResponse,
                      ZoneTransferAuthorize, ZoneConnectForward, Arrives
  <2>2. ASSUME NEW c \in Characters, Head(toZone[z]) = Release(c)
        PROVE  players'[z][c] = None
    <3>0. Head(toZone[z]).kind = "ZoneTransferAuthorize"
      BY <2>2 DEF Release
    <3>1. ZoneTransferAuthorize(z)
      BY <1>3, <3>0 DEF ZoneReads, PlayerEnterPrepare, LoadCharacterResponse,
                        ZoneConnectForward, Arrives
    <3>2. Head(toZone[z]).character = c
      BY <2>2 DEF Release
    <3> QED
      BY <3>1, <3>2 DEF ZoneTransferAuthorize, TypeOK
  <2> QED
    BY <1>0, <2>1, <2>2, LetGoRead
<1>4. ASSUME NEW z \in Zones, LoadCharacterResponse(z) PROVE ZoneReads(z)
  BY <1>4 DEF ZoneReads
<1>5. ASSUME NEW y \in Zones, ZoneReads(y), NEW z \in Zones PROVE Goal(z)
  <2>1. CASE z = y
    BY <1>3, <1>5, <2>1
  <2>2. CASE z # y
    <3>1. toZone'[z] = toZone[z]
      BY <1>5, <2>2 DEF ZoneReads, PlayerEnterPrepare, LoadCharacterResponse,
                        ZoneTransferAuthorize, ZoneConnectForward, TypeOK
    <3> QED
      BY <1>1, <1>3, <1>4, <3>1
  <2> QED
    BY <2>1, <2>2
<1>6. ASSUME \A z \in Zones : ~ LoadCharacterResponse(z),
             NEW y \in Zones, NEW packet \in ToZone, SendToZone(y, packet),
             ~ (packet.kind = "ZoneConnectForward" /\ packet.ok),
             NEW z \in Zones
      PROVE  Goal(z)
  <2>1. toZone'[z] \in {toZone[z], Append(toZone[z], packet)}
    BY <1>0, <1>6 DEF SendToZone
  <2> QED
    BY <1>1, <1>2, <1>6, <2>1
<1>7. ASSUME \A z \in Zones : ~ LoadCharacterResponse(z),
             NEW y \in Zones, WorldReads(y), NEW z \in Zones
      PROVE  Goal(z)
  <2> DEFINE packet == Head(toWorld[y])
             c == packet.character
  <2>0. c \in Characters
    BY <1>7, WorldPackets DEF WorldReads, LoadCharacterRequest, ZoneTransferRequest,
             ReadyToCross, ReadyToEnter, Read, Arrives
  <2>1. CASE LoadCharacterRequest(y)
    <3> DEFINE answer == [kind |-> "LoadCharacterResponse", character |-> c, state |-> db[c].state]
    <3>1. answer \in ToZone /\ answer.kind # "ZoneConnectForward"
      BY <2>0, RowTyped, PacketsTyped
    <3>2. SendToZone(y, answer)
      BY <2>1 DEF LoadCharacterRequest
    <3> QED
      BY <1>6, <1>7, <3>1, <3>2
  <2>2. CASE ZoneTransferRequest(y) /\ packet.dest \notin zones
    <3>1. Forward(c, None) \in ToZone /\ ~ Forward(c, None).ok
      BY <2>0, PacketsTyped DEF Forward
    <3>2. SendToZone(y, Forward(c, None))
      BY <2>2 DEF ZoneTransferRequest, Refuse
    <3> QED
      BY <1>6, <1>7, <3>1, <3>2
  <2>3. CASE ZoneTransferRequest(y) /\ packet.dest \in zones
    <3> DEFINE prepare == [kind |-> "PlayerEnterPrepare", character |-> c, token |-> packet.token]
    <3>1. packet.token \in Tokens \cup {None} /\ packet.dest \in Zones
      BY <2>3, WorldPackets DEF ZoneTransferRequest, Read, Arrives
    <3>2. prepare \in ToZone /\ prepare.kind # "ZoneConnectForward"
      BY <2>0, <3>1, PacketsTyped
    <3>3. SendToZone(packet.dest, prepare)
      BY <2>3 DEF ZoneTransferRequest
    <3> QED
      BY <1>6, <1>7, <3>1, <3>2, <3>3
  <2>4. CASE ReadyToCross(y)
    <3> DEFINE transfer == pendingZoneTransfers[c]
    <3>1. transfer.source \in Zones /\ transfer.dest \in Zones
      BY <2>0, <2>4 DEF ReadyToCross, TypeOK, Transfer
    <3>2. players' = players
      BY <2>4 DEF ReadyToCross, zone
    <3>3. toZone'[z] \in {toZone[z], toZone[z] \o <<Release(c), Forward(c, transfer.dest)>>}
      BY <1>0, <2>4, <3>1 DEF ReadyToCross, Orders
    <3> QED
      BY <1>0, <2>0, <3>1, <3>2, <3>3, LetGoOrders
  <2>5. CASE ReadyToEnter(y)
    BY <1>1, <1>7, <2>5 DEF ReadyToEnter
  <2> QED
    BY <1>7, <2>1, <2>2, <2>3, <2>4, <2>5 DEF WorldReads
<1>8. ASSUME \A z \in Zones : ~ LoadCharacterResponse(z),
             NEW k \in Clients, ClientActs(k), NEW z \in Zones
      PROVE  Goal(z)
  <2>1. CASE SelectCharacter(k)
    <3> DEFINE y == db[Plays[k]].zone
               prepare == [kind |-> "PlayerEnterPrepare", character |-> Plays[k],
                           token |-> <<k, logins[k] + 1>>]
    <3>1. y \in Zones /\ Plays[k] \in Characters
      BY ClientTyped, RowTyped
    <3>2. <<k, logins[k] + 1>> \in Tokens
      BY <2>1, BoundsAssumption DEF SelectCharacter, TypeOK, Tokens
    <3>3. prepare \in ToZone /\ prepare.kind # "ZoneConnectForward"
      BY <3>1, <3>2, PacketsTyped
    <3>4. SendToZone(y, prepare)
      BY <2>1 DEF SelectCharacter
    <3> QED
      BY <1>6, <1>8, <3>1, <3>3, <3>4
  <2>2. CASE ~ SelectCharacter(k)
    <3>1. toZone' = toZone
      BY <1>8, <2>2 DEF ClientActs, SessionResume, Play, UsePortal, Stuck, Quit, StopWaiting, links
    <3> QED
      BY <1>1, <1>8, <3>1
  <2> QED
    BY <2>1, <2>2
<1>9. ASSUME \A z \in Zones : ~ LoadCharacterResponse(z),
             NEW y \in Zones, ZoneCrash(y), NEW z \in Zones
      PROVE  Goal(z)
  <2>1. CASE z = y
    <3>1. toZone'[z] = <<>>
      BY <1>9, <2>1 DEF ZoneCrash, TypeOK
    <3> QED
      BY <3>1 DEF LetGo
  <2>2. CASE z # y
    <3>1. toZone'[z] = toZone[z]
      BY <1>9, <2>2 DEF ZoneCrash, TypeOK
    <3> QED
      BY <1>1, <1>9, <3>1
  <2> QED
    BY <2>1, <2>2
<1>10. ASSUME \A z \in Zones : ~ LoadCharacterResponse(z), UNCHANGED toZone, NEW z \in Zones
       PROVE  Goal(z)
  BY <1>1, <1>10
<1>11. ASSUME NEW y \in Zones, ZoneRegister(y) PROVE UNCHANGED toZone
  BY <1>11 DEF ZoneRegister
<1>12. ASSUME NEW y \in Zones, NEW k \in Clients, Hangup(y, k) PROVE UNCHANGED toZone
  BY <1>12 DEF Hangup, links
<1>13. CASE UNCHANGED vars
  <2>1. UNCHANGED <<toZone, players>>
    BY <1>13 DEF vars, links, zone
  <2> QED
    BY <2>1 DEF LetGoFirst
<1> HIDE DEF Goal
<1>14. ASSUME Next, NEW z \in Zones PROVE Goal(z)
  <2>1. CASE \E y \in Zones : LoadCharacterResponse(y)
    BY <1>4, <1>5, <2>1
  <2>2. CASE ~ \E y \in Zones : LoadCharacterResponse(y)
    BY <1>5, <1>7, <1>8, <1>9, <1>10, <1>11, <1>12, <1>14, <2>2 DEF Next
  <2> QED
    BY <2>1, <2>2
<1> QED
  BY <1>13, <1>14 DEF LetGoFirst, Goal

\* Only SessionResume binds a connection.
LEMMA NoNewBinding ==
    ASSUME TypeOK, [Next]_vars, NEW k \in Clients, ~ SessionResume(k), NEW y \in Zones, Bound(k, y)'
    PROVE  Bound(k, y)
<1> DEFINE c == Plays[k]
<1>1. c \in Characters /\ k # None
  BY ClientTyped, WorldAssumption
<1>2. players'[y][c] # None /\ players'[y][c].connection = k
  BY DEF Bound
<1>3. SUFFICES ASSUME players'[y][c] # players[y][c] PROVE Bound(k, y)
  BY <1>2 DEF Bound
<1>4. ASSUME NEW j \in Clients, ClientActs(j) PROVE Bound(k, y)
  <2>1. CASE SessionResume(j)
    <3>1. j # k
      BY <2>1
    <3>2. Plays[j] \in Characters /\ client[j].zone \in Zones
      BY <2>1, ClientTyped DEF SessionResume
    <3>3. CASE players' = [players EXCEPT ![client[j].zone][Plays[j]] =
                               [@ EXCEPT !.connection = j, !.token = client[j].token]]
               /\ players[client[j].zone][Plays[j]] # None
      <4>1. players[client[j].zone][Plays[j]] \in PlayerEntity
        BY <3>2, <3>3, EntityTyped
      <4>2. players'[client[j].zone][Plays[j]].connection = j
        BY <3>2, <3>3, <4>1 DEF TypeOK, PlayerEntity
      <4>3. client[j].zone = y /\ Plays[j] = c
        BY <1>1, <1>3, <3>2, <3>3 DEF TypeOK
      <4> QED
        BY <1>2, <3>1, <4>2, <4>3
    <3>4. CASE UNCHANGED players
      BY <1>3, <3>4
    <3> QED
      BY <2>1, <3>3, <3>4 DEF SessionResume
  <2>2. CASE Play(j)
    <3>1. Plays[j] \in Characters /\ client[j].zone \in Zones
          /\ players[client[j].zone][Plays[j]] # None
      BY <2>2, ClientTyped DEF Play, Bound
    <3>2. players[client[j].zone][Plays[j]] \in PlayerEntity
      BY <3>1, EntityTyped
    <3>3. players'[y][c].connection = players[y][c].connection /\ players[y][c] # None
      BY <1>1, <1>3, <2>2, <3>1, <3>2 DEF Play, TypeOK, PlayerEntity
    <3> QED
      BY <1>2, <3>3 DEF Bound
  <2>3. CASE ~ SessionResume(j) /\ ~ Play(j)
    <3>1. UNCHANGED players
      BY <1>4, <2>3 DEF ClientActs, SelectCharacter, UsePortal, Stuck, Quit, StopWaiting, zone
    <3> QED
      BY <1>3, <3>1
  <2> QED
    BY <2>1, <2>2, <2>3
<1>5. ASSUME NEW z \in Zones, LoadCharacterResponse(z) PROVE Bound(k, y)
  <2>1. Head(toZone[z]).character \in Characters
    BY <1>5, ZonePackets DEF LoadCharacterResponse, Arrives
  <2>2. players'[y][c].connection = None
    BY <1>1, <1>3, <1>5, <2>1 DEF LoadCharacterResponse, TypeOK
  <2> QED
    BY <1>1, <1>2, <2>2
<1>6. ASSUME players'[y][c] = None PROVE Bound(k, y)
  BY <1>2, <1>6
<1>7. ASSUME NEW z \in Zones, NEW j \in Clients, Hangup(z, j) PROVE players'[y][c] = None
  <2>1. CASE Bound(j, z)
    <3>1. players' = [players EXCEPT ![z][Plays[j]] = None]
      BY <1>7, <2>1 DEF Hangup
    <3> QED
      BY <1>1, <1>3, <3>1, ClientTyped DEF TypeOK
  <2>2. CASE ~ Bound(j, z)
    BY <1>3, <1>7, <2>2 DEF Hangup
  <2> QED
    BY <2>1, <2>2
<1>8. ASSUME NEW z \in Zones, PlayerEnterPrepare(z) PROVE players'[y][c] = None
  BY <1>1, <1>3, <1>8, ZonePackets DEF PlayerEnterPrepare, Arrives, TypeOK
<1>9. ASSUME NEW z \in Zones, ZoneTransferAuthorize(z) PROVE players'[y][c] = None
  BY <1>1, <1>3, <1>9, ZonePackets DEF ZoneTransferAuthorize, Arrives, TypeOK
<1>10. ASSUME NEW z \in Zones, ZoneCrash(z) PROVE players'[y][c] = None
  BY <1>1, <1>3, <1>10 DEF ZoneCrash, TypeOK
<1>11. ASSUME NEW z \in Zones, WorldReads(z) \/ ZoneRegister(z) \/ ZoneConnectForward(z)
       PROVE  UNCHANGED players
  BY <1>11 DEF WorldReads, LoadCharacterRequest, ZoneTransferRequest, ReadyToCross, ReadyToEnter,
               ZoneRegister, ZoneConnectForward, zone
<1>12. CASE UNCHANGED vars
  BY <1>12, <1>3 DEF vars, zone
<1> QED
  BY <1>3, <1>4, <1>5, <1>6, <1>7, <1>8, <1>9, <1>10, <1>11, <1>12 DEF Next, ZoneReads

\* What a step does to a client that neither logs in nor resumes: nothing; it leaves; it
\* stays in its zone; its login is answered; or it is sent on, once the source has let go.
LEMMA ClientMoves ==
    ASSUME TypeOK, OwnNames, LetGoFirst, [Next]_vars,
           NEW k \in Clients, ~ SelectCharacter(k), ~ SessionResume(k)
    PROVE  \/ client'[k] = client[k]
           \/ client'[k].phase \in {"out", "refused"}
           \/ /\ client[k].phase \in {"in", "crossing"} /\ client'[k].phase \in {"in", "crossing"}
              /\ client'[k].zone = client[k].zone
           \/ client[k].phase = "selecting" /\ client'[k].phase = "offered"
           \/ /\ client[k].phase = "crossing" /\ client'[k].phase = "offered"
              /\ ~ Bound(k, client[k].zone)
<1> DEFINE Goal == \/ client'[k] = client[k]
                   \/ client'[k].phase \in {"out", "refused"}
                   \/ /\ client[k].phase \in {"in", "crossing"}
                      /\ client'[k].phase \in {"in", "crossing"}
                      /\ client'[k].zone = client[k].zone
                   \/ client[k].phase = "selecting" /\ client'[k].phase = "offered"
                   \/ /\ client[k].phase = "crossing" /\ client'[k].phase = "offered"
                      /\ ~ Bound(k, client[k].zone)
<1>0. client[k] \in ClientState /\ client \in [Clients -> ClientState]
  BY DEF TypeOK
<1>1. ASSUME NEW j \in Clients, j # k, ClientActs(j) PROVE Goal
  <2>1. client'[k] = client[k]
    BY <1>0, <1>1 DEF ClientActs, SelectCharacter, SessionResume, Play, UsePortal, Stuck, Quit,
                      StopWaiting
  <2> QED
    BY <2>1
<1>2. CASE ClientActs(k)
  <2>1. CASE UNCHANGED client
    BY <2>1
  <2>2. ASSUME NEW dest \in Zones, UsePortal(k, dest) PROVE Goal
    BY <1>0, <2>2 DEF UsePortal, ClientState
  <2>3. CASE Quit(k)
    <3>1. client' = [client EXCEPT ![k] = Out(k)]
      BY <2>3 DEF Quit
    <3> QED
      BY <1>0, <3>1, OutTyped
  <2>4. CASE StopWaiting(k)
    BY <1>0, <2>4 DEF StopWaiting, ClientState
  <2> QED
    BY <1>2, <2>1, <2>2, <2>3, <2>4 DEF ClientActs, Play, Stuck
<1>3. ASSUME NEW z \in Zones, ZoneConnectForward(z) PROVE Goal
  <2> DEFINE packet == Head(toZone[z])
             c == packet.character
             j == pendingTransfers[z][c]
  <2>1. CASE UNCHANGED client
    BY <2>1
  <2>2. CASE j # None /\ client[j].phase = "crossing" /\ client[j].zone = z
    <3>1. toZone[z] # <<>> /\ packet.kind = "ZoneConnectForward"
      BY <1>3 DEF ZoneConnectForward, Arrives
    <3>2. c \in Characters
      BY <3>1, ZonePackets
    <3>3. j \in Clients /\ Plays[j] = c
      BY <2>2, <3>2 DEF TypeOK, OwnNames
    <3>4. CASE packet.ok
      <4>1. client' = [client EXCEPT ![j] = [@ EXCEPT !.phase = "offered", !.zone = packet.dest]]
        BY <1>3, <2>2, <3>4 DEF ZoneConnectForward
      <4>2. players[z][c] = None
        <5>1. toZone[z] \in Seq(ToZone)
          BY DEF TypeOK
        <5>2. 1 \in DOMAIN toZone[z] /\ toZone[z][1] = packet
          BY <3>1, <5>1, ReadQueue
        <5> QED
          BY <3>1, <3>4, <5>2 DEF LetGoFirst, LetGo
      <4>3. CASE j = k
        <5>1. client'[k].phase = "offered"
          BY <1>0, <4>1, <4>3 DEF ClientState
        <5>2. ~ Bound(k, client[k].zone)
          BY <2>2, <3>3, <4>2, <4>3 DEF Bound
        <5> QED
          BY <2>2, <4>3, <5>1, <5>2
      <4>4. CASE j # k
        BY <1>0, <3>3, <4>1, <4>4
      <4> QED
        BY <4>3, <4>4
    <3>5. CASE ~ packet.ok
      <4>1. client' = [client EXCEPT ![j] = [@ EXCEPT !.phase = "in"]]
        BY <1>3, <2>2, <3>5 DEF ZoneConnectForward
      <4>2. CASE j = k
        BY <1>0, <2>2, <4>1, <4>2 DEF ClientState
      <4>3. CASE j # k
        BY <1>0, <3>3, <4>1, <4>3
      <4> QED
        BY <4>2, <4>3
    <3> QED
      BY <3>4, <3>5
  <2> QED
    BY <1>3, <2>1, <2>2 DEF ZoneConnectForward
<1>4. ASSUME NEW z \in Zones, ReadyToEnter(z) PROVE Goal
  <2> DEFINE c == Head(toWorld[z]).character
             j == pendingHandoffs[c].client
  <2>1. CASE UNCHANGED client
    BY <2>1
  <2>2. CASE pendingHandoffs[c] # None /\ client[j].phase = "selecting"
             /\ client[j].token = pendingHandoffs[c].token
    <3>1. c \in Characters
      BY <1>4, WorldPackets DEF ReadyToEnter, Read, Arrives
    <3>2. j \in Clients
      BY <2>2, <3>1 DEF TypeOK
    <3>3. client' = [client EXCEPT ![j] = [@ EXCEPT !.phase = "offered", !.zone = db[c].zone]]
          \/ client' = [client EXCEPT ![j] = Out(j)]
      BY <1>4, <2>2 DEF ReadyToEnter
    <3>4. CASE j = k
      <4>1. CASE client' = [client EXCEPT ![j] =
                                [@ EXCEPT !.phase = "offered", !.zone = db[c].zone]]
        <5>1. client'[k] = [client[k] EXCEPT !.phase = "offered", !.zone = db[c].zone]
          BY <1>0, <3>4, <4>1
        <5>2. client'[k].phase = "offered"
          BY <1>0, <5>1 DEF ClientState
        <5> QED
          BY <2>2, <3>4, <5>2
      <4>2. CASE client' = [client EXCEPT ![j] = Out(j)]
        <5>1. client'[k].phase = "out"
          BY <1>0, <3>4, <4>2, OutTyped
        <5> QED
          BY <5>1
      <4> QED
        BY <3>3, <4>1, <4>2
    <3>5. CASE j # k
      BY <1>0, <3>2, <3>3, <3>5
    <3> QED
      BY <3>4, <3>5
  <2> QED
    BY <1>4, <2>1, <2>2 DEF ReadyToEnter
<1>5. ASSUME NEW z \in Zones, ZoneCrash(z) PROVE Goal
  <2>1. client'[k] = client[k] \/ client'[k] = Out(k)
    BY <1>5 DEF ZoneCrash
  <2> QED
    BY <2>1, OutTyped
<1>6. CASE UNCHANGED client
  BY <1>6
<1>7. ASSUME NEW z \in Zones, NEW j \in Clients, Hangup(z, j) PROVE UNCHANGED client
  BY <1>7 DEF Hangup
<1>8. ASSUME NEW z \in Zones,
             \/ PlayerEnterPrepare(z) \/ LoadCharacterResponse(z) \/ ZoneTransferAuthorize(z)
             \/ LoadCharacterRequest(z) \/ ZoneTransferRequest(z) \/ ReadyToCross(z)
             \/ ZoneRegister(z)
      PROVE  UNCHANGED client
  BY <1>8 DEF PlayerEnterPrepare, LoadCharacterResponse, ZoneTransferAuthorize,
              LoadCharacterRequest, ZoneTransferRequest, ReadyToCross, ZoneRegister
<1>9. CASE UNCHANGED vars
  BY <1>9 DEF vars
<1>10. ASSUME NEW j \in Clients, ClientActs(j) PROVE Goal
  BY <1>1, <1>2, <1>10
<1>11. ASSUME NEW z \in Zones,
              ZoneReads(z) \/ WorldReads(z) \/ ZoneRegister(z) \/ ZoneCrash(z)
       PROVE  Goal
  BY <1>3, <1>4, <1>5, <1>6, <1>8, <1>11 DEF ZoneReads, WorldReads
<1>12. Goal
  BY <1>6, <1>7, <1>9, <1>10, <1>11 DEF Next
<1> QED
  BY <1>12

LEMMA OneBindingKept ==
    ASSUME TypeOK, OwnNames, LetGoFirst, [Next]_vars, NEW k \in Clients, OneBinding(k),
           AskedForOnce(Plays[k])'
    PROVE  OneBinding(k)'
<1>0. client[k] \in ClientState /\ client \in [Clients -> ClientState] /\ Plays[k] \in Characters
      /\ k # None
  BY ClientTyped, WorldAssumption DEF TypeOK
<1>1. CASE SelectCharacter(k)
  <2>1. logins'[k] = logins[k] + 1 /\ logins[k] \in Nat
    BY <1>1, LoginsGrow DEF SelectCharacter, TypeOK
  <2>2. logins[k] = 0
    BY <2>1 DEF AskedForOnce
  <2>3. \A y \in Zones : ~ Bound(k, y)
    BY <1>0, <2>1, <2>2 DEF OwnNames, Bound
  <2>4. \A y \in Zones : ~ Bound(k, y)'
    BY <1>1, <2>3 DEF SelectCharacter, zone, Bound
  <2> QED
    BY <2>4 DEF OneBinding
<1>2. CASE SessionResume(k)
  <2> DEFINE z == client[k].zone
  <2>1. z \in Zones /\ \A y \in Zones : ~ Bound(k, y)
    BY <1>2, ClientTyped DEF SessionResume, OneBinding
  <2>2. CASE /\ players[z][Plays[k]] # None
             /\ players' = [players EXCEPT ![z][Plays[k]] =
                                [@ EXCEPT !.connection = k, !.token = client[k].token]]
             /\ client' = [client EXCEPT ![k].phase = "in"]
    <3>1. client'[k].zone = z /\ client'[k].phase = "in"
      BY <1>0, <2>2 DEF ClientState
    <3>2. \A y \in Zones \ {z} : players'[y] = players[y]
      BY <2>1, <2>2 DEF TypeOK
    <3>3. \A y \in Zones : Bound(k, y)' => y = z
      BY <2>1, <3>2 DEF Bound
    <3> QED
      BY <3>1, <3>3 DEF OneBinding
  <2>3. CASE /\ client' = [client EXCEPT ![k] = [Out(k) EXCEPT !.phase = "refused"]]
             /\ UNCHANGED players
    <3>1. client'[k].phase = "refused"
      BY <1>0, <2>3, OutTyped
    <3>2. \A y \in Zones : ~ Bound(k, y)'
      BY <2>1, <2>3 DEF Bound
    <3> QED
      BY <3>1, <3>2 DEF OneBinding
  <2> QED
    BY <1>2, <2>2, <2>3 DEF SessionResume
<1>3. CASE ~ SelectCharacter(k) /\ ~ SessionResume(k)
  <2>1. \A y \in Zones : Bound(k, y)' => Bound(k, y)
    BY <1>3, NoNewBinding
  <2>2. \/ client'[k] = client[k]
        \/ client'[k].phase \in {"out", "refused"}
        \/ /\ client[k].phase \in {"in", "crossing"} /\ client'[k].phase \in {"in", "crossing"}
           /\ client'[k].zone = client[k].zone
        \/ client[k].phase = "selecting" /\ client'[k].phase = "offered"
        \/ /\ client[k].phase = "crossing" /\ client'[k].phase = "offered"
           /\ ~ Bound(k, client[k].zone)
    BY <1>3, ClientMoves
  <2> DEFINE B(y) == Bound(k, y)
             C(y) == Bound(k, y)'
  <2>3. /\ client[k].phase \in {"selecting", "offered"} => \A y \in Zones : ~ B(y)
        /\ client[k].phase \in {"in", "crossing"} => \A y \in Zones : B(y) => y = client[k].zone
        /\ \A y, z \in Zones : B(y) /\ B(z) => y = z
    BY DEF OneBinding
  <2>4. \A y \in Zones : C(y) => B(y)
    BY <2>1
  <2> HIDE DEF B, C
  <2>5. client'[k].phase \in {"selecting", "offered"} => \A y \in Zones : ~ C(y)
    BY <2>2, <2>3, <2>4 DEF B
  <2>6. client'[k].phase \in {"in", "crossing"} => \A y \in Zones : C(y) => y = client'[k].zone
    BY <2>2, <2>3, <2>4
  <2>7. \A y, z \in Zones : C(y) /\ C(z) => y = z
    BY <2>3, <2>4
  <2> QED
    BY <2>5, <2>6, <2>7 DEF OneBinding, C
<1> QED
  BY <1>1, <1>2, <1>3

\* What a character that has been asked for once cannot be bound twice rests on: the orders
\* of a transfer reach the source in their order, and nobody is bound but by SessionResume.
THEOREM HomeInvariant == Spec => []HomeInv
<1>1. Init => HomeInv
  BY InitHome
<1>2. TypeOK /\ HomeInv /\ [Next]_vars => HomeInv'
  <2> SUFFICES ASSUME TypeOK, HomeInv, [Next]_vars PROVE HomeInv'
    OBVIOUS
  <2>1. OwnNames' /\ LetGoFirst'
    BY OwnNamesKept, LetGoFirstKept DEF HomeInv
  <2>2. ASSUME NEW k \in Clients, AskedForOnce(Plays[k])' PROVE OneBinding(k)'
    <3>1. AskedForOnce(Plays[k])
      BY <2>2, ClientTyped, AskedForOnceBefore
    <3> QED
      BY <2>2, <3>1, OneBindingKept DEF HomeInv
  <2> QED
    BY <2>1, <2>2 DEF HomeInv
<1> QED
  BY <1>1, <1>2, TypeCorrect, PTL DEF Spec

\* A character that nobody has asked for twice is at home in one zone at most: its source has
\* let go of it before its client may resume at the destination (handleZoneTransferAuthorize
\* before the forward), whichever zones die and whichever clients hang up meanwhile.
THEOREM OneHomePerLogin ==
    Spec => [](\A c \in Characters : AskedForOnce(c) => OneHomeOf(c))
<1>1. TypeOK /\ HomeInv => \A c \in Characters : AskedForOnce(c) => OneHomeOf(c)
  <2> SUFFICES ASSUME TypeOK, HomeInv, NEW c \in Characters, AskedForOnce(c),
                      NEW y \in Zones, NEW z \in Zones,
                      players[y][c] # None, players[y][c].connection # None,
                      players[z][c] # None, players[z][c].connection # None
               PROVE  y = z
    BY DEF OneHomeOf
  <2> DEFINE j == players[y][c].connection
             k == players[z][c].connection
  <2>1. j \in Clients /\ k \in Clients
    BY EntityTyped
  <2>2. Plays[j] = c /\ Plays[k] = c /\ logins[j] > 0 /\ logins[k] > 0
    BY DEF HomeInv, OwnNames
  <2>3. j = k
    BY <2>1, <2>2 DEF AskedForOnce
  <2>4. Bound(k, y) /\ Bound(k, z)
    BY <2>2, <2>3 DEF Bound
  <2>5. OneBinding(k)
    BY <2>1, <2>2 DEF HomeInv
  <2> QED
    BY <2>4, <2>5 DEF OneBinding
<1> QED
  BY <1>1, TypeCorrect, HomeInvariant, PTL

\* Clients that log in once each, with a character of their own, never have one in two zones.
THEOREM OneHomeWithoutSharing ==
    ASSUME MaxLogins <= 1,
           \A j, k \in Clients : Plays[j] = Plays[k] => j = k
    PROVE  Spec => []OneHome
<1>1. TypeOK => \A c \in Characters : AskedForOnce(c)
  <2> SUFFICES ASSUME TypeOK, NEW k \in Clients, logins[k] > 0 PROVE logins[k] = 1
    BY DEF AskedForOnce
  <2>1. logins[k] \in 0 .. MaxLogins
    BY DEF TypeOK
  <2> QED
    BY <2>1, BoundsAssumption
<1>2. (\A c \in Characters : OneHomeOf(c)) => OneHome
  BY DEF OneHomeOf, OneHome
<1>3. /\ TypeOK
      /\ \A c \in Characters : AskedForOnce(c) => OneHomeOf(c)
      => OneHome
  BY <1>1, <1>2
<1> QED
  BY <1>3, TypeCorrect, OneHomePerLogin, PTL
-----------------------------------------------------------------------------
(* One visit at a time *)

\* The packets of a queue about a character; that there is one at most; that of two the first
\* lets the player go and the other sends its client on.
About(queue, c) == {queue[i] : i \in {j \in DOMAIN queue : queue[j].character = c}}

Once(queue, c) ==
    \A i, j \in DOMAIN queue : queue[i].character = c /\ queue[j].character = c => i = j

InOrder(queue, c) ==
    \A i, j \in DOMAIN queue :
        queue[i].character = c /\ queue[j].character = c /\ i < j =>
            queue[i].kind = "ZoneTransferAuthorize" /\ queue[j].kind = "ZoneConnectForward"

\* Nobody has asked to play the character yet.
NeverAskedFor(c) == \A k \in Clients : Plays[k] = c => logins[k] = 0

\* No server speaks of the character, or none but this zone and WorldLogin.
SilentBut(c, S) ==
    \A y \in Zones \ S : About(toZone[y], c) = {} /\ About(toWorld[y], c) = {}
Silent(c) == SilentBut(c, {})

\* The character has an entity in no other zones.
OnlyIn(c, S) == \A y \in Zones \ S : players[y][c] = None

Fresh(c) == pendingZoneTransfers[c] = None /\ Silent(c) /\ OnlyIn(c, {})

\* A zone is getting ready for the character: one packet is about it, or none, when the
\* other side died.
Preparing(c, z) ==
    /\ SilentBut(c, {z})
    /\ \/ /\ About(toWorld[z], c) = {}
          /\ Once(toZone[z], c)
          /\ \A p \in About(toZone[z], c) : p.kind \in {"PlayerEnterPrepare", "LoadCharacterResponse"}
       \/ /\ About(toZone[z], c) = {}
          /\ Once(toWorld[z], c)
          /\ \A p \in About(toWorld[z], c) : p.kind \in {"LoadCharacterRequest", "PlayerEnterReady"}

\* The source of a transfer has asked; has been refused; has been told to let go.
Asking(c, s) ==
    /\ SilentBut(c, {s})
    /\ About(toZone[s], c) = {}
    /\ Once(toWorld[s], c)
    /\ \A p \in About(toWorld[s], c) : p.kind = "ZoneTransferRequest" /\ p.dest # s

Refusing(c, s) ==
    /\ SilentBut(c, {s})
    /\ About(toWorld[s], c) = {}
    /\ Once(toZone[s], c)
    /\ \A p \in About(toZone[s], c) : p.kind = "ZoneConnectForward" /\ ~ p.ok

Releasing(c, s, d) ==
    /\ SilentBut(c, {s})
    /\ About(toWorld[s], c) = {}
    /\ InOrder(toZone[s], c)
    /\ About(toZone[s], c) \subseteq {Release(c), Forward(c, d)}

\* A client waits in front of a portal.
Crossing(k, c, s) ==
    \/ Bound(k, s) /\ OnlyIn(c, {s}) /\ (Asking(c, s) \/ Refusing(c, s))
    \/ \E d \in Zones \ {s} :
          /\ OnlyIn(c, {s, d})
          /\ \/ /\ Bound(k, s)
                /\ pendingZoneTransfers[c] = [source |-> s, dest |-> d]
                /\ Preparing(c, d)
             \/ Releasing(c, s, d)

\* The stages of the only visit of a character: what its client does, which servers speak of
\* it, and where its entity is.
VisitOf(k, c, z) ==
    /\ client[k].phase = "selecting" =>
          /\ pendingZoneTransfers[c] = None
          /\ Preparing(c, db[c].zone)
          /\ OnlyIn(c, {db[c].zone})
    /\ client[k].phase \in {"offered", "in"} => Silent(c) /\ OnlyIn(c, {z})
    /\ client[k].phase \in {"in", "crossing"} => <<z, k>> \notin hangups
    /\ client[k].phase = "in" => Bound(k, z)
    /\ client[k].phase = "crossing" => Crossing(k, c, z)
Visit(k) == VisitOf(k, Plays[k], client[k].zone)

VisitInv ==
    /\ \A c \in Characters : NeverAskedFor(c) => Fresh(c)
    /\ timeouts = 0 =>
          \A k \in Clients : AskedForOnce(Plays[k]) /\ logins[k] > 0 => Visit(k)

\* No server holds an older state of the character than the database.
UpToDate(c) ==
    \A z \in Zones :
        /\ players[z][c] # None => players[z][c].state = db[c].state
        /\ \A p \in About(toZone[z], c) :
              p.kind = "LoadCharacterResponse" => p.state = db[c].state

\* A queue that says no more about a character than it did.
Quieter(new, old, c) ==
    /\ About(new, c) \subseteq About(old, c)
    /\ Once(old, c) => Once(new, c)
    /\ InOrder(old, c) => InOrder(new, c)

LEMMA QuieterSame == \A queue, c : Quieter(queue, queue, c)
  BY DEF Quieter

LEMMA QuieterTrans ==
    ASSUME NEW new, NEW middle, NEW old, NEW c, Quieter(new, middle, c), Quieter(middle, old, c)
    PROVE  Quieter(new, old, c)
  BY DEF Quieter

LEMMA QuieterEmpty ==
    ASSUME NEW S, NEW queue \in Seq(S), NEW c
    PROVE  Quieter(<<>>, queue, c) /\ About(<<>>, c) = {}
<1>1. About(<<>>, c) = {}
  BY DEF About
<1> QED
  BY <1>1 DEF Quieter, Once, InOrder

LEMMA QuieterRead ==
    ASSUME NEW S, NEW queue \in Seq(S), queue # <<>>, NEW c
    PROVE  Quieter(Tail(queue), queue, c)
<1> DEFINE rest == Tail(queue)
<1>1. /\ DOMAIN queue = 1 .. Len(queue) /\ Len(queue) \in Nat
      /\ DOMAIN rest = 1 .. Len(queue) - 1
      /\ \A i \in DOMAIN rest : rest[i] = queue[i + 1]
  BY ReadQueue
<1> HIDE DEF rest
<1>2. \A i \in DOMAIN rest : i \in Int /\ i + 1 \in DOMAIN queue /\ rest[i] = queue[i + 1]
  BY <1>1
<1>3. About(rest, c) \subseteq About(queue, c)
  BY <1>2 DEF About
<1>4. Once(queue, c) => Once(rest, c)
  <2> SUFFICES ASSUME Once(queue, c), NEW i \in DOMAIN rest, NEW j \in DOMAIN rest,
                      rest[i].character = c, rest[j].character = c
               PROVE  i = j
    BY DEF Once
  <2>1. i + 1 = j + 1
    BY <1>2 DEF Once
  <2> QED
    BY <1>2, <2>1
<1>5. InOrder(queue, c) => InOrder(rest, c)
  <2> SUFFICES ASSUME InOrder(queue, c), NEW i \in DOMAIN rest, NEW j \in DOMAIN rest,
                      rest[i].character = c, rest[j].character = c, i < j
               PROVE  rest[i].kind = "ZoneTransferAuthorize" /\ rest[j].kind = "ZoneConnectForward"
    BY DEF InOrder
  <2>1. i + 1 < j + 1
    BY <1>2
  <2> QED
    BY <1>2, <2>1 DEF InOrder
<1> QED
  BY <1>3, <1>4, <1>5 DEF Quieter, rest

LEMMA QuieterSend ==
    ASSUME NEW S, NEW queue \in Seq(S), NEW packet \in S, NEW c, packet.character # c
    PROVE  Quieter(Append(queue, packet), queue, c)
<1> DEFINE longer == Append(queue, packet)
<1>1. /\ DOMAIN queue = 1 .. Len(queue) /\ Len(queue) \in Nat
      /\ DOMAIN longer = 1 .. Len(queue) + 1
      /\ \A i \in DOMAIN queue : longer[i] = queue[i]
      /\ longer[Len(queue) + 1] = packet
  BY SendQueue
<1> HIDE DEF longer
<1>2. \A i \in DOMAIN longer : longer[i].character = c => i \in DOMAIN queue /\ longer[i] = queue[i]
  BY <1>1
<1> QED
  BY <1>2 DEF Quieter, About, Once, InOrder, longer

LEMMA QuieterOrders ==
    ASSUME NEW queue \in Seq(ToZone), NEW b \in Characters, NEW d \in Zones, NEW c, b # c
    PROVE  Quieter(queue \o <<Release(b), Forward(b, d)>>, queue, c)
<1> DEFINE longer == queue \o <<Release(b), Forward(b, d)>>
<1>1. Release(b) \in ToZone /\ Forward(b, d) \in ToZone
  BY PacketsTyped
<1>2. Release(b).character = b /\ Forward(b, d).character = b
  BY DEF Release, Forward
<1>3. /\ DOMAIN queue = 1 .. Len(queue) /\ Len(queue) \in Nat
      /\ DOMAIN longer = 1 .. Len(queue) + 2
      /\ \A i \in DOMAIN queue : longer[i] = queue[i]
      /\ longer[Len(queue) + 1] = Release(b)
      /\ longer[Len(queue) + 2] = Forward(b, d)
  BY <1>1, SendTwo
<1> HIDE DEF longer
<1>4. \A i \in DOMAIN longer : longer[i].character = c => i \in DOMAIN queue /\ longer[i] = queue[i]
  BY <1>2, <1>3
<1> QED
  BY <1>4 DEF Quieter, About, Once, InOrder, longer

LEMMA QuieterCut ==
    ASSUME NEW S, NEW queue \in Seq(S), NEW n \in 0 .. Len(queue), NEW c
    PROVE  Quieter(SubSeq(queue, 1, n), queue, c)
<1> DEFINE cut == SubSeq(queue, 1, n)
<1>1. /\ DOMAIN queue = 1 .. Len(queue) /\ Len(queue) \in Nat
      /\ DOMAIN cut = 1 .. n
      /\ \A i \in 1 .. n : cut[i] = queue[i]
  BY CutQueue
<1> HIDE DEF cut
<1>2. \A i \in DOMAIN cut : i \in DOMAIN queue /\ cut[i] = queue[i]
  BY <1>1
<1> QED
  BY <1>2 DEF Quieter, About, Once, InOrder, cut

\* The first packet of a queue is about the character.
LEMMA ReadAbout ==
    ASSUME NEW S, NEW queue \in Seq(S), queue # <<>>, NEW c, Head(queue).character = c
    PROVE  /\ Head(queue) \in About(queue, c)
           /\ Once(queue, c) => About(Tail(queue), c) = {}
           /\ InOrder(queue, c) /\ Head(queue).kind = "ZoneConnectForward"
                  => About(Tail(queue), c) = {}
<1> DEFINE rest == Tail(queue)
<1>1. /\ DOMAIN queue = 1 .. Len(queue) /\ Len(queue) \in Nat \ {0}
      /\ Head(queue) = queue[1]
      /\ DOMAIN rest = 1 .. Len(queue) - 1
      /\ \A i \in DOMAIN rest : rest[i] = queue[i + 1]
  BY ReadQueue
<1> HIDE DEF rest
<1>2. 1 \in DOMAIN queue /\ queue[1].character = c
  BY <1>1
<1>3. \A i \in DOMAIN rest : i + 1 \in DOMAIN queue /\ 1 < i + 1 /\ 1 # i + 1 /\ rest[i] = queue[i + 1]
  BY <1>1
<1>4. Head(queue) \in About(queue, c)
  BY <1>1, <1>2 DEF About
<1>5. Once(queue, c) => \A i \in DOMAIN rest : rest[i].character # c
  BY <1>2, <1>3 DEF Once
<1>6. InOrder(queue, c) /\ Head(queue).kind = "ZoneConnectForward"
          => \A i \in DOMAIN rest : rest[i].character # c
  BY <1>1, <1>2, <1>3 DEF InOrder
<1>7. (\A i \in DOMAIN rest : rest[i].character # c) => About(rest, c) = {}
  BY DEF About
<1> QED
  BY <1>4, <1>5, <1>6, <1>7 DEF rest

\* A queue that says nothing about the character is sent a packet that does.
LEMMA SendAbout ==
    ASSUME NEW S, NEW queue \in Seq(S), NEW packet \in S, NEW c, About(queue, c) = {}
    PROVE  /\ About(Append(queue, packet), c) \subseteq {packet}
           /\ Once(Append(queue, packet), c)
<1> DEFINE longer == Append(queue, packet)
<1>1. /\ DOMAIN queue = 1 .. Len(queue) /\ Len(queue) \in Nat
      /\ DOMAIN longer = 1 .. Len(queue) + 1
      /\ \A i \in DOMAIN queue : longer[i] = queue[i]
      /\ longer[Len(queue) + 1] = packet
  BY SendQueue
<1> HIDE DEF longer
<1>2. \A i \in DOMAIN queue : queue[i].character # c
  BY DEF About
<1>3. \A i \in DOMAIN longer : longer[i].character = c => i = Len(queue) + 1
  BY <1>1, <1>2
<1> QED
  BY <1>1, <1>3 DEF About, Once, longer

LEMMA SendOrdersAbout ==
    ASSUME NEW queue \in Seq(ToZone), NEW c \in Characters, NEW d \in Zones, About(queue, c) = {}
    PROVE  LET longer == queue \o <<Release(c), Forward(c, d)>>
           IN  About(longer, c) \subseteq {Release(c), Forward(c, d)} /\ InOrder(longer, c)
<1> DEFINE longer == queue \o <<Release(c), Forward(c, d)>>
<1>1. Release(c) \in ToZone /\ Forward(c, d) \in ToZone
  BY PacketsTyped
<1>2. /\ DOMAIN queue = 1 .. Len(queue) /\ Len(queue) \in Nat
      /\ DOMAIN longer = 1 .. Len(queue) + 2
      /\ \A i \in DOMAIN queue : longer[i] = queue[i]
      /\ longer[Len(queue) + 1] = Release(c)
      /\ longer[Len(queue) + 2] = Forward(c, d)
  BY <1>1, SendTwo
<1> HIDE DEF longer
<1>3. \A i \in DOMAIN queue : queue[i].character # c
  BY DEF About
<1>4. \A i \in DOMAIN longer : longer[i].character = c => i \in {Len(queue) + 1, Len(queue) + 2}
  BY <1>2, <1>3
<1>5. About(longer, c) \subseteq {Release(c), Forward(c, d)}
  BY <1>2, <1>4 DEF About
<1>6. Release(c).kind = "ZoneTransferAuthorize" /\ Forward(c, d).kind = "ZoneConnectForward"
  BY DEF Release, Forward
<1>7. InOrder(longer, c)
  BY <1>2, <1>4, <1>6 DEF InOrder
<1> QED
  BY <1>5, <1>7 DEF longer

LEMMA NothingAbout ==
    ASSUME NEW S, NEW queue \in Seq(S), NEW c, About(queue, c) = {}
    PROVE  Once(queue, c) /\ InOrder(queue, c)
<1>1. \A i \in DOMAIN queue : queue[i].character # c
  BY DEF About
<1> QED
  BY <1>1 DEF Once, InOrder

\* What the servers say of a character in a step is no more than before it.
ZonesQuieter(c) == \A y \in Zones : Quieter(toZone'[y], toZone[y], c)
WorldQuieter(c) == \A y \in Zones : Quieter(toWorld'[y], toWorld[y], c)

LEMMA ReadQuieter ==
    ASSUME TypeOK, NEW z \in Zones, NEW c
    PROVE  /\ toZone[z] # <<>> /\ toZone' = [toZone EXCEPT ![z] = Tail(@)] => ZonesQuieter(c)
           /\ toWorld[z] # <<>> /\ toWorld' = [toWorld EXCEPT ![z] = Tail(@)] => WorldQuieter(c)
<1>1. toZone \in [Zones -> Seq(ToZone)] /\ toWorld \in [Zones -> Seq(ToWorld)]
  BY DEF TypeOK
<1>2. ASSUME toZone[z] # <<>>, toZone' = [toZone EXCEPT ![z] = Tail(@)], NEW y \in Zones
      PROVE  Quieter(toZone'[y], toZone[y], c)
  <2>1. toZone[z] \in Seq(ToZone) /\ toZone'[y] = IF y = z THEN Tail(toZone[z]) ELSE toZone[y]
    BY <1>1, <1>2
  <2>2. Quieter(Tail(toZone[z]), toZone[z], c)
    BY <1>2, <2>1, QuieterRead
  <2> QED
    BY <2>1, <2>2, QuieterSame
<1>3. ASSUME toWorld[z] # <<>>, toWorld' = [toWorld EXCEPT ![z] = Tail(@)], NEW y \in Zones
      PROVE  Quieter(toWorld'[y], toWorld[y], c)
  <2>1. toWorld[z] \in Seq(ToWorld) /\ toWorld'[y] = IF y = z THEN Tail(toWorld[z]) ELSE toWorld[y]
    BY <1>1, <1>3
  <2>2. Quieter(Tail(toWorld[z]), toWorld[z], c)
    BY <1>3, <2>1, QuieterRead
  <2> QED
    BY <2>1, <2>2, QuieterSame
<1> QED
  BY <1>2, <1>3 DEF ZonesQuieter, WorldQuieter

LEMMA SendQuieter ==
    ASSUME TypeOK, NEW z \in Zones, NEW c
    PROVE  /\ \A packet \in ToZone :
                  packet.character # c /\ SendToZone(z, packet) => ZonesQuieter(c)
           /\ \A packet \in ToWorld :
                  packet.character # c /\ Reply(z, packet) => WorldQuieter(c)
<1>1. toZone \in [Zones -> Seq(ToZone)] /\ toWorld \in [Zones -> Seq(ToWorld)]
  BY DEF TypeOK
<1>2. ASSUME NEW packet \in ToZone, packet.character # c, SendToZone(z, packet), NEW y \in Zones
      PROVE  Quieter(toZone'[y], toZone[y], c)
  <2>1. toZone[z] \in Seq(ToZone)
    BY <1>1
  <2>2. Quieter(Append(toZone[z], packet), toZone[z], c)
    BY <1>2, <2>1, QuieterSend
  <2>3. CASE z \in linked
    <3>1. toZone' = [toZone EXCEPT ![z] = Append(@, packet)]
      BY <1>2, <2>3 DEF SendToZone
    <3>2. toZone'[y] = IF y = z THEN Append(toZone[z], packet) ELSE toZone[y]
      BY <1>1, <3>1
    <3> QED
      BY <2>2, <3>2, QuieterSame
  <2>4. CASE z \notin linked
    BY <1>2, <2>4, QuieterSame DEF SendToZone
  <2> QED
    BY <2>3, <2>4
<1>3. ASSUME NEW packet \in ToWorld, packet.character # c, Reply(z, packet), NEW y \in Zones
      PROVE  Quieter(toWorld'[y], toWorld[y], c)
  <2>1. /\ toWorld[z] \in Seq(ToWorld)
        /\ toWorld'[y] = IF y = z THEN Append(toWorld[z], packet) ELSE toWorld[y]
    BY <1>1, <1>3 DEF Reply
  <2>2. Quieter(Append(toWorld[z], packet), toWorld[z], c)
    BY <1>3, <2>1, QuieterSend
  <2> QED
    BY <2>1, <2>2, QuieterSame
<1> QED
  BY <1>2, <1>3 DEF ZonesQuieter, WorldQuieter

LEMMA SameQuieter ==
    ASSUME NEW c
    PROVE  /\ toZone' = toZone => ZonesQuieter(c)
           /\ toWorld' = toWorld => WorldQuieter(c)
  BY QuieterSame DEF ZonesQuieter, WorldQuieter

\* A step that has nothing to do with a character.
Untouched(c) ==
    /\ ZonesQuieter(c) /\ WorldQuieter(c)
    /\ \A y \in Zones : players'[y][c] = players[y][c]
    /\ pendingZoneTransfers'[c] = pendingZoneTransfers[c]
    /\ db'[c] = db[c]
    /\ \A k \in Clients : Plays[k] = c =>
          /\ client'[k] = client[k]
          /\ \A y \in Zones : <<y, k>> \in hangups' => <<y, k>> \in hangups

\* What a client does that plays somebody else.
LEMMA ClientActsUntouched ==
    ASSUME TypeOK, NEW j \in Clients, ClientActs(j), NEW c \in Characters, Plays[j] # c
    PROVE  Untouched(c)
<1>1. Plays[j] \in Characters /\ client \in [Clients -> ClientState]
  BY ClientTyped DEF TypeOK
<1>2. client[j].phase \in {"offered", "in", "crossing"} => client[j].zone \in Zones
  BY ClientTyped
<1>3. \A k \in Clients : Plays[k] = c =>
          /\ client'[k] = client[k]
          /\ \A y \in Zones : <<y, k>> \in hangups' => <<y, k>> \in hangups
  <2> SUFFICES ASSUME NEW k \in Clients, Plays[k] = c
               PROVE  /\ client'[k] = client[k]
                      /\ \A y \in Zones : <<y, k>> \in hangups' => <<y, k>> \in hangups
    OBVIOUS
  <2>1. k # j
    OBVIOUS
  <2>2. client'[k] = client[k]
    BY <1>1, <2>1 DEF ClientActs, SelectCharacter, SessionResume, Play, UsePortal, Stuck, Quit,
                      StopWaiting
  <2>3. hangups' \subseteq hangups \cup {<<client[j].zone, j>>}
    BY DEF ClientActs, SelectCharacter, SessionResume, Play, UsePortal, Stuck, Quit, StopWaiting
  <2> QED
    BY <2>1, <2>2, <2>3
<1>4. pendingZoneTransfers' = pendingZoneTransfers
  BY DEF ClientActs, SelectCharacter, SessionResume, Play, UsePortal, Stuck, Quit, StopWaiting, world
<1>5. db'[c] = db[c]
  BY <1>1 DEF ClientActs, SelectCharacter, SessionResume, Play, UsePortal, Stuck, Quit,
              StopWaiting, TypeOK
<1>6. \A y \in Zones : players'[y][c] = players[y][c]
  <2>1. CASE UNCHANGED players
    BY <2>1
  <2>2. CASE Play(j)
    BY <1>1, <1>2, <2>2 DEF Play, TypeOK
  <2>3. CASE players' = [players EXCEPT ![client[j].zone][Plays[j]] =
                             [@ EXCEPT !.connection = j, !.token = client[j].token]]
    BY <1>1, <2>3 DEF TypeOK
  <2> QED
    BY <2>1, <2>2, <2>3 DEF ClientActs, SelectCharacter, SessionResume, UsePortal, Stuck, Quit,
                            StopWaiting, zone
<1>7. ZonesQuieter(c)
  <2>1. CASE SelectCharacter(j)
    <3> DEFINE packet == [kind |-> "PlayerEnterPrepare", character |-> Plays[j],
                          token |-> <<j, logins[j] + 1>>]
    <3>1. <<j, logins[j] + 1>> \in Tokens
      BY <2>1, BoundsAssumption DEF SelectCharacter, TypeOK, Tokens
    <3>2. packet \in ToZone /\ packet.character # c
      BY <1>1, <3>1, PacketsTyped
    <3>3. SendToZone(db[Plays[j]].zone, packet)
      BY <2>1 DEF SelectCharacter
    <3> QED
      BY <1>1, <3>2, <3>3, RowTyped, SendQuieter
  <2>2. CASE ~ SelectCharacter(j)
    <3>1. toZone' = toZone
      BY <2>2 DEF ClientActs, SessionResume, Play, UsePortal, Stuck, Quit, StopWaiting, links
    <3> QED
      BY <3>1, SameQuieter
  <2> QED
    BY <2>1, <2>2
<1>8. WorldQuieter(c)
  <2>1. ASSUME NEW dest \in Zones, UsePortal(j, dest) PROVE WorldQuieter(c)
    <3> DEFINE z == client[j].zone
               packet == [kind |-> "ZoneTransferRequest", character |-> Plays[j], dest |-> dest,
                          token |-> players[z][Plays[j]].token]
    <3>1. z \in Zones /\ players[z][Plays[j]] # None
      BY <1>2, <2>1 DEF UsePortal, Bound
    <3>2. packet \in ToWorld /\ packet.character # c
      BY <1>1, <3>1, EntityTyped, PacketsTyped
    <3>3. Reply(z, packet)
      BY <2>1 DEF UsePortal
    <3> QED
      BY <3>1, <3>2, <3>3, SendQuieter
  <2>2. CASE ~ \E dest \in Zones : UsePortal(j, dest)
    <3>1. toWorld' = toWorld
      BY <2>2 DEF ClientActs, SelectCharacter, SessionResume, Play, Stuck, Quit, StopWaiting, links
    <3> QED
      BY <3>1, SameQuieter
  <2> QED
    BY <2>1, <2>2
<1> QED
  BY <1>3, <1>4, <1>5, <1>6, <1>7, <1>8 DEF Untouched

LEMMA HangupUntouched ==
    ASSUME TypeOK, NEW z \in Zones, NEW j \in Clients, Hangup(z, j), NEW c \in Characters,
           Plays[j] # c \/ ~ Bound(j, z)
    PROVE  Untouched(c)
<1>1. Plays[j] \in Characters
  BY ClientTyped
<1>2. hangups' \subseteq hangups /\ client' = client /\ toZone' = toZone /\ toWorld' = toWorld
      /\ pendingZoneTransfers' = pendingZoneTransfers
  BY DEF Hangup, links, world
<1>3. db'[c] = db[c] /\ \A y \in Zones : players'[y][c] = players[y][c]
  <2>1. CASE ~ Bound(j, z)
    BY <2>1 DEF Hangup
  <2>2. CASE Bound(j, z)
    <3>1. /\ db' = [db EXCEPT ![Plays[j]] = [zone |-> z, state |-> players[z][Plays[j]].state]]
          /\ players' = [players EXCEPT ![z][Plays[j]] = None]
          /\ Plays[j] # c
      BY <2>2 DEF Hangup
    <3> QED
      BY <1>1, <3>1 DEF TypeOK
  <2> QED
    BY <2>1, <2>2
<1> QED
  BY <1>2, <1>3, SameQuieter DEF Untouched

\* What a zone reads about somebody else.
LEMMA ZoneReadsUntouched ==
    ASSUME TypeOK, OwnNames, NEW z \in Zones, ZoneReads(z),
           NEW c \in Characters, Head(toZone[z]).character # c
    PROVE  Untouched(c)
<1> DEFINE b == Head(toZone[z]).character
<1>0. toZone[z] # <<>> /\ b \in Characters /\ Head(toZone[z]) \in ToZone
  BY ZonePackets DEF ZoneReads, PlayerEnterPrepare, LoadCharacterResponse,
                     ZoneTransferAuthorize, ZoneConnectForward, Arrives
<1>1. ZonesQuieter(c)
  <2>1. toZone' = [toZone EXCEPT ![z] = Tail(@)]
    BY DEF ZoneReads, PlayerEnterPrepare, LoadCharacterResponse, ZoneTransferAuthorize,
           ZoneConnectForward
  <2> QED
    BY <1>0, <2>1, ReadQuieter
<1>2. \A y \in Zones : players'[y][c] = players[y][c]
  <2>1. CASE PlayerEnterPrepare(z)
    BY <1>0, <2>1 DEF PlayerEnterPrepare, TypeOK
  <2>2. CASE LoadCharacterResponse(z)
    BY <1>0, <2>2 DEF LoadCharacterResponse, TypeOK
  <2>3. CASE ZoneTransferAuthorize(z)
    BY <1>0, <2>3 DEF ZoneTransferAuthorize, TypeOK
  <2>4. CASE ZoneConnectForward(z)
    BY <2>4 DEF ZoneConnectForward
  <2> QED
    BY <2>1, <2>2, <2>3, <2>4 DEF ZoneReads
<1>3. pendingZoneTransfers' = pendingZoneTransfers
  BY DEF ZoneReads, PlayerEnterPrepare, LoadCharacterResponse, ZoneTransferAuthorize,
         ZoneConnectForward, world
<1>4. db'[c] = db[c]
  <2>1. CASE ZoneTransferAuthorize(z)
    BY <1>0, <2>1 DEF ZoneTransferAuthorize, TypeOK
  <2>2. CASE ~ ZoneTransferAuthorize(z)
    BY <2>2 DEF ZoneReads, PlayerEnterPrepare, LoadCharacterResponse, ZoneConnectForward
  <2> QED
    BY <2>1, <2>2
<1>5. WorldQuieter(c)
  <2>1. CASE PlayerEnterPrepare(z)
    <3> DEFINE packet == [kind |-> "LoadCharacterRequest", character |-> b]
    <3>1. packet \in ToWorld /\ packet.character # c
      BY <1>0, PacketsTyped
    <3>2. Reply(z, packet)
      BY <2>1 DEF PlayerEnterPrepare, AskForCharacter
    <3> QED
      BY <3>1, <3>2, SendQuieter
  <2>2. CASE LoadCharacterResponse(z)
    <3> DEFINE packet == [kind |-> "PlayerEnterReady", character |-> b]
    <3>1. packet \in ToWorld /\ packet.character # c
      BY <1>0, PacketsTyped
    <3>2. Reply(z, packet)
      BY <2>2 DEF LoadCharacterResponse
    <3> QED
      BY <3>1, <3>2, SendQuieter
  <2>3. CASE ZoneTransferAuthorize(z) \/ ZoneConnectForward(z)
    <3>1. toWorld' = toWorld
      BY <2>3 DEF ZoneTransferAuthorize, ZoneConnectForward
    <3> QED
      BY <3>1, SameQuieter
  <2> QED
    BY <2>1, <2>2, <2>3 DEF ZoneReads
<1>6. ASSUME NEW k \in Clients, Plays[k] = c
      PROVE  client'[k] = client[k] /\ \A y \in Zones : <<y, k>> \in hangups' => <<y, k>> \in hangups
  <2>1. CASE ZoneConnectForward(z)
    <3> DEFINE j == pendingTransfers[z][b]
    <3>1. j # None => j \in Clients /\ Plays[j] = b
      BY <1>0 DEF TypeOK, OwnNames
    <3>2. CASE UNCHANGED <<client, hangups>>
      BY <3>2
    <3>3. CASE j # None /\ ~ UNCHANGED <<client, hangups>>
      <4>1. j \in Clients /\ j # k
        BY <1>6, <3>1, <3>3
      <4>2. hangups' \subseteq hangups \cup {<<z, j>>}
        BY <2>1 DEF ZoneConnectForward
      <4>3. client'[k] = client[k]
        BY <2>1, <4>1 DEF ZoneConnectForward, TypeOK
      <4> QED
        BY <4>1, <4>2, <4>3
    <3>4. j # None \/ UNCHANGED <<client, hangups>>
      BY <2>1 DEF ZoneConnectForward
    <3> QED
      BY <3>2, <3>3, <3>4
  <2>2. CASE ~ ZoneConnectForward(z)
    BY <2>2 DEF ZoneReads, PlayerEnterPrepare, LoadCharacterResponse, ZoneTransferAuthorize
  <2> QED
    BY <2>1, <2>2
<1> QED
  BY <1>1, <1>2, <1>3, <1>4, <1>5, <1>6 DEF Untouched

\* What WorldLogin reads about somebody else.
LEMMA WorldReadsUntouched ==
    ASSUME TypeOK, OwnNames, NEW z \in Zones, WorldReads(z),
           NEW c \in Characters, Head(toWorld[z]).character # c
    PROVE  Untouched(c)
<1> DEFINE packet == Head(toWorld[z])
           b == packet.character
<1>0. toWorld[z] # <<>> /\ b \in Characters
  BY WorldPackets DEF WorldReads, LoadCharacterRequest, ZoneTransferRequest, ReadyToCross,
                      ReadyToEnter, Read, Arrives
<1>1. WorldQuieter(c)
  <2>1. toWorld' = [toWorld EXCEPT ![z] = Tail(@)]
    BY DEF WorldReads, LoadCharacterRequest, ZoneTransferRequest, ReadyToCross, ReadyToEnter, Read
  <2> QED
    BY <1>0, <2>1, ReadQuieter
<1>2. players' = players
  BY DEF WorldReads, LoadCharacterRequest, ZoneTransferRequest, ReadyToCross, ReadyToEnter, zone
<1>3. pendingZoneTransfers'[c] = pendingZoneTransfers[c]
  <2>1. CASE ZoneTransferRequest(z)
    BY <1>0, <2>1 DEF ZoneTransferRequest, TypeOK
  <2>2. CASE ReadyToCross(z)
    BY <1>0, <2>2 DEF ReadyToCross, TypeOK
  <2>3. CASE LoadCharacterRequest(z) \/ ReadyToEnter(z)
    BY <2>3 DEF LoadCharacterRequest, ReadyToEnter, world
  <2> QED
    BY <2>1, <2>2, <2>3 DEF WorldReads
<1>4. db'[c] = db[c]
  BY <1>0 DEF WorldReads, LoadCharacterRequest, ZoneTransferRequest, ReadyToCross, ReadyToEnter,
              TypeOK
<1>5. ZonesQuieter(c)
  <2>1. CASE LoadCharacterRequest(z)
    <3> DEFINE answer == [kind |-> "LoadCharacterResponse", character |-> b, state |-> db[b].state]
    <3>1. answer \in ToZone /\ answer.character # c
      BY <1>0, RowTyped, PacketsTyped
    <3>2. SendToZone(z, answer)
      BY <2>1 DEF LoadCharacterRequest
    <3> QED
      BY <3>1, <3>2, SendQuieter
  <2>2. CASE ZoneTransferRequest(z) /\ packet.dest \notin zones
    <3>1. Forward(b, None) \in ToZone /\ Forward(b, None).character # c
      BY <1>0, PacketsTyped DEF Forward
    <3>2. SendToZone(z, Forward(b, None))
      BY <2>2 DEF ZoneTransferRequest, Refuse
    <3> QED
      BY <3>1, <3>2, SendQuieter
  <2>3. CASE ZoneTransferRequest(z) /\ packet.dest \in zones
    <3> DEFINE prepare == [kind |-> "PlayerEnterPrepare", character |-> b, token |-> packet.token]
    <3>1. packet.token \in Tokens \cup {None} /\ packet.dest \in Zones
      BY <2>3, WorldPackets DEF ZoneTransferRequest, Read, Arrives
    <3>2. prepare \in ToZone /\ prepare.character # c
      BY <1>0, <3>1, PacketsTyped
    <3>3. SendToZone(packet.dest, prepare)
      BY <2>3 DEF ZoneTransferRequest
    <3> QED
      BY <3>1, <3>2, <3>3, SendQuieter
  <2>4. CASE ReadyToCross(z)
    <3> DEFINE transfer == pendingZoneTransfers[b]
    <3>1. transfer.source \in Zones /\ transfer.dest \in Zones
      BY <1>0, <2>4 DEF ReadyToCross, TypeOK, Transfer
    <3>2. toZone \in [Zones -> Seq(ToZone)]
      BY DEF TypeOK
    <3>3. \A y \in Zones :
              toZone'[y] \in {toZone[y], toZone[y] \o <<Release(b), Forward(b, transfer.dest)>>}
      BY <2>4, <3>1, <3>2 DEF ReadyToCross, Orders
    <3>4. \A y \in Zones :
              Quieter(toZone[y] \o <<Release(b), Forward(b, transfer.dest)>>, toZone[y], c)
      BY <1>0, <3>1, <3>2, QuieterOrders
    <3> QED
      BY <3>3, <3>4, QuieterSame DEF ZonesQuieter
  <2>5. CASE ReadyToEnter(z)
    BY <2>5, SameQuieter DEF ReadyToEnter
  <2> QED
    BY <2>1, <2>2, <2>3, <2>4, <2>5 DEF WorldReads
<1>6. ASSUME NEW k \in Clients, Plays[k] = c
      PROVE  client'[k] = client[k] /\ hangups' = hangups
  <2>1. hangups' = hangups
    BY DEF WorldReads, LoadCharacterRequest, ZoneTransferRequest, ReadyToCross, ReadyToEnter
  <2>2. CASE ReadyToEnter(z)
    <3> DEFINE j == pendingHandoffs[b].client
    <3>1. CASE pendingHandoffs[b] = None
      BY <2>1, <2>2, <3>1 DEF ReadyToEnter
    <3>2. CASE pendingHandoffs[b] # None
      <4>1. j \in Clients /\ Plays[j] = b
        BY <1>0, <3>2 DEF TypeOK, OwnNames
      <4>2. j # k
        BY <1>6, <4>1
      <4> QED
        BY <2>1, <2>2, <4>1, <4>2 DEF ReadyToEnter, TypeOK
    <3> QED
      BY <3>1, <3>2
  <2>3. CASE ~ ReadyToEnter(z)
    BY <2>1, <2>3 DEF WorldReads, LoadCharacterRequest, ZoneTransferRequest, ReadyToCross
  <2> QED
    BY <2>2, <2>3
<1> QED
  BY <1>1, <1>2, <1>3, <1>4, <1>5, <1>6 DEF Untouched

LEMMA RegisterUntouched ==
    ASSUME NEW c, (\E z \in Zones : ZoneRegister(z)) \/ UNCHANGED vars
    PROVE  Untouched(c)
<1>1. UNCHANGED <<toZone, toWorld, players, pendingZoneTransfers, db, client, hangups>>
  BY DEF ZoneRegister, zone, vars, links, world
<1> QED
  BY <1>1, SameQuieter DEF Untouched

\* Where nothing is said of a character nothing has been said of it afterwards; and the stages
\* of its visit that queues tell last while nothing new is said.
LEMMA StagesKept ==
    ASSUME NEW c, ZonesQuieter(c), WorldQuieter(c)
    PROVE  /\ \A S : SilentBut(c, S) => SilentBut(c, S)'
           /\ Silent(c) => Silent(c)'
           /\ \A z \in Zones : Preparing(c, z) => Preparing(c, z)'
           /\ \A z \in Zones : Asking(c, z) => Asking(c, z)'
           /\ \A z \in Zones : Refusing(c, z) => Refusing(c, z)'
           /\ \A z \in Zones : \A d : Releasing(c, z, d) => Releasing(c, z, d)'
<1> DEFINE Z(y) == toZone'[y]
           W(y) == toWorld'[y]
<1>1. \A y \in Zones : /\ About(Z(y), c) \subseteq About(toZone[y], c)
                       /\ Once(toZone[y], c) => Once(Z(y), c)
                       /\ InOrder(toZone[y], c) => InOrder(Z(y), c)
                       /\ About(W(y), c) \subseteq About(toWorld[y], c)
                       /\ Once(toWorld[y], c) => Once(W(y), c)
  BY DEF ZonesQuieter, WorldQuieter, Quieter
<1> HIDE DEF Z, W
<1>2. ASSUME NEW S, SilentBut(c, S)
      PROVE  \A y \in Zones \ S : About(Z(y), c) = {} /\ About(W(y), c) = {}
  BY <1>1, <1>2 DEF SilentBut
<1>3. \A S : SilentBut(c, S) => SilentBut(c, S)'
  BY <1>2 DEF SilentBut, Z, W
<1>4. Silent(c) => Silent(c)'
  BY <1>3 DEF Silent
<1>5. \A z \in Zones : Preparing(c, z) => Preparing(c, z)'
  <2> SUFFICES ASSUME NEW z \in Zones, Preparing(c, z) PROVE Preparing(c, z)'
    OBVIOUS
  <2>1. SilentBut(c, {z})'
    BY <1>3 DEF Preparing
  <2>2. CASE /\ About(toWorld[z], c) = {}
             /\ Once(toZone[z], c)
             /\ \A p \in About(toZone[z], c) : p.kind \in {"PlayerEnterPrepare", "LoadCharacterResponse"}
    <3>1. /\ About(W(z), c) = {}
          /\ Once(Z(z), c)
          /\ \A p \in About(Z(z), c) : p.kind \in {"PlayerEnterPrepare", "LoadCharacterResponse"}
      BY <1>1, <2>2
    <3> QED
      BY <2>1, <3>1 DEF Preparing, Z, W
  <2>3. CASE /\ About(toZone[z], c) = {}
             /\ Once(toWorld[z], c)
             /\ \A p \in About(toWorld[z], c) : p.kind \in {"LoadCharacterRequest", "PlayerEnterReady"}
    <3>1. /\ About(Z(z), c) = {}
          /\ Once(W(z), c)
          /\ \A p \in About(W(z), c) : p.kind \in {"LoadCharacterRequest", "PlayerEnterReady"}
      BY <1>1, <2>3
    <3> QED
      BY <2>1, <3>1 DEF Preparing, Z, W
  <2> QED
    BY <2>2, <2>3 DEF Preparing
<1>6. ASSUME NEW z \in Zones, Asking(c, z) PROVE Asking(c, z)'
  <2>1. SilentBut(c, {z})'
    BY <1>3, <1>6 DEF Asking
  <2>2. /\ About(Z(z), c) = {}
        /\ Once(W(z), c)
        /\ \A p \in About(W(z), c) : p.kind = "ZoneTransferRequest" /\ p.dest # z
    BY <1>1, <1>6 DEF Asking
  <2> QED
    BY <2>1, <2>2 DEF Asking, Z, W
<1>7. ASSUME NEW z \in Zones, Refusing(c, z) PROVE Refusing(c, z)'
  <2>1. SilentBut(c, {z})'
    BY <1>3, <1>7 DEF Refusing
  <2>2. /\ About(W(z), c) = {}
        /\ Once(Z(z), c)
        /\ \A p \in About(Z(z), c) : p.kind = "ZoneConnectForward" /\ ~ p.ok
    BY <1>1, <1>7 DEF Refusing
  <2> QED
    BY <2>1, <2>2 DEF Refusing, Z, W
<1>8. ASSUME NEW z \in Zones, NEW d, Releasing(c, z, d) PROVE Releasing(c, z, d)'
  <2>1. SilentBut(c, {z})'
    BY <1>3, <1>8 DEF Releasing
  <2>2. /\ About(W(z), c) = {}
        /\ InOrder(Z(z), c)
        /\ About(Z(z), c) \subseteq {Release(c), Forward(c, d)}
    BY <1>1, <1>8 DEF Releasing
  <2> QED
    BY <2>1, <2>2 DEF Releasing, Z, W
<1> QED
  BY <1>3, <1>4, <1>5, <1>6, <1>7, <1>8

\* A visit stands still while its client does, nobody new appears, and nothing new is said.
LEMMA VisitFrame ==
    ASSUME TypeOK, NEW k \in Clients, NEW c, c = Plays[k], Visit(k),
           ZonesQuieter(c), WorldQuieter(c),
           client'[k] = client[k],
           \A y \in Zones : players[y][c] = None => players'[y][c] = None,
           client[k].phase \in {"in", "crossing"} =>
               (Bound(k, client[k].zone) => Bound(k, client[k].zone)'),
           pendingZoneTransfers'[c] = pendingZoneTransfers[c],
           client[k].phase = "selecting" => db'[c].zone = db[c].zone,
           <<client[k].zone, k>> \in hangups' => <<client[k].zone, k>> \in hangups
    PROVE  Visit(k)'
<1>0. PICK z, home : z = client[k].zone /\ home = db[c].zone
  OBVIOUS
<1>1. \A S : OnlyIn(c, S) => OnlyIn(c, S)'
  BY DEF OnlyIn
<1>2. c \in Characters /\ home \in Zones /\ z = client'[k].zone
  BY <1>0, ClientTyped, RowTyped
<1>3. CASE client[k].phase = "selecting"
  <2>1. pendingZoneTransfers[c] = None /\ Preparing(c, home) /\ OnlyIn(c, {home})
    BY <1>0, <1>3 DEF Visit, VisitOf
  <2>2. Preparing(c, home)' /\ OnlyIn(c, {home})'
    BY <1>1, <1>2, <2>1, StagesKept
  <2>3. home = db'[c].zone
    BY <1>0, <1>3
  <2> QED
    BY <1>3, <2>1, <2>2, <2>3 DEF Visit, VisitOf
<1>4. CASE client[k].phase \in {"offered", "in"}
  <2>1. Silent(c) /\ OnlyIn(c, {z}) /\ (client[k].phase = "in" => Bound(k, z))
    BY <1>0, <1>4 DEF Visit, VisitOf
  <2>2. Silent(c)' /\ OnlyIn(c, {z})'
    BY <1>1, <2>1, StagesKept
  <2>3. client[k].phase = "in" => Bound(k, z)' /\ <<z, k>> \notin hangups'
    BY <1>0, <1>2, <2>1 DEF Visit, VisitOf, Bound
  <2> QED
    BY <1>2, <1>4, <2>2, <2>3 DEF Visit, VisitOf, Bound
<1>5. CASE client[k].phase = "crossing"
  <2>1. Crossing(k, c, z) /\ z \in Zones /\ <<z, k>> \notin hangups'
    BY <1>0, <1>5, ClientTyped DEF Visit, VisitOf
  <2>2. Bound(k, z) => Bound(k, z)'
    BY <1>0, <1>2, <1>5 DEF Bound
  <2>3. Crossing(k, c, z)'
    <3>1. CASE Bound(k, z) /\ OnlyIn(c, {z}) /\ (Asking(c, z) \/ Refusing(c, z))
      BY <1>1, <2>1, <2>2, <3>1, StagesKept DEF Crossing
    <3>2. ASSUME NEW d \in Zones \ {z}, OnlyIn(c, {z, d}), Bound(k, z), Preparing(c, d),
                 pendingZoneTransfers[c] = [source |-> z, dest |-> d]
          PROVE  Crossing(k, c, z)'
      <4>1. Bound(k, z)' /\ OnlyIn(c, {z, d})' /\ Preparing(c, d)'
        BY <1>1, <2>2, <3>2, StagesKept
      <4>2. pendingZoneTransfers'[c] = [source |-> z, dest |-> d]
        BY <3>2
      <4> QED
        BY <3>2, <4>1, <4>2 DEF Crossing
    <3>3. ASSUME NEW d \in Zones \ {z}, OnlyIn(c, {z, d}), Releasing(c, z, d)
          PROVE  Crossing(k, c, z)'
      <4>1. OnlyIn(c, {z, d})' /\ Releasing(c, z, d)'
        BY <1>1, <2>1, <3>3, StagesKept
      <4> QED
        BY <3>3, <4>1 DEF Crossing
    <3> QED
      BY <2>1, <3>1, <3>2, <3>3 DEF Crossing
  <2> QED
    BY <1>2, <1>5, <2>1, <2>3 DEF Visit, VisitOf
<1>6. CASE client[k].phase \in {"out", "refused"}
  BY <1>6 DEF Visit, VisitOf
<1> QED
  BY <1>3, <1>4, <1>5, <1>6, ClientTyped DEF Phases

LEMMA UntouchedVisit ==
    ASSUME TypeOK, NEW k \in Clients, NEW c, c = Plays[k], Visit(k), Untouched(c)
    PROVE  Visit(k)'
<1>1. c \in Characters /\ (client[k].phase \in {"in", "crossing"} => client[k].zone \in Zones)
  BY ClientTyped
<1>2. client[k].phase \in {"in", "crossing"} =>
          (Bound(k, client[k].zone) => Bound(k, client[k].zone)')
  BY <1>1 DEF Untouched, Bound
<1>3. ~ client[k].zone \in Zones \/ (<<client[k].zone, k>> \in hangups' => <<client[k].zone, k>> \in hangups)
  BY DEF Untouched
<1>4. CASE client[k].zone \in Zones
  BY <1>2, <1>3, <1>4, VisitFrame DEF Untouched
<1>5. CASE client[k].zone \notin Zones
  <2>1. client[k].phase \in {"out", "selecting", "refused"} /\ client'[k] = client[k]
    BY <1>5, ClientTyped DEF Phases, Untouched
  <2>2. CASE client[k].phase = "selecting"
    <3>1. PICK home : home = db[c].zone
      OBVIOUS
    <3>2. home \in Zones /\ home = db'[c].zone
      BY <1>1, <3>1, RowTyped DEF Untouched
    <3>3. pendingZoneTransfers[c] = None /\ Preparing(c, home) /\ OnlyIn(c, {home})
      BY <2>2, <3>1 DEF Visit, VisitOf
    <3>4. Preparing(c, home)' /\ OnlyIn(c, {home})' /\ pendingZoneTransfers'[c] = None
      BY <3>2, <3>3, StagesKept DEF Untouched, OnlyIn
    <3> QED
      BY <2>1, <2>2, <3>2, <3>4 DEF Visit, VisitOf
  <2> QED
    BY <2>1, <2>2 DEF Visit, VisitOf
<1> QED
  BY <1>4, <1>5

LEMMA UntouchedFresh ==
    ASSUME NEW c, Untouched(c), Fresh(c)
    PROVE  Fresh(c)'
<1>1. Silent(c)'
  BY StagesKept DEF Untouched, Fresh
<1> QED
  BY <1>1 DEF Untouched, Fresh, OnlyIn

\* A zone dies.
LEMMA CrashQuieter ==
    ASSUME TypeOK, NEW z \in Zones, ZoneCrash(z), NEW c \in Characters
    PROVE  /\ ZonesQuieter(c) /\ WorldQuieter(c)
           /\ \A y \in Zones : players'[y][c] = IF y = z THEN None ELSE players[y][c]
<1>1. toZone \in [Zones -> Seq(ToZone)] /\ toWorld \in [Zones -> Seq(ToWorld)]
  BY DEF TypeOK
<1>2. ASSUME NEW y \in Zones PROVE Quieter(toZone'[y], toZone[y], c)
  <2>1. toZone'[y] = IF y = z THEN <<>> ELSE toZone[y]
    BY <1>1 DEF ZoneCrash
  <2>2. toZone[y] \in Seq(ToZone)
    BY <1>1
  <2>3. Quieter(<<>>, toZone[y], c)
    BY <2>2, QuieterEmpty
  <2> QED
    BY <2>1, <2>3, QuieterSame
<1>3. ASSUME NEW y \in Zones PROVE Quieter(toWorld'[y], toWorld[y], c)
  <2>1. PICK n \in 0 .. Len(toWorld[z]) : toWorld' = [toWorld EXCEPT ![z] = SubSeq(@, 1, n)]
    BY DEF ZoneCrash
  <2>2. toWorld[z] \in Seq(ToWorld)
    BY <1>1
  <2>3. Quieter(SubSeq(toWorld[z], 1, n), toWorld[z], c)
    BY <2>2, QuieterCut
  <2>4. toWorld'[y] = IF y = z THEN SubSeq(toWorld[z], 1, n) ELSE toWorld[y]
    BY <1>1, <2>1
  <2> QED
    BY <2>3, <2>4, QuieterSame
<1>4. \A y \in Zones : players'[y][c] = IF y = z THEN None ELSE players[y][c]
  BY DEF ZoneCrash, TypeOK
<1> QED
  BY <1>2, <1>3, <1>4 DEF ZonesQuieter, WorldQuieter

LEMMA VisitCrash ==
    ASSUME TypeOK, NEW z \in Zones, ZoneCrash(z), NEW k \in Clients, Visit(k)
    PROVE  Visit(k)'
<1> DEFINE c == Plays[k]
<1>1. c \in Characters /\ z # None
  BY ClientTyped, WorldAssumption
<1>2. client'[k] = IF client[k].zone = z THEN Out(k) ELSE client[k]
  BY DEF ZoneCrash
<1>3. CASE client[k].zone = z
  BY <1>2, <1>3, OutTyped DEF Visit, VisitOf
<1>4. CASE client[k].zone # z
  <2>1. UNCHANGED <<db, pendingZoneTransfers>> /\ hangups' \subseteq hangups
    BY DEF ZoneCrash, world
  <2>2. client[k].phase \in {"in", "crossing"} =>
            (Bound(k, client[k].zone) => Bound(k, client[k].zone)')
    <3>1. client[k].phase \in {"in", "crossing"} =>
              players'[client[k].zone][c] = players[client[k].zone][c]
      BY <1>1, <1>4, ClientTyped, CrashQuieter
    <3> QED
      BY <1>2, <1>4, <3>1 DEF Bound
  <2>3. \A y \in Zones : players[y][c] = None => players'[y][c] = None
    BY <1>1, CrashQuieter
  <2>4. ZonesQuieter(c) /\ WorldQuieter(c)
    BY <1>1, CrashQuieter
  <2> QED
    BY <1>2, <1>4, <2>1, <2>2, <2>3, <2>4, VisitFrame
<1> QED
  BY <1>3, <1>4

\* A packet about the character stands at the head of a queue.
LEMMA HeardOf ==
    ASSUME TypeOK, NEW z \in Zones
    PROVE  /\ ZoneReads(z) => Head(toZone[z]) \in About(toZone[z], Head(toZone[z]).character)
           /\ WorldReads(z) => Head(toWorld[z]) \in About(toWorld[z], Head(toWorld[z]).character)
<1>1. toZone[z] \in Seq(ToZone) /\ toWorld[z] \in Seq(ToWorld)
  BY DEF TypeOK
<1>2. ZoneReads(z) => toZone[z] # <<>>
  BY DEF ZoneReads, PlayerEnterPrepare, LoadCharacterResponse, ZoneTransferAuthorize,
         ZoneConnectForward, Arrives
<1>3. WorldReads(z) => toWorld[z] # <<>>
  BY DEF WorldReads, LoadCharacterRequest, ZoneTransferRequest, ReadyToCross, ReadyToEnter,
         Read, Arrives
<1> QED
  BY <1>1, <1>2, <1>3, ReadAbout

LEMMA NotSilent ==
    ASSUME TypeOK, NEW z \in Zones, NEW c, Silent(c)
    PROVE  /\ ZoneReads(z) => Head(toZone[z]).character # c
           /\ WorldReads(z) => Head(toWorld[z]).character # c
  BY HeardOf DEF Silent, SilentBut

\* Nothing happens to a character nobody has asked for.
LEMMA FreshKept ==
    ASSUME TypeOK, OwnNames, [Next]_vars, NEW c \in Characters, NeverAskedFor(c)', Fresh(c)
    PROVE  Fresh(c)'
<1>1. ASSUME NEW j \in Clients, Plays[j] = c PROVE logins[j] = 0 /\ client[j].phase = "out"
  BY <1>1, LoginsGrow DEF NeverAskedFor, OwnNames
<1>2. ASSUME NEW j \in Clients, ClientActs(j) PROVE Untouched(c)
  <2>1. CASE Plays[j] # c
    BY <1>2, <2>1, ClientActsUntouched
  <2>2. CASE Plays[j] = c
    <3>1. SelectCharacter(j)
      BY <1>1, <1>2, <2>2 DEF ClientActs, SessionResume, Play, UsePortal, Stuck, Quit, StopWaiting
    <3>2. logins'[j] = logins[j] + 1
      BY <3>1 DEF SelectCharacter, TypeOK
    <3> QED
      BY <1>1, <2>2, <3>2 DEF NeverAskedFor
  <2> QED
    BY <2>1, <2>2
<1>3. ASSUME NEW z \in Zones, NEW j \in Clients, Hangup(z, j) PROVE Untouched(c)
  <2>1. Plays[j] # c \/ ~ Bound(j, z)
    BY DEF Fresh, OnlyIn, Bound
  <2> QED
    BY <1>3, <2>1, HangupUntouched
<1>4. ASSUME NEW z \in Zones, ZoneReads(z) PROVE Untouched(c)
  BY <1>4, NotSilent, ZoneReadsUntouched DEF Fresh
<1>5. ASSUME NEW z \in Zones, WorldReads(z) PROVE Untouched(c)
  BY <1>5, NotSilent, WorldReadsUntouched DEF Fresh
<1>6. ASSUME NEW z \in Zones, ZoneCrash(z) PROVE Fresh(c)'
  <2>1. Silent(c)'
    BY <1>6, CrashQuieter, StagesKept DEF Fresh
  <2>2. OnlyIn(c, {})'
    BY <1>6, CrashQuieter DEF Fresh, OnlyIn
  <2>3. pendingZoneTransfers' = pendingZoneTransfers
    BY <1>6 DEF ZoneCrash, world
  <2> QED
    BY <2>1, <2>2, <2>3 DEF Fresh
<1> QED
  BY <1>2, <1>3, <1>4, <1>5, <1>6, RegisterUntouched, UntouchedFresh DEF Next

\* A queue that says nothing of a character gets a packet about it; one with nothing else about
\* it loses its first.
LEMMA SentAbout ==
    ASSUME TypeOK, NEW z \in Zones, NEW packet \in ToZone, SendToZone(z, packet),
           NEW c, About(toZone[z], c) = {}
    PROVE  /\ \A y \in Zones \ {z} : toZone'[y] = toZone[y]
           /\ About(toZone'[z], c) \subseteq {packet}
           /\ Once(toZone'[z], c)
<1>1. toZone \in [Zones -> Seq(ToZone)] /\ toZone[z] \in Seq(ToZone)
  BY DEF TypeOK
<1>2. CASE z \in linked
  <2>1. toZone' = [toZone EXCEPT ![z] = Append(@, packet)]
    BY <1>2 DEF SendToZone
  <2>2. toZone'[z] = Append(toZone[z], packet) /\ \A y \in Zones \ {z} : toZone'[y] = toZone[y]
    BY <1>1, <2>1
  <2> QED
    BY <1>1, <2>2, SendAbout
<1>3. CASE z \notin linked
  BY <1>1, <1>3, NothingAbout DEF SendToZone
<1> QED
  BY <1>2, <1>3

LEMMA RepliedAbout ==
    ASSUME TypeOK, NEW z \in Zones, NEW packet \in ToWorld, Reply(z, packet),
           NEW c, About(toWorld[z], c) = {}
    PROVE  /\ \A y \in Zones \ {z} : toWorld'[y] = toWorld[y]
           /\ About(toWorld'[z], c) \subseteq {packet}
           /\ Once(toWorld'[z], c)
<1>1. toWorld \in [Zones -> Seq(ToWorld)] /\ toWorld[z] \in Seq(ToWorld)
  BY DEF TypeOK
<1>2. toWorld'[z] = Append(toWorld[z], packet) /\ \A y \in Zones \ {z} : toWorld'[y] = toWorld[y]
  BY <1>1 DEF Reply
<1> QED
  BY <1>1, <1>2, SendAbout

LEMMA ZoneReadAbout ==
    ASSUME TypeOK, NEW z \in Zones, ZoneReads(z), NEW c, Head(toZone[z]).character = c
    PROVE  /\ \A y \in Zones \ {z} : toZone'[y] = toZone[y]
           /\ Once(toZone[z], c) => About(toZone'[z], c) = {}
           /\ InOrder(toZone[z], c) /\ Head(toZone[z]).kind = "ZoneConnectForward"
                  => About(toZone'[z], c) = {}
           /\ ZonesQuieter(c)
<1>1. toZone \in [Zones -> Seq(ToZone)] /\ toZone[z] \in Seq(ToZone)
  BY DEF TypeOK
<1>2. toZone' = [toZone EXCEPT ![z] = Tail(@)] /\ toZone[z] # <<>>
  BY DEF ZoneReads, PlayerEnterPrepare, LoadCharacterResponse, ZoneTransferAuthorize,
         ZoneConnectForward, Arrives
<1>3. toZone'[z] = Tail(toZone[z]) /\ \A y \in Zones \ {z} : toZone'[y] = toZone[y]
  BY <1>1, <1>2
<1>4. /\ Once(toZone[z], c) => About(Tail(toZone[z]), c) = {}
      /\ InOrder(toZone[z], c) /\ Head(toZone[z]).kind = "ZoneConnectForward"
             => About(Tail(toZone[z]), c) = {}
  <2>1. PICK queue \in Seq(ToZone) : queue = toZone[z] /\ queue # <<>>
    BY <1>1, <1>2
  <2>2. Head(queue).character = c
    BY <2>1
  <2>3. /\ Once(queue, c) => About(Tail(queue), c) = {}
        /\ InOrder(queue, c) /\ Head(queue).kind = "ZoneConnectForward"
               => About(Tail(queue), c) = {}
    BY <2>1, <2>2, ReadAbout
  <2> QED
    BY <2>1, <2>3
<1>5. ZonesQuieter(c)
  BY <1>2, ReadQuieter
<1> QED
  BY <1>3, <1>4, <1>5

LEMMA WorldReadAbout ==
    ASSUME TypeOK, NEW z \in Zones, WorldReads(z), NEW c, Head(toWorld[z]).character = c
    PROVE  /\ \A y \in Zones \ {z} : toWorld'[y] = toWorld[y]
           /\ Once(toWorld[z], c) => About(toWorld'[z], c) = {}
<1>1. toWorld \in [Zones -> Seq(ToWorld)] /\ toWorld[z] \in Seq(ToWorld)
  BY DEF TypeOK
<1>2. toWorld' = [toWorld EXCEPT ![z] = Tail(@)] /\ toWorld[z] # <<>>
  BY DEF WorldReads, LoadCharacterRequest, ZoneTransferRequest, ReadyToCross, ReadyToEnter,
         Read, Arrives
<1>3. toWorld'[z] = Tail(toWorld[z]) /\ \A y \in Zones \ {z} : toWorld'[y] = toWorld[y]
  BY <1>1, <1>2
<1>4. Once(toWorld[z], c) => About(Tail(toWorld[z]), c) = {}
  BY <1>1, <1>2, ReadAbout
<1> QED
  BY <1>3, <1>4

\* The visit begins with the first login.
LEMMA VisitBegins ==
    ASSUME TypeOK, NEW k \in Clients, SelectCharacter(k), Fresh(Plays[k])
    PROVE  Visit(k)'
<1>0. PICK c, home : c = Plays[k] /\ home = db[c].zone
  OBVIOUS
<1> DEFINE prepare == [kind |-> "PlayerEnterPrepare", character |-> c, token |-> <<k, logins[k] + 1>>]
<1>1. c \in Characters /\ home \in Zones
  BY <1>0, ClientTyped, RowTyped
<1>2. <<k, logins[k] + 1>> \in Tokens
  BY BoundsAssumption DEF SelectCharacter, TypeOK, Tokens
<1>3. prepare \in ToZone
  BY <1>1, <1>2, PacketsTyped
<1>4. /\ client'[k] = [phase |-> "selecting", zone |-> None, token |-> <<k, logins[k] + 1>>]
      /\ SendToZone(home, prepare)
      /\ UNCHANGED <<db, pendingZoneTransfers, toWorld, players>>
  BY <1>0 DEF SelectCharacter, TypeOK, zone
<1>5. /\ pendingZoneTransfers[c] = None
      /\ \A y \in Zones : /\ About(toZone[y], c) = {} /\ About(toWorld[y], c) = {}
                          /\ players[y][c] = None
  BY <1>0 DEF Fresh, Silent, SilentBut, OnlyIn
<1>6. /\ \A y \in Zones \ {home} : toZone'[y] = toZone[y]
      /\ About(toZone'[home], c) \subseteq {prepare}
      /\ Once(toZone'[home], c)
  BY <1>1, <1>3, <1>4, <1>5, SentAbout
<1>7. Preparing(c, home)'
  BY <1>1, <1>4, <1>5, <1>6 DEF Preparing, SilentBut
<1>8. OnlyIn(c, {home})' /\ home = db'[c].zone /\ client'[k].phase = "selecting"
  BY <1>0, <1>4, <1>5 DEF OnlyIn
<1> QED
  BY <1>0, <1>4, <1>5, <1>7, <1>8 DEF Visit, VisitOf

\* What the client does then.
LEMMA VisitClientActs ==
    ASSUME TypeOK, NEW k \in Clients, ClientActs(k), ~ SelectCharacter(k), timeouts' = 0, Visit(k)
    PROVE  Visit(k)'
<1>0. PICK c, z : c = Plays[k] /\ z = client[k].zone
  OBVIOUS
<1>1. /\ c \in Characters
      /\ client[k].phase \in {"offered", "in", "crossing"} => z \in Zones
      /\ client \in [Clients -> ClientState] /\ client[k] \in ClientState
      /\ players \in [Zones -> [Characters -> {None} \cup PlayerEntity]]
  BY <1>0, ClientTyped DEF TypeOK
<1>2. toZone' = toZone /\ pendingZoneTransfers' = pendingZoneTransfers
  BY DEF ClientActs, SelectCharacter, SessionResume, Play, UsePortal, Stuck, Quit, StopWaiting,
         links, world
<1>3. ZonesQuieter(c) /\ (toWorld' = toWorld => WorldQuieter(c))
  BY <1>2, SameQuieter
<1>4. CASE SessionResume(k)
  <2>1. Silent(c) /\ OnlyIn(c, {z}) /\ z \in Zones
    BY <1>0, <1>1, <1>4 DEF SessionResume, Visit, VisitOf
  <2>2. Silent(c)'
    BY <1>3, <1>4, <2>1, StagesKept DEF SessionResume, links
  <2>3. CASE /\ players[z][c] # None
             /\ players' = [players EXCEPT ![z][c] = [@ EXCEPT !.connection = k, !.token = client[k].token]]
             /\ client' = [client EXCEPT ![k].phase = "in"]
             /\ hangups' = hangups \ {<<z, k>>}
    <3>1. client'[k].phase = "in" /\ client'[k].zone = z
      BY <1>0, <1>1, <2>3 DEF ClientState
    <3>2. players[z][c] \in PlayerEntity
      BY <1>1, <2>1, <2>3
    <3>3. players'[z][c].connection = k /\ players'[z][c] \in PlayerEntity
      <4>1. k \in Clients \cup {None} /\ client[k].token \in Tokens \cup {None}
        BY ClientTyped
      <4> QED
        BY <1>1, <2>1, <2>3, <3>2, <4>1 DEF PlayerEntity
    <3>4. players'[z][c] # None
      BY <3>3, NoneAssumption
    <3>5. OnlyIn(c, {z})'
      BY <1>1, <2>1, <2>3 DEF OnlyIn
    <3>6. Bound(k, z)' /\ <<z, k>> \notin hangups'
      BY <1>0, <2>3, <3>3, <3>4 DEF Bound
    <3> QED
      BY <1>0, <2>2, <3>1, <3>5, <3>6 DEF Visit, VisitOf, Bound
  <2>4. CASE client' = [client EXCEPT ![k] = [Out(k) EXCEPT !.phase = "refused"]]
    <3>1. client'[k].phase = "refused"
      BY <1>1, <2>4, OutTyped
    <3> QED
      BY <3>1 DEF Visit, VisitOf
  <2> QED
    BY <1>0, <1>4, <2>3, <2>4 DEF SessionResume
<1>5. CASE Play(k)
  <2>1. z \in Zones /\ Bound(k, z) /\ client' = client /\ toWorld' = toWorld /\ hangups' = hangups
        /\ client[k].phase = "in"
    BY <1>0, <1>1, <1>5 DEF Play, links
  <2>2. players' = [players EXCEPT ![z][c].state = @ + 1]
    BY <1>0, <1>5 DEF Play
  <2>3. \A y \in Zones : players[y][c] = None => players'[y][c] = None
    BY <1>0, <1>1, <2>1, <2>2 DEF Bound
  <2>4. Bound(k, z)'
    <3> DEFINE e == [players[z][c] EXCEPT !.state = @ + 1]
    <3>1. players[z][c] \in PlayerEntity /\ players[z][c].connection = k
      BY <1>0, <1>1, <2>1 DEF Bound
    <3>2. players[z][c].state + 1 \in 0 .. MaxState
      BY <1>0, <1>5, <3>1, BoundsAssumption DEF Play, PlayerEntity
    <3>3. e \in PlayerEntity /\ e.connection = k
      BY <3>1, <3>2 DEF PlayerEntity
    <3>4. players'[z][c] = e
      BY <1>1, <2>1, <2>2
    <3> QED
      BY <1>0, <3>3, <3>4, NoneAssumption DEF Bound
  <2>5. Bound(k, client[k].zone)'
    BY <1>0, <2>1, <2>4
  <2> QED
    BY <1>0, <1>2, <1>3, <2>1, <2>3, <2>5, VisitFrame
<1>6. ASSUME NEW dest \in Zones, UsePortal(k, dest) PROVE Visit(k)'
  <2> DEFINE ask == [kind |-> "ZoneTransferRequest", character |-> c, dest |-> dest,
                     token |-> players[z][c].token]
  <2>1. /\ z \in Zones /\ Bound(k, z) /\ dest # z /\ players' = players /\ hangups' = hangups
        /\ client[k].phase = "in" /\ Reply(z, ask)
        /\ client' = [client EXCEPT ![k].phase = "crossing"]
    BY <1>0, <1>1, <1>6 DEF UsePortal
  <2>2. Silent(c) /\ OnlyIn(c, {z}) /\ <<z, k>> \notin hangups
    BY <1>0, <2>1 DEF Visit, VisitOf
  <2>3. client'[k].phase = "crossing" /\ client'[k].zone = z
    BY <1>0, <1>1, <2>1 DEF ClientState
  <2>4. ask \in ToWorld
    BY <1>0, <1>1, <2>1, EntityTyped, PacketsTyped DEF Bound
  <2>5. \A y \in Zones : About(toZone[y], c) = {} /\ About(toWorld[y], c) = {}
    BY <2>2 DEF Silent, SilentBut
  <2>6. /\ \A y \in Zones \ {z} : toWorld'[y] = toWorld[y]
        /\ About(toWorld'[z], c) \subseteq {ask}
        /\ Once(toWorld'[z], c)
    BY <2>1, <2>4, <2>5, RepliedAbout
  <2>7. Asking(c, z)'
    BY <1>2, <2>1, <2>5, <2>6 DEF Asking, SilentBut
  <2>8. Bound(k, z)' /\ OnlyIn(c, {z})'
    BY <2>1, <2>2 DEF Bound, OnlyIn
  <2>9. Crossing(k, c, z)'
    BY <2>7, <2>8 DEF Crossing
  <2> QED
    BY <1>0, <2>1, <2>2, <2>3, <2>9 DEF Visit, VisitOf
<1>7. CASE Stuck(k)
  <2>1. /\ client' = client /\ toWorld' = toWorld /\ hangups' = hangups /\ players' = players
        /\ client[k].phase = "in"
    BY <1>7 DEF Stuck, links
  <2> QED
    BY <1>0, <1>2, <1>3, <2>1, VisitFrame DEF Bound
<1>8. CASE Quit(k)
  <2>1. client' = [client EXCEPT ![k] = Out(k)]
    BY <1>8 DEF Quit
  <2>2. client'[k].phase = "out"
    BY <1>1, <2>1, OutTyped
  <2> QED
    BY <2>2 DEF Visit, VisitOf
<1>9. ~ StopWaiting(k)
  BY BoundsAssumption DEF StopWaiting, TypeOK
<1> QED
  BY <1>4, <1>5, <1>6, <1>7, <1>8, <1>9 DEF ClientActs

\* The destination gets ready, packet by packet.
LEMMA PrepareZoneRead ==
    ASSUME TypeOK, NEW z \in Zones, ZoneReads(z), NEW c \in Characters,
           Head(toZone[z]).character = c, NEW d \in Zones, Preparing(c, d)
    PROVE  /\ z = d
           /\ Preparing(c, d)'
           /\ \A y \in Zones \ {d} : players'[y][c] = players[y][c]
           /\ UNCHANGED <<db, pendingZoneTransfers, client, hangups>>
<1> DEFINE packet == Head(toZone[z])
<1>1. packet \in About(toZone[z], c)
  BY HeardOf
<1>2. z = d
  BY <1>1 DEF Preparing, SilentBut
<1>3. /\ SilentBut(c, {d}) /\ About(toWorld[d], c) = {} /\ Once(toZone[d], c)
      /\ packet.kind \in {"PlayerEnterPrepare", "LoadCharacterResponse"}
  BY <1>1, <1>2 DEF Preparing
<1>4. PlayerEnterPrepare(d) \/ LoadCharacterResponse(d)
  BY <1>2, <1>3 DEF ZoneReads, ZoneTransferAuthorize, ZoneConnectForward, Arrives
<1>5. \A y \in Zones : About(toZone'[y], c) = {}
  BY <1>2, <1>3, ZoneReadAbout DEF SilentBut
<1>6. PICK answer \in ToWorld :
          Reply(d, answer) /\ answer.kind \in {"LoadCharacterRequest", "PlayerEnterReady"}
  <2>1. CASE PlayerEnterPrepare(d)
    <3>1. Reply(d, [kind |-> "LoadCharacterRequest", character |-> c])
      BY <1>2, <2>1 DEF PlayerEnterPrepare, AskForCharacter
    <3> QED
      BY <3>1, PacketsTyped
  <2>2. CASE LoadCharacterResponse(d)
    <3>1. Reply(d, [kind |-> "PlayerEnterReady", character |-> c])
      BY <1>2, <2>2 DEF LoadCharacterResponse
    <3> QED
      BY <3>1, PacketsTyped
  <2> QED
    BY <1>4, <2>1, <2>2
<1>7. /\ \A y \in Zones \ {d} : toWorld'[y] = toWorld[y]
      /\ About(toWorld'[d], c) \subseteq {answer}
      /\ Once(toWorld'[d], c)
  BY <1>3, <1>6, RepliedAbout
<1>8. Preparing(c, d)'
  BY <1>3, <1>5, <1>6, <1>7 DEF Preparing, SilentBut
<1>9. \A y \in Zones \ {d} : players'[y][c] = players[y][c]
  <2>1. \A y \in Zones \ {d} : players'[y] = players[y]
    BY <1>4 DEF PlayerEnterPrepare, LoadCharacterResponse, TypeOK
  <2> QED
    BY <2>1
<1>10. UNCHANGED <<db, pendingZoneTransfers, client, hangups>>
  BY <1>4 DEF PlayerEnterPrepare, LoadCharacterResponse, world
<1> QED
  BY <1>2, <1>8, <1>9, <1>10

\* And WorldLogin with it.
LEMMA PrepareWorldRead ==
    ASSUME TypeOK, NEW z \in Zones, WorldReads(z), NEW c \in Characters,
           Head(toWorld[z]).character = c, NEW d \in Zones, Preparing(c, d)
    PROVE  /\ z = d
           /\ \/ LoadCharacterRequest(z) /\ Preparing(c, d)'
              \/ ReadyToCross(z) \/ ReadyToEnter(z)
           /\ \A y \in Zones : About(toZone[y], c) = {} /\ About(toWorld'[y], c) = {}
<1> DEFINE packet == Head(toWorld[z])
<1>1. packet \in About(toWorld[z], c)
  BY HeardOf
<1>2. z = d
  BY <1>1 DEF Preparing, SilentBut
<1>3. /\ SilentBut(c, {d}) /\ About(toZone[d], c) = {} /\ Once(toWorld[d], c)
      /\ packet.kind \in {"LoadCharacterRequest", "PlayerEnterReady"}
  BY <1>1, <1>2 DEF Preparing
<1>4. \A y \in Zones : About(toZone[y], c) = {} /\ About(toWorld'[y], c) = {}
  BY <1>2, <1>3, WorldReadAbout DEF SilentBut
<1>5. LoadCharacterRequest(z) \/ ReadyToCross(z) \/ ReadyToEnter(z)
  BY <1>3 DEF WorldReads, ZoneTransferRequest, Read, Arrives
<1>6. CASE LoadCharacterRequest(z)
  <2> DEFINE answer == [kind |-> "LoadCharacterResponse", character |-> c, state |-> db[c].state]
  <2>1. answer \in ToZone /\ SendToZone(d, answer)
    BY <1>2, <1>6, RowTyped, PacketsTyped DEF LoadCharacterRequest
  <2>2. /\ \A y \in Zones \ {d} : toZone'[y] = toZone[y]
        /\ About(toZone'[d], c) \subseteq {answer}
        /\ Once(toZone'[d], c)
    BY <1>4, <2>1, SentAbout
  <2>3. Preparing(c, d)'
    BY <1>4, <2>2 DEF Preparing, SilentBut
  <2> QED
    BY <1>2, <1>4, <1>6, <2>3
<1> QED
  BY <1>2, <1>4, <1>5, <1>6

\* Only one client has anything to do with the character.
SoleClient(k) == \A j \in Clients : Plays[j] = Plays[k] /\ logins[j] > 0 => j = k

\* An old connection ends.
LEMMA VisitHangup ==
    ASSUME TypeOK, OwnNames, NEW z \in Zones, NEW j \in Clients, Hangup(z, j),
           NEW k \in Clients, SoleClient(k), OneBinding(k), Visit(k)
    PROVE  Visit(k)'
<1>0. PICK c : c = Plays[k]
  OBVIOUS
<1>1. c \in Characters /\ j # None
  BY <1>0, ClientTyped, WorldAssumption
<1>2. CASE Plays[j] # c \/ ~ Bound(j, z)
  BY <1>0, <1>1, <1>2, HangupUntouched, UntouchedVisit
<1>3. CASE Plays[j] = c /\ Bound(j, z)
  <2>1. j = k
    BY <1>0, <1>1, <1>3 DEF Bound, OwnNames, SoleClient
  <2>2. client[k].phase \notin {"selecting", "offered"}
    BY <1>3, <2>1 DEF OneBinding
  <2>3. client[k].phase \notin {"in", "crossing"}
    BY <1>3, <2>1 DEF OneBinding, Visit, VisitOf, Hangup
  <2>4. client' = client
    BY DEF Hangup
  <2> QED
    BY <2>2, <2>3, <2>4 DEF Visit, VisitOf
<1> QED
  BY <1>2, <1>3

\* The order to send a client on is at the head of its queue.
LEMMA LetGoAtHead ==
    ASSUME TypeOK, LetGoFirst, NEW z \in Zones, ZoneReads(z),
           Head(toZone[z]).kind = "ZoneConnectForward", Head(toZone[z]).ok
    PROVE  players[z][Head(toZone[z]).character] = None
<1>1. toZone[z] \in Seq(ToZone) /\ toZone[z] # <<>>
  BY DEF TypeOK, ZoneReads, PlayerEnterPrepare, LoadCharacterResponse, ZoneTransferAuthorize,
         ZoneConnectForward, Arrives
<1>2. 1 \in DOMAIN toZone[z] /\ toZone[z][1] = Head(toZone[z])
  BY <1>1, ReadQueue
<1> QED
  BY <1>2 DEF LetGoFirst, LetGo

\* A zone sends a client on, if that still waits.
LEMMA ForwardHeard ==
    ASSUME TypeOK, OwnNames, NEW z \in Zones, ZoneConnectForward(z), NEW k \in Clients,
           SoleClient(k), Head(toZone[z]).character = Plays[k]
    PROVE  \/ client' = client /\ hangups' = hangups
           \/ /\ client[k].phase = "crossing" /\ client[k].zone = z
              /\ IF Head(toZone[z]).ok
                 THEN client'[k] = [client[k] EXCEPT !.phase = "offered",
                                                     !.zone = Head(toZone[z]).dest]
                 ELSE client'[k] = [client[k] EXCEPT !.phase = "in"] /\ hangups' = hangups
<1> DEFINE c == Plays[k]
           j == pendingTransfers[z][c]
<1>1. c \in Characters /\ client \in [Clients -> ClientState]
  BY ClientTyped DEF TypeOK
<1>2. CASE j # None /\ client[j].phase = "crossing" /\ client[j].zone = z
  <2>1. j \in Clients /\ Plays[j] = c
    BY <1>1, <1>2 DEF TypeOK, OwnNames
  <2>2. logins[j] > 0
    BY <1>2, <2>1, BoundsAssumption DEF OwnNames, TypeOK
  <2>3. j = k
    BY <2>1, <2>2 DEF SoleClient
  <2>4. CASE Head(toZone[z]).ok
    <3>1. client' = [client EXCEPT ![j] = [@ EXCEPT !.phase = "offered",
                                                   !.zone = Head(toZone[z]).dest]]
      BY <1>2, <2>4 DEF ZoneConnectForward
    <3> QED
      BY <1>1, <1>2, <2>3, <2>4, <3>1
  <2>5. CASE ~ Head(toZone[z]).ok
    <3>1. client' = [client EXCEPT ![j] = [@ EXCEPT !.phase = "in"]] /\ hangups' = hangups
      BY <1>2, <2>5 DEF ZoneConnectForward
    <3> QED
      BY <1>1, <1>2, <2>3, <2>5, <3>1
  <2> QED
    BY <2>4, <2>5
<1>3. CASE ~ (j # None /\ client[j].phase = "crossing" /\ client[j].zone = z)
  BY <1>3 DEF ZoneConnectForward
<1> QED
  BY <1>2, <1>3

\* What the zones read in the course of the visit.
LEMMA VisitZoneReads ==
    ASSUME TypeOK, OwnNames, LetGoFirst, NEW z \in Zones, ZoneReads(z),
           NEW k \in Clients, SoleClient(k), Visit(k)
    PROVE  Visit(k)'
<1>0. PICK c, s, packet : c = Plays[k] /\ s = client[k].zone /\ packet = Head(toZone[z])
  OBVIOUS
<1>1. /\ c \in Characters /\ client[k] \in ClientState
      /\ client[k].phase \in {"offered", "in", "crossing"} => s \in Zones
  BY <1>0, ClientTyped
<1>2. CASE packet.character # c
  BY <1>0, <1>1, <1>2, ZoneReadsUntouched, UntouchedVisit
<1>3. CASE packet.character = c
  <2>0. packet \in About(toZone[z], c)
    BY <1>0, <1>3, HeardOf
  <2>1. CASE client[k].phase = "selecting"
    <3>1. PICK home : home = db[c].zone
      OBVIOUS
    <3>2. home \in Zones
      BY <1>1, <3>1, RowTyped
    <3>3. pendingZoneTransfers[c] = None /\ Preparing(c, home) /\ OnlyIn(c, {home})
      BY <1>0, <2>1, <3>1 DEF Visit, VisitOf
    <3>4. /\ Preparing(c, home)'
          /\ \A y \in Zones \ {home} : players'[y][c] = players[y][c]
          /\ UNCHANGED <<db, pendingZoneTransfers, client, hangups>>
      BY <1>0, <1>1, <1>3, <3>2, <3>3, PrepareZoneRead
    <3>5. OnlyIn(c, {home})'
      BY <3>3, <3>4 DEF OnlyIn
    <3> QED
      BY <1>0, <2>1, <3>1, <3>3, <3>4, <3>5 DEF Visit, VisitOf
  <2>2. CASE client[k].phase \in {"offered", "in"}
    BY <1>0, <1>3, <2>2, NotSilent DEF Visit, VisitOf
  <2>3. CASE client[k].phase = "crossing"
    <3>0. Crossing(k, c, s) /\ <<s, k>> \notin hangups /\ s \in Zones
      BY <1>0, <1>1, <2>3 DEF Visit, VisitOf
    <3>1. CASE Bound(k, s) /\ OnlyIn(c, {s}) /\ (Asking(c, s) \/ Refusing(c, s))
      <4>1. Refusing(c, s) /\ z = s
        BY <2>0, <3>1 DEF Asking, Refusing, SilentBut
      <4>2. packet.kind = "ZoneConnectForward" /\ ~ packet.ok /\ Once(toZone[s], c)
        BY <2>0, <4>1 DEF Refusing
      <4>3. ZoneConnectForward(s)
        BY <1>0, <4>1, <4>2 DEF ZoneReads, PlayerEnterPrepare, LoadCharacterResponse,
                                ZoneTransferAuthorize, Arrives
      <4>4. players' = players /\ toWorld' = toWorld
        BY <4>3 DEF ZoneConnectForward
      <4>5. \A y \in Zones : About(toZone'[y], c) = {} /\ About(toWorld'[y], c) = {}
        BY <1>0, <1>3, <4>1, <4>2, <4>4, ZoneReadAbout DEF Refusing, SilentBut
      <4>6. Silent(c)' /\ Bound(k, s)' /\ OnlyIn(c, {s})'
        BY <3>1, <4>4, <4>5 DEF Silent, SilentBut, Bound, OnlyIn
      <4>7. Refusing(c, s)'
        <5>1. Once(toZone'[s], c)
          BY <3>0, <4>5, NothingAbout, ZoneReadsTyped DEF ZoneReads, TypeOK
        <5> QED
          BY <3>0, <4>5, <5>1 DEF Refusing, SilentBut
      <4>8. Crossing(k, c, s)'
        BY <4>6, <4>7 DEF Crossing
      <4>9. CASE client' = client /\ hangups' = hangups
        BY <1>0, <2>3, <3>0, <4>8, <4>9 DEF Visit, VisitOf
      <4>10. CASE client'[k] = [client[k] EXCEPT !.phase = "in"] /\ hangups' = hangups
        <5>1. client'[k].phase = "in" /\ client'[k].zone = s
          BY <1>0, <1>1, <4>10 DEF ClientState
        <5> QED
          BY <1>0, <3>0, <4>6, <4>10, <5>1 DEF Visit, VisitOf
      <4>11. /\ ZoneConnectForward(z) /\ Head(toZone[z]).character = Plays[k]
             /\ ~ Head(toZone[z]).ok
        BY <1>0, <1>3, <4>1, <4>2, <4>3
      <4>12. \/ client' = client /\ hangups' = hangups
             \/ client'[k] = [client[k] EXCEPT !.phase = "in"] /\ hangups' = hangups
        BY <4>11, ForwardHeard
      <4> QED
        BY <4>9, <4>10, <4>12
    <3>2. ASSUME NEW d \in Zones \ {s}, OnlyIn(c, {s, d}), Bound(k, s), Preparing(c, d),
                 pendingZoneTransfers[c] = [source |-> s, dest |-> d]
          PROVE  Visit(k)'
      <4>1. /\ Preparing(c, d)'
            /\ \A y \in Zones \ {d} : players'[y][c] = players[y][c]
            /\ UNCHANGED <<db, pendingZoneTransfers, client, hangups>>
        BY <1>0, <1>1, <1>3, <3>2, PrepareZoneRead
      <4>2. Bound(k, s)' /\ OnlyIn(c, {s, d})'
        BY <1>0, <3>0, <3>2, <4>1 DEF Bound, OnlyIn
      <4>3. pendingZoneTransfers'[c] = [source |-> s, dest |-> d]
        BY <3>2, <4>1
      <4>4. Crossing(k, c, s)'
        BY <3>2, <4>1, <4>2, <4>3 DEF Crossing
      <4> QED
        BY <1>0, <2>3, <3>0, <4>1, <4>4 DEF Visit, VisitOf
    <3>3. ASSUME NEW d \in Zones \ {s}, OnlyIn(c, {s, d}), Releasing(c, s, d)
          PROVE  Visit(k)'
      <4>1. z = s /\ packet \in {Release(c), Forward(c, d)} /\ InOrder(toZone[s], c)
        BY <2>0, <3>3 DEF Releasing, SilentBut
      <4>2. ZonesQuieter(c) /\ \A y \in Zones \ {s} : toZone'[y] = toZone[y]
        BY <1>0, <1>3, <4>1, ZoneReadAbout
      <4>3. CASE packet = Release(c)
        <5>0. packet.kind = "ZoneTransferAuthorize"
          BY <4>3 DEF Release
        <5>1. ZoneTransferAuthorize(s)
          BY <1>0, <4>1, <5>0 DEF ZoneReads, PlayerEnterPrepare, LoadCharacterResponse,
                                  ZoneConnectForward, Arrives
        <5>2. UNCHANGED <<toWorld, client, hangups>> /\ players' = [players EXCEPT ![s][c] = None]
          BY <1>0, <1>3, <4>1, <5>1 DEF ZoneTransferAuthorize
        <5>3. Releasing(c, s, d)'
          BY <3>0, <3>3, <4>2, <5>2, SameQuieter, StagesKept
        <5>4. OnlyIn(c, {s, d})'
          BY <1>1, <3>0, <3>3, <5>2 DEF OnlyIn, TypeOK
        <5>5. Crossing(k, c, s)'
          BY <3>3, <5>3, <5>4 DEF Crossing
        <5> QED
          BY <1>0, <2>3, <3>0, <5>2, <5>5 DEF Visit, VisitOf
      <4>4. CASE packet = Forward(c, d)
        <5>1. packet.kind = "ZoneConnectForward" /\ packet.ok /\ packet.dest = d
          BY <3>3, <4>4, WorldAssumption DEF Forward
        <5>2. ZoneConnectForward(s)
          BY <1>0, <4>1, <5>1 DEF ZoneReads, PlayerEnterPrepare, LoadCharacterResponse,
                                  ZoneTransferAuthorize, Arrives
        <5>3. players[s][c] = None
          BY <1>0, <1>3, <4>1, <5>1, LetGoAtHead
        <5>4. players' = players /\ toWorld' = toWorld
          BY <5>2 DEF ZoneConnectForward
        <5>5. About(toZone'[s], c) = {}
          BY <1>0, <1>3, <4>1, <5>1, ZoneReadAbout
        <5>6. \A y \in Zones : About(toZone'[y], c) = {} /\ About(toWorld'[y], c) = {}
          BY <3>3, <4>2, <5>4, <5>5 DEF Releasing, SilentBut
        <5>7. Silent(c)' /\ OnlyIn(c, {d})' /\ OnlyIn(c, {s, d})'
          BY <3>3, <5>3, <5>4, <5>6 DEF Silent, SilentBut, OnlyIn
        <5>8. Releasing(c, s, d)'
          BY <3>0, <3>3, <4>2, <5>4, SameQuieter, StagesKept
        <5>9. Crossing(k, c, s)'
          BY <3>3, <5>7, <5>8 DEF Crossing
        <5>10. CASE client' = client /\ hangups' = hangups
          BY <1>0, <2>3, <3>0, <5>9, <5>10 DEF Visit, VisitOf
        <5>11. CASE client'[k] = [client[k] EXCEPT !.phase = "offered", !.zone = d]
          <6>1. client'[k].phase = "offered" /\ client'[k].zone = d
            BY <1>1, <5>11 DEF ClientState
          <6> QED
            BY <1>0, <5>7, <6>1 DEF Visit, VisitOf
        <5>12. /\ ZoneConnectForward(z) /\ Head(toZone[z]).character = Plays[k]
               /\ Head(toZone[z]).ok /\ Head(toZone[z]).dest = d
          BY <1>0, <1>3, <4>1, <5>1, <5>2
        <5>13. \/ client' = client /\ hangups' = hangups
               \/ client'[k] = [client[k] EXCEPT !.phase = "offered", !.zone = d]
          BY <5>12, ForwardHeard
        <5> QED
          BY <5>10, <5>11, <5>13
      <4> QED
        BY <4>1, <4>3, <4>4
    <3> QED
      BY <3>0, <3>1, <3>2, <3>3 DEF Crossing
  <2>4. CASE client[k].phase \in {"out", "refused"}
    <3>1. client'[k].phase \in {"out", "refused"}
      <4>1. CASE ZoneConnectForward(z)
        <5>1. Head(toZone[z]).character = Plays[k] /\ client[k].phase # "crossing"
          BY <1>0, <1>3, <2>4
        <5>2. client' = client
          BY <4>1, <5>1, ForwardHeard
        <5> QED
          BY <2>4, <5>2
      <4>2. CASE ~ ZoneConnectForward(z)
        BY <2>4, <4>2 DEF ZoneReads, PlayerEnterPrepare, LoadCharacterResponse,
                          ZoneTransferAuthorize
      <4> QED
        BY <4>1, <4>2
    <3> QED
      BY <3>1 DEF Visit, VisitOf
  <2> QED
    BY <2>1, <2>2, <2>3, <2>4, ClientTyped DEF Phases
<1> QED
  BY <1>2, <1>3

\* WorldLogin answers a login, if its client still waits.
LEMMA EnterHeard ==
    ASSUME TypeOK, OwnNames, NEW z \in Zones, ReadyToEnter(z), NEW k \in Clients,
           SoleClient(k), Head(toWorld[z]).character = Plays[k]
    PROVE  \/ client'[k] = client[k]
           \/ /\ client[k].phase = "selecting"
              /\ \/ client'[k] = [client[k] EXCEPT !.phase = "offered", !.zone = db[Plays[k]].zone]
                 \/ client'[k] = Out(k)
<1> DEFINE c == Plays[k]
           j == pendingHandoffs[c].client
<1>1. c \in Characters /\ client \in [Clients -> ClientState]
  BY ClientTyped DEF TypeOK
<1>2. CASE pendingHandoffs[c] # None /\ client[j].phase = "selecting"
           /\ client[j].token = pendingHandoffs[c].token
  <2>1. j \in Clients /\ Plays[j] = c
    BY <1>1, <1>2 DEF TypeOK, OwnNames
  <2>2. logins[j] > 0
    BY <1>2, <2>1, BoundsAssumption DEF OwnNames, TypeOK
  <2>3. j = k
    BY <2>1, <2>2 DEF SoleClient
  <2>4. client' = [client EXCEPT ![j] =
                       IF db[c].zone \in zones
                       THEN [@ EXCEPT !.phase = "offered", !.zone = db[c].zone]
                       ELSE Out(j)]
    <3>1. PICK b : b = Head(toWorld[z]).character
      OBVIOUS
    <3>2. pendingHandoffs[b] # None /\ client[pendingHandoffs[b].client].phase = "selecting"
          /\ client[pendingHandoffs[b].client].token = pendingHandoffs[b].token
      BY <1>2, <3>1
    <3>3. client' = [client EXCEPT ![pendingHandoffs[b].client] =
                         IF db[b].zone \in zones
                         THEN [@ EXCEPT !.phase = "offered", !.zone = db[b].zone]
                         ELSE Out(pendingHandoffs[b].client)]
      BY <3>1, <3>2 DEF ReadyToEnter
    <3> QED
      BY <3>1, <3>3
  <2>5. client'[k] = IF db[c].zone \in zones
                     THEN [client[k] EXCEPT !.phase = "offered", !.zone = db[c].zone]
                     ELSE Out(k)
    BY <1>1, <2>3, <2>4
  <2> QED
    BY <1>2, <2>3, <2>5
<1>3. CASE ~ (pendingHandoffs[c] # None /\ client[j].phase = "selecting"
              /\ client[j].token = pendingHandoffs[c].token)
  BY <1>3 DEF ReadyToEnter
<1> QED
  BY <1>2, <1>3

\* What WorldLogin reads in the course of the visit.
LEMMA VisitWorldReads ==
    ASSUME TypeOK, OwnNames, NEW z \in Zones, WorldReads(z),
           NEW k \in Clients, SoleClient(k), Visit(k)
    PROVE  Visit(k)'
<1>0. PICK c, s, packet : c = Plays[k] /\ s = client[k].zone /\ packet = Head(toWorld[z])
  OBVIOUS
<1>1. /\ c \in Characters /\ client[k] \in ClientState
      /\ client[k].phase \in {"offered", "in", "crossing"} => s \in Zones
  BY <1>0, ClientTyped
<1>2. CASE packet.character # c
  BY <1>0, <1>1, <1>2, WorldReadsUntouched, UntouchedVisit
<1>3. CASE packet.character = c
  <2>0. /\ packet \in About(toWorld[z], c)
        /\ players' = players /\ hangups' = hangups
        /\ client'[k] = client[k] \/ ReadyToEnter(z)
    BY <1>0, <1>3, HeardOf DEF WorldReads, LoadCharacterRequest, ZoneTransferRequest,
                               ReadyToCross, ReadyToEnter, zone
  <2>1. CASE client[k].phase = "selecting"
    <3>1. PICK home : home = db[c].zone
      OBVIOUS
    <3>2. home \in Zones
      BY <1>1, <3>1, RowTyped
    <3>3. pendingZoneTransfers[c] = None /\ Preparing(c, home) /\ OnlyIn(c, {home})
      BY <1>0, <2>1, <3>1 DEF Visit, VisitOf
    <3>4. OnlyIn(c, {home})'
      BY <2>0, <3>3 DEF OnlyIn
    <3>5. /\ z = home
          /\ (LoadCharacterRequest(z) /\ Preparing(c, home)') \/ ReadyToCross(z) \/ ReadyToEnter(z)
          /\ \A y \in Zones : About(toZone[y], c) = {} /\ About(toWorld'[y], c) = {}
      BY <1>0, <1>1, <1>3, <3>2, <3>3, PrepareWorldRead
    <3>6. CASE LoadCharacterRequest(z) /\ Preparing(c, home)'
      <4>1. UNCHANGED <<db, pendingZoneTransfers, client>>
        BY <3>6 DEF LoadCharacterRequest, world
      <4> QED
        BY <1>0, <2>1, <3>1, <3>3, <3>4, <3>6, <4>1 DEF Visit, VisitOf
    <3>7. ~ ReadyToCross(z)
      BY <1>0, <1>3, <3>3 DEF ReadyToCross
    <3>8. CASE ReadyToEnter(z)
      <4>1. UNCHANGED <<db, pendingZoneTransfers, toZone>>
        BY <3>8 DEF ReadyToEnter
      <4>2. Silent(c)'
        BY <3>5, <4>1 DEF Silent, SilentBut
      <4>3. Preparing(c, home)'
        <5>1. toZone[home] \in Seq(ToZone)
          BY <3>2 DEF TypeOK
        <5>2. Once(toZone[home], c)
          BY <3>2, <3>5, <5>1, NothingAbout
        <5> QED
          BY <3>2, <3>5, <4>1, <5>2 DEF Preparing, SilentBut
      <4>4. CASE client'[k] = client[k]
        BY <1>0, <2>1, <3>1, <3>3, <3>4, <4>1, <4>3, <4>4 DEF Visit, VisitOf
      <4>5. CASE client'[k] = [client[k] EXCEPT !.phase = "offered", !.zone = home]
        <5>1. client'[k].phase = "offered" /\ client'[k].zone = home
          BY <1>1, <4>5 DEF ClientState
        <5> QED
          BY <1>0, <3>4, <4>2, <5>1 DEF Visit, VisitOf
      <4>6. CASE client'[k] = Out(k)
        BY <4>6, OutTyped DEF Visit, VisitOf
      <4>7. Head(toWorld[z]).character = Plays[k] /\ home = db[Plays[k]].zone
        BY <1>0, <1>3, <3>1
      <4> QED
        BY <3>8, <4>4, <4>5, <4>6, <4>7, EnterHeard
    <3> QED
      BY <3>5, <3>6, <3>7, <3>8
  <2>2. CASE client[k].phase \in {"offered", "in"}
    BY <1>0, <1>3, <2>2, NotSilent DEF Visit, VisitOf
  <2>3. CASE client[k].phase = "crossing"
    <3>0. Crossing(k, c, s) /\ <<s, k>> \notin hangups /\ s \in Zones
      BY <1>0, <1>1, <2>3 DEF Visit, VisitOf
    <3>1. client'[k] = client[k]
      <4>1. CASE ReadyToEnter(z)
        <5>1. Head(toWorld[z]).character = Plays[k] /\ client[k].phase # "selecting"
          BY <1>0, <1>3, <2>3
        <5> QED
          BY <4>1, <5>1, EnterHeard
      <4> QED
        BY <2>0, <4>1
    <3>2. SUFFICES Crossing(k, c, s)'
      BY <1>0, <2>0, <2>3, <3>0, <3>1 DEF Visit, VisitOf
    <3>3. CASE Bound(k, s) /\ OnlyIn(c, {s}) /\ (Asking(c, s) \/ Refusing(c, s))
      <4>1. Asking(c, s) /\ z = s
        BY <2>0, <3>3 DEF Asking, Refusing, SilentBut
      <4>2. packet.kind = "ZoneTransferRequest" /\ packet.dest # s /\ Once(toWorld[s], c)
        BY <2>0, <4>1 DEF Asking
      <4>3. ZoneTransferRequest(s) /\ toWorld[s] # <<>>
        <5>1. ZoneTransferRequest(s)
          BY <1>0, <4>1, <4>2 DEF WorldReads, LoadCharacterRequest, ReadyToCross, ReadyToEnter,
                                  Read, Arrives
        <5> QED
          BY <5>1 DEF ZoneTransferRequest, Read, Arrives
      <4>4. packet.dest \in Zones /\ packet.token \in Tokens \cup {None}
        BY <1>0, <4>1, <4>2, <4>3, WorldPackets
      <4>5. \A y \in Zones : About(toZone[y], c) = {} /\ About(toWorld'[y], c) = {}
        BY <1>0, <1>3, <4>1, <4>2, WorldReadAbout DEF Asking, SilentBut
      <4>6. Bound(k, s)' /\ OnlyIn(c, {s})' /\ OnlyIn(c, {s, packet.dest})'
        BY <2>0, <3>3 DEF Bound, OnlyIn
      <4>7. CASE packet.dest \notin zones
        <5>1. Forward(c, None) \in ToZone /\ SendToZone(s, Forward(c, None))
          BY <1>0, <1>1, <1>3, <4>1, <4>3, <4>7, PacketsTyped DEF ZoneTransferRequest, Refuse
        <5>2. Forward(c, None).kind = "ZoneConnectForward" /\ ~ Forward(c, None).ok
          BY DEF Forward
        <5>3. /\ \A y \in Zones \ {s} : toZone'[y] = toZone[y]
              /\ About(toZone'[s], c) \subseteq {Forward(c, None)}
              /\ Once(toZone'[s], c)
          BY <3>0, <4>5, <5>1, SentAbout
        <5>4. Refusing(c, s)'
          BY <3>0, <4>5, <5>2, <5>3 DEF Refusing, SilentBut
        <5> QED
          BY <4>6, <5>4 DEF Crossing
      <4>8. CASE packet.dest \in zones
        <5>0. PICK d, token : d = packet.dest /\ token = packet.token
          OBVIOUS
        <5> DEFINE prepare == [kind |-> "PlayerEnterPrepare", character |-> c, token |-> token]
        <5>1. prepare \in ToZone /\ SendToZone(d, prepare)
          BY <1>0, <1>1, <1>3, <4>1, <4>3, <4>4, <4>8, <5>0, PacketsTyped DEF ZoneTransferRequest
        <5>2. pendingZoneTransfers' = [pendingZoneTransfers EXCEPT ![c] = [source |-> s, dest |-> d]]
          BY <1>0, <1>3, <4>1, <4>3, <4>8, <5>0 DEF ZoneTransferRequest
        <5>3. pendingZoneTransfers'[c] = [source |-> s, dest |-> d]
          BY <1>1, <5>2 DEF TypeOK
        <5>4. /\ \A y \in Zones \ {d} : toZone'[y] = toZone[y]
              /\ About(toZone'[d], c) \subseteq {prepare}
              /\ Once(toZone'[d], c)
          <6>1. d \in Zones /\ About(toZone[d], c) = {}
            BY <4>4, <4>5, <5>0
          <6> HIDE DEF prepare
          <6> QED
            BY <5>1, <6>1, SentAbout, SMTT(20)
        <5>5. Preparing(c, d)'
          BY <4>4, <4>5, <5>0, <5>4 DEF Preparing, SilentBut
        <5>6. d \in Zones \ {s} /\ OnlyIn(c, {s, d})'
          BY <4>2, <4>4, <4>6, <5>0
        <5> QED
          BY <4>6, <5>3, <5>5, <5>6 DEF Crossing
      <4> QED
        BY <4>7, <4>8
    <3>4. ASSUME NEW d \in Zones \ {s}, OnlyIn(c, {s, d}), Bound(k, s), Preparing(c, d),
                 pendingZoneTransfers[c] = [source |-> s, dest |-> d]
          PROVE  Crossing(k, c, s)'
      <4>1. /\ z = d
            /\ (LoadCharacterRequest(z) /\ Preparing(c, d)') \/ ReadyToCross(z) \/ ReadyToEnter(z)
            /\ \A y \in Zones : About(toZone[y], c) = {} /\ About(toWorld'[y], c) = {}
        BY <1>0, <1>1, <1>3, <3>4, PrepareWorldRead
      <4>2. Bound(k, s)' /\ OnlyIn(c, {s, d})'
        BY <1>0, <2>0, <3>1, <3>4 DEF Bound, OnlyIn
      <4>3. CASE LoadCharacterRequest(z) /\ Preparing(c, d)'
        <5>1. pendingZoneTransfers'[c] = [source |-> s, dest |-> d]
          BY <3>4, <4>3 DEF LoadCharacterRequest, world
        <5> QED
          BY <3>4, <4>2, <4>3, <5>1 DEF Crossing
      <4>4. CASE ReadyToCross(z)
        <5>0. /\ Head(toWorld[z]).character = c
              /\ pendingZoneTransfers[c].source = s /\ pendingZoneTransfers[c].dest = d
          BY <1>0, <1>3, <3>4
        <5>1. toZone' = IF s \notin linked THEN toZone
                        ELSE [toZone EXCEPT ![s] = @ \o <<Release(c), Forward(c, d)>>]
          BY <4>4, <5>0 DEF ReadyToCross, Orders
        <5>2. toZone \in [Zones -> Seq(ToZone)] /\ toZone[s] \in Seq(ToZone)
          BY <3>0 DEF TypeOK
        <5>3. \A y \in Zones \ {s} : toZone'[y] = toZone[y]
          BY <5>1, <5>2
        <5>4. About(toZone'[s], c) \subseteq {Release(c), Forward(c, d)} /\ InOrder(toZone'[s], c)
          <6>1. CASE s \in linked
            <7>1. toZone'[s] = toZone[s] \o <<Release(c), Forward(c, d)>>
              BY <3>0, <5>1, <5>2, <6>1
            <7> QED
              BY <1>1, <3>0, <3>4, <4>1, <5>2, <7>1, SendOrdersAbout
          <6>2. CASE s \notin linked
            BY <3>0, <4>1, <5>1, <5>2, <6>2, NothingAbout
          <6> QED
            BY <6>1, <6>2
        <5>5. Releasing(c, s, d)'
          <6>1. SilentBut(c, {s})'
            BY <4>1, <5>3 DEF SilentBut
          <6>2. About(toWorld'[s], c) = {}
            BY <3>0, <4>1
          <6> QED
            BY <5>4, <6>1, <6>2 DEF Releasing, Release, Forward
        <5> QED
          BY <3>4, <4>2, <5>5 DEF Crossing
      <4>5. ~ ReadyToEnter(z)
        <5>1. [source |-> s, dest |-> d] \in Transfer
          BY <3>0, <3>4 DEF Transfer
        <5> QED
          BY <1>0, <1>3, <3>4, <5>1, NoneAssumption DEF ReadyToEnter
      <4> QED
        BY <4>1, <4>3, <4>4, <4>5
    <3>5. ASSUME NEW d \in Zones \ {s}, OnlyIn(c, {s, d}), Releasing(c, s, d)
          PROVE  Crossing(k, c, s)'
      BY <2>0, <3>5 DEF Releasing, SilentBut
    <3> QED
      BY <3>0, <3>3, <3>4, <3>5 DEF Crossing
  <2>4. CASE client[k].phase \in {"out", "refused"}
    <3>1. client'[k] = client[k]
      <4>1. CASE ReadyToEnter(z)
        <5>1. Head(toWorld[z]).character = Plays[k] /\ client[k].phase # "selecting"
          BY <1>0, <1>3, <2>4
        <5> QED
          BY <4>1, <5>1, EnterHeard
      <4> QED
        BY <2>0, <4>1
    <3> QED
      BY <2>4, <3>1 DEF Visit, VisitOf
  <2> QED
    BY <2>1, <2>2, <2>3, <2>4, ClientTyped DEF Phases
<1> QED
  BY <1>2, <1>3

LEMMA NobodyStoppedBefore ==
    ASSUME TypeOK, [Next]_vars, timeouts' = 0
    PROVE  timeouts = 0
<1>1. timeouts' = timeouts \/ timeouts' = timeouts + 1
  BY DEF Next, vars, counts, ClientActs, SelectCharacter, SessionResume, Play, UsePortal, Stuck,
         Quit, StopWaiting, Hangup, ZoneReads, PlayerEnterPrepare, LoadCharacterResponse,
         ZoneTransferAuthorize, ZoneConnectForward, WorldReads, LoadCharacterRequest,
         ZoneTransferRequest, ReadyToCross, ReadyToEnter, ZoneRegister, ZoneCrash
<1> QED
  BY <1>1, BoundsAssumption DEF TypeOK

LEMMA SoleClientOnceAsked ==
    ASSUME TypeOK, [Next]_vars, NEW k \in Clients, AskedForOnce(Plays[k])', logins[k] > 0
    PROVE  SoleClient(k) /\ ~ \E j \in Clients : Plays[j] = Plays[k] /\ SelectCharacter(j)
<1>1. logins'[k] > 0
  BY LoginsGrow
<1>2. SoleClient(k)
  BY <1>1, LoginsGrow DEF SoleClient, AskedForOnce
<1>3. ASSUME NEW j \in Clients, Plays[j] = Plays[k], SelectCharacter(j) PROVE FALSE
  <2>1. logins'[j] = logins[j] + 1 /\ logins[j] \in Nat
    BY <1>3, LoginsGrow DEF SelectCharacter, TypeOK
  <2>2. j = k /\ logins'[k] = 1
    BY <1>1, <1>3, <2>1 DEF AskedForOnce
  <2> QED
    BY <2>1, <2>2
<1> QED
  BY <1>2, <1>3

LEMMA VisitKept ==
    ASSUME TypeOK, HomeInv, [Next]_vars, timeouts' = 0, NEW k \in Clients, logins[k] > 0,
           AskedForOnce(Plays[k])', Visit(k)
    PROVE  Visit(k)'
<1> DEFINE c == Plays[k]
<1>1. OwnNames /\ LetGoFirst /\ OneBinding(k) /\ c \in Characters
  BY ClientTyped, AskedForOnceBefore DEF HomeInv
<1>2. SoleClient(k) /\ ~ \E j \in Clients : Plays[j] = c /\ SelectCharacter(j)
  BY SoleClientOnceAsked
<1>3. ASSUME NEW j \in Clients, ClientActs(j) PROVE Visit(k)'
  <2>1. CASE j = k
    BY <1>2, <1>3, <2>1, VisitClientActs
  <2>2. CASE Plays[j] # c
    BY <1>1, <1>3, <2>2, ClientActsUntouched, UntouchedVisit
  <2>3. CASE j # k /\ Plays[j] = c
    <3>1. logins[j] = 0
      BY <1>2, <2>3, LoginsGrow DEF SoleClient
    <3>2. client[j].phase = "out"
      BY <1>1, <3>1 DEF OwnNames
    <3>3. SelectCharacter(j)
      BY <1>3, <3>2 DEF ClientActs, SessionResume, Play, UsePortal, Stuck, Quit, StopWaiting
    <3> QED
      BY <1>2, <2>3, <3>3
  <2> QED
    BY <2>1, <2>2, <2>3
<1>4. ASSUME NEW z \in Zones, NEW j \in Clients, Hangup(z, j) PROVE Visit(k)'
  BY <1>1, <1>2, <1>4, VisitHangup
<1>5. ASSUME NEW z \in Zones, ZoneReads(z) PROVE Visit(k)'
  BY <1>1, <1>2, <1>5, VisitZoneReads
<1>6. ASSUME NEW z \in Zones, WorldReads(z) PROVE Visit(k)'
  BY <1>1, <1>2, <1>6, VisitWorldReads
<1>7. ASSUME NEW z \in Zones, ZoneCrash(z) PROVE Visit(k)'
  BY <1>7, VisitCrash
<1>8. CASE (\E z \in Zones : ZoneRegister(z)) \/ UNCHANGED vars
  BY <1>1, <1>8, RegisterUntouched, UntouchedVisit
<1> QED
  BY <1>3, <1>4, <1>5, <1>6, <1>7, <1>8 DEF Next

\* The visit of a character nobody has asked for twice runs through its stages one by one: one
\* server speaks of it at a time, its entity is where its client is, and a portal leaves the
\* source bound until the destination is ready; as long as no client stops waiting.
THEOREM VisitInvariant == Spec => []VisitInv
<1>1. Init => VisitInv
  <2> SUFFICES ASSUME Init PROVE VisitInv
    OBVIOUS
  <2>1. \A queue : queue = <<>> => \A c : About(queue, c) = {}
    BY DEF About
  <2>2. \A c \in Characters : Fresh(c)
    BY <2>1 DEF Init, Fresh, Silent, SilentBut, OnlyIn
  <2>3. \A k \in Clients : ~ (logins[k] > 0)
    <3> SUFFICES ASSUME NEW k \in Clients PROVE ~ (logins[k] > 0)
      OBVIOUS
    <3>1. logins[k] = 0 /\ ~ (0 > 0)
      BY DEF Init
    <3> QED
      BY <3>1
  <2> QED
    BY <2>2, <2>3 DEF VisitInv
<1>2. TypeOK /\ HomeInv /\ VisitInv /\ [Next]_vars => VisitInv'
  <2> SUFFICES ASSUME TypeOK, HomeInv, VisitInv, [Next]_vars PROVE VisitInv'
    OBVIOUS
  <2>1. ASSUME NEW c \in Characters, NeverAskedFor(c)' PROVE Fresh(c)'
    <3>1. NeverAskedFor(c)
      BY <2>1, LoginsGrow DEF NeverAskedFor
    <3> QED
      BY <2>1, <3>1, FreshKept DEF VisitInv, HomeInv
  <2>2. ASSUME timeouts' = 0, NEW k \in Clients, AskedForOnce(Plays[k])', logins'[k] > 0
        PROVE  Visit(k)'
    <3>1. timeouts = 0
      BY <2>2, NobodyStoppedBefore
    <3>2. CASE logins[k] > 0
      <4>1. AskedForOnce(Plays[k])
        BY <2>2, ClientTyped, AskedForOnceBefore
      <4> QED
        BY <2>2, <3>1, <3>2, <4>1, VisitKept DEF VisitInv
    <3>3. CASE logins[k] = 0
      <4>1. SelectCharacter(k)
        BY <2>2, <3>3, LoginsGrow
      <4>2. NeverAskedFor(Plays[k])
        BY <2>2, <3>3, LoginsGrow DEF NeverAskedFor, AskedForOnce
      <4> QED
        BY <4>1, <4>2, ClientTyped, VisitBegins DEF VisitInv
    <3> QED
      BY <3>2, <3>3, LoginsGrow
  <2> QED
    BY <2>1, <2>2 DEF VisitInv
<1> QED
  BY <1>1, <1>2, TypeCorrect, HomeInvariant, PTL DEF Spec

\* A client that plays has its entity (findPlayerByConnection), through portals that open,
\* portals that do not and zones that die, if nobody else has asked for its character and no
\* client has stopped waiting for a transfer that goes on without it.
THEOREM BoundWhilePlaying ==
    Spec => [](timeouts = 0 => \A k \in Clients :
                   AskedForOnce(Plays[k]) /\ client[k].phase = "in" => Bound(k, client[k].zone))
<1>1. TypeOK /\ HomeInv /\ VisitInv => (timeouts = 0 => \A k \in Clients :
                   AskedForOnce(Plays[k]) /\ client[k].phase = "in" => Bound(k, client[k].zone))
  <2> SUFFICES ASSUME TypeOK, HomeInv, VisitInv, timeouts = 0, NEW k \in Clients,
                      AskedForOnce(Plays[k]), client[k].phase = "in"
               PROVE  Bound(k, client[k].zone)
    OBVIOUS
  <2>1. logins[k] > 0
    BY BoundsAssumption DEF HomeInv, OwnNames, TypeOK
  <2> QED
    BY <2>1 DEF VisitInv, Visit, VisitOf
<1> QED
  BY <1>1, TypeCorrect, HomeInvariant, VisitInvariant, PTL

LEMMA EverybodyOnce ==
    ASSUME MaxLogins <= 1,
           \A j, k \in Clients : Plays[j] = Plays[k] => j = k,
           TypeOK
    PROVE  \A c \in Characters : AskedForOnce(c)
<1> SUFFICES ASSUME NEW k \in Clients, logins[k] > 0 PROVE logins[k] = 1
  BY DEF AskedForOnce
<1>1. logins[k] \in 0 .. MaxLogins
  BY DEF TypeOK
<1> QED
  BY <1>1, BoundsAssumption

\* Clients that log in once each with a character of their own and wait for their portals are
\* never without it.
THEOREM NotStrandedWithoutSharing ==
    ASSUME MaxLogins <= 1, MaxTimeouts = 0,
           \A j, k \in Clients : Plays[j] = Plays[k] => j = k
    PROVE  Spec => []NotStranded
<1>1. TypeOK => timeouts = 0 /\ \A c \in Characters : AskedForOnce(c)
  BY EverybodyOnce DEF TypeOK
<1>2. \A k \in Clients : Plays[k] \in Characters
  BY WorldAssumption
<1>3. /\ TypeOK
      /\ timeouts = 0 => \A k \in Clients :
             AskedForOnce(Plays[k]) /\ client[k].phase = "in" => Bound(k, client[k].zone)
      => NotStranded
  BY <1>1, <1>2 DEF NotStranded
<1> QED
  BY <1>3, TypeCorrect, BoundWhilePlaying, PTL
-----------------------------------------------------------------------------
(* Nothing is lost *)

LEMMA AboutMore ==
    ASSUME NEW queue \in Seq(ToZone), NEW p \in ToZone, NEW c
    PROVE  About(Append(queue, p), c) \subseteq About(queue, c) \cup {p}
<1> DEFINE longer == Append(queue, p)
<1>1. \A i \in DOMAIN longer : (i \in DOMAIN queue /\ longer[i] = queue[i]) \/ longer[i] = p
  BY SendQueue
<1> HIDE DEF longer
<1>2. About(longer, c) \subseteq About(queue, c) \cup {p}
  BY <1>1 DEF About
<1> QED
  BY <1>2 DEF longer

LEMMA AboutTwoMore ==
    ASSUME NEW queue \in Seq(ToZone), NEW p \in ToZone, NEW q \in ToZone, NEW c
    PROVE  About(queue \o <<p, q>>, c) \subseteq About(queue, c) \cup {p, q}
<1> DEFINE longer == queue \o <<p, q>>
<1>1. \A i \in DOMAIN longer :
          (i \in DOMAIN queue /\ longer[i] = queue[i]) \/ longer[i] = p \/ longer[i] = q
  BY SendTwo
<1> HIDE DEF longer
<1>2. About(longer, c) \subseteq About(queue, c) \cup {p, q}
  BY <1>1 DEF About
<1> QED
  BY <1>2 DEF longer

\* The row of a character is written from an entity as old as the row, but for what the
\* character has just achieved.
LEMMA RowGrows ==
    ASSUME TypeOK, [Next]_vars, NEW c \in Characters, UpToDate(c)
    PROVE  /\ db'[c].state \in {db[c].state, db[c].state + 1}
           /\ ~ (\E j \in Clients : Plays[j] = c /\ Play(j)) => db'[c].state = db[c].state
           /\ \A j \in Clients : Plays[j] = c /\ Play(j) =>
                  db'[c].state = players[client[j].zone][c].state + 1
<1>0. db \in [Characters -> Row] /\ db[c] \in Row
  BY DEF TypeOK
<1>1. ASSUME NEW j \in Clients, Plays[j] = c, NEW z \in Zones, Bound(j, z)
      PROVE  players[z][c].state = db[c].state
  BY <1>1 DEF Bound, UpToDate
<1>2. ASSUME NEW j \in Clients, Plays[j] = c, Play(j)
      PROVE  db'[c].state = db[c].state + 1 /\ db'[c].state = players[client[j].zone][c].state + 1
  <2>1. client[j].zone \in Zones /\ Bound(j, client[j].zone)
    BY <1>2, ClientTyped DEF Play
  <2>2. db'[c].state = players[client[j].zone][c].state + 1
    BY <1>0, <1>2 DEF Play, Row
  <2> QED
    BY <1>1, <1>2, <2>1, <2>2
<1>3. ASSUME ~ \E j \in Clients : Plays[j] = c /\ Play(j)
      PROVE  db'[c].state = db[c].state
  <2>1. ASSUME NEW j \in Clients, ClientActs(j) PROVE db'[c].state = db[c].state
    <3>1. CASE Plays[j] # c
      BY <2>1, <3>1, ClientActsUntouched DEF Untouched
    <3>2. CASE Plays[j] = c /\ (Stuck(j) \/ \E dest \in Zones : UsePortal(j, dest))
      <4>1. /\ client[j].zone \in Zones /\ Bound(j, client[j].zone)
            /\ db' = [db EXCEPT ![c] = [zone |-> client[j].zone,
                                        state |-> players[client[j].zone][c].state]]
        BY <3>2, ClientTyped DEF Stuck, UsePortal
      <4> QED
        BY <1>0, <1>1, <3>2, <4>1
    <3>3. CASE Plays[j] = c /\ ~ Stuck(j) /\ ~ \E dest \in Zones : UsePortal(j, dest)
      BY <1>3, <2>1, <3>3 DEF ClientActs, SelectCharacter, SessionResume, Quit, StopWaiting
    <3> QED
      BY <3>1, <3>2, <3>3
  <2>2. ASSUME NEW z \in Zones, NEW j \in Clients, Hangup(z, j) PROVE db'[c].state = db[c].state
    <3>1. CASE Plays[j] # c \/ ~ Bound(j, z)
      BY <2>2, <3>1, HangupUntouched DEF Untouched
    <3>2. CASE Plays[j] = c /\ Bound(j, z)
      BY <1>0, <1>1, <2>2, <3>2 DEF Hangup
    <3> QED
      BY <3>1, <3>2
  <2>3. ASSUME NEW z \in Zones, ZoneReads(z) PROVE db'[c].state = db[c].state
    <3>1. CASE ZoneTransferAuthorize(z)
      <4> DEFINE b == Head(toZone[z]).character
      <4>1. b \in Characters
        BY <3>1, ZonePackets DEF ZoneTransferAuthorize, Arrives
      <4>2. CASE players[z][b] = None
        BY <3>1, <4>2 DEF ZoneTransferAuthorize
      <4>3. CASE players[z][b] # None
        <5>1. db' = [db EXCEPT ![b] = [zone |-> z, state |-> players[z][b].state]]
          BY <3>1, <4>3 DEF ZoneTransferAuthorize
        <5>2. CASE b = c
          BY <1>0, <4>3, <5>1, <5>2 DEF UpToDate
        <5>3. CASE b # c
          BY <1>0, <5>1, <5>3
        <5> QED
          BY <5>2, <5>3
      <4> QED
        BY <4>2, <4>3
    <3>2. CASE ~ ZoneTransferAuthorize(z)
      BY <2>3, <3>2 DEF ZoneReads, PlayerEnterPrepare, LoadCharacterResponse, ZoneConnectForward
    <3> QED
      BY <3>1, <3>2
  <2>4. ASSUME NEW z \in Zones, WorldReads(z) PROVE db'[c].state = db[c].state
    <3>1. CASE ZoneTransferRequest(z)
      <4>1. db' = [db EXCEPT ![Head(toWorld[z]).character] =
                       [@ EXCEPT !.zone = Head(toWorld[z]).dest]]
        BY <3>1 DEF ZoneTransferRequest
      <4> QED
        BY <1>0, <4>1 DEF Row
    <3>2. CASE ~ ZoneTransferRequest(z)
      BY <2>4, <3>2 DEF WorldReads, LoadCharacterRequest, ReadyToCross, ReadyToEnter
    <3> QED
      BY <3>1, <3>2
  <2>5. ASSUME NEW z \in Zones, ZoneRegister(z) \/ ZoneCrash(z) PROVE db'[c].state = db[c].state
    BY <2>5 DEF ZoneRegister, ZoneCrash
  <2>6. CASE UNCHANGED vars
    BY <2>6 DEF vars
  <2> QED
    BY <2>1, <2>2, <2>3, <2>4, <2>5, <2>6 DEF Next
<1> QED
  BY <1>2, <1>3

\* What a zone is sent of a character is what the database says at that moment.
LEMMA AnswersUpToDate ==
    ASSUME TypeOK, OwnNames, [Next]_vars, NEW c \in Characters, UpToDate(c),
           NEW y \in Zones, NEW p \in About(toZone'[y], c), p.kind = "LoadCharacterResponse"
    PROVE  p.state = db[c].state
<1>0. toZone \in [Zones -> Seq(ToZone)] /\ toZone[y] \in Seq(ToZone)
  BY DEF TypeOK
<1>1. p \in About(toZone[y], c) => p.state = db[c].state
  BY DEF UpToDate
<1>2. CASE ZonesQuieter(c)
  BY <1>1, <1>2 DEF ZonesQuieter, Quieter
<1>3. ASSUME NEW z \in Zones, NEW packet \in ToZone, SendToZone(z, packet)
      PROVE  p \in About(toZone[y], c) \/ p = packet
  <2>1. CASE z = y /\ z \in linked
    <3>1. toZone'[y] = Append(toZone[y], packet)
      BY <1>0, <1>3, <2>1 DEF SendToZone
    <3> QED
      BY <1>0, <3>1, AboutMore
  <2>2. CASE ~ (z = y /\ z \in linked)
    <3>1. toZone'[y] = toZone[y]
      BY <1>0, <1>3, <2>2 DEF SendToZone
    <3> QED
      BY <3>1
  <2> QED
    BY <2>1, <2>2
<1>4. ASSUME NEW j \in Clients, ClientActs(j) PROVE p.state = db[c].state
  <2>1. CASE SelectCharacter(j)
    <3> DEFINE prepare == [kind |-> "PlayerEnterPrepare", character |-> Plays[j],
                           token |-> <<j, logins[j] + 1>>]
    <3>1. db[Plays[j]].zone \in Zones /\ Plays[j] \in Characters
      BY ClientTyped, RowTyped
    <3>2. <<j, logins[j] + 1>> \in Tokens
      BY <2>1, BoundsAssumption DEF SelectCharacter, TypeOK, Tokens
    <3>3. prepare \in ToZone /\ prepare.kind # "LoadCharacterResponse"
      BY <3>1, <3>2, PacketsTyped
    <3>4. SendToZone(db[Plays[j]].zone, prepare)
      BY <2>1 DEF SelectCharacter
    <3> QED
      BY <1>1, <1>3, <3>1, <3>3, <3>4
  <2>2. CASE ~ SelectCharacter(j)
    <3>1. toZone' = toZone
      BY <1>4, <2>2 DEF ClientActs, SessionResume, Play, UsePortal, Stuck, Quit, StopWaiting, links
    <3> QED
      BY <1>1, <3>1
  <2> QED
    BY <2>1, <2>2
<1>5. ASSUME NEW z \in Zones, NEW j \in Clients, Hangup(z, j) PROVE p.state = db[c].state
  BY <1>1, <1>5 DEF Hangup, links
<1>6. ASSUME NEW z \in Zones, ZoneReads(z) PROVE ZonesQuieter(c)
  <2>1. CASE Head(toZone[z]).character = c
    BY <1>6, <2>1, ZoneReadAbout
  <2>2. CASE Head(toZone[z]).character # c
    BY <1>6, <2>2, ZoneReadsUntouched DEF Untouched
  <2> QED
    BY <2>1, <2>2
<1>7. ASSUME NEW z \in Zones, WorldReads(z) PROVE p.state = db[c].state
  <2>1. CASE Head(toWorld[z]).character # c
    BY <1>2, <1>7, <2>1, WorldReadsUntouched DEF Untouched
  <2>2. CASE Head(toWorld[z]).character = c
    <3>1. CASE LoadCharacterRequest(z)
      <4> DEFINE answer == [kind |-> "LoadCharacterResponse", character |-> c, state |-> db[c].state]
      <4>1. answer \in ToZone /\ SendToZone(z, answer)
        BY <2>2, <3>1, RowTyped, PacketsTyped DEF LoadCharacterRequest
      <4> QED
        BY <1>1, <1>3, <4>1
    <3>2. CASE ZoneTransferRequest(z)
      <4> DEFINE packet == Head(toWorld[z])
      <4>1. packet.dest \in Zones /\ packet.token \in Tokens \cup {None}
        BY <3>2, WorldPackets DEF ZoneTransferRequest, Read, Arrives
      <4>2. CASE packet.dest \notin zones
        <5>1. Forward(c, None) \in ToZone /\ Forward(c, None).kind # "LoadCharacterResponse"
          BY PacketsTyped DEF Forward
        <5>2. SendToZone(z, Forward(c, None))
          BY <2>2, <3>2, <4>2 DEF ZoneTransferRequest, Refuse
        <5> QED
          BY <1>1, <1>3, <5>1, <5>2
      <4>3. CASE packet.dest \in zones
        <5> DEFINE prepare == [kind |-> "PlayerEnterPrepare", character |-> c, token |-> packet.token]
        <5>1. prepare \in ToZone /\ prepare.kind # "LoadCharacterResponse"
          BY <4>1, PacketsTyped
        <5>2. SendToZone(packet.dest, prepare)
          BY <2>2, <3>2, <4>3 DEF ZoneTransferRequest
        <5> QED
          BY <1>1, <1>3, <4>1, <5>1, <5>2
      <4> QED
        BY <4>2, <4>3
    <3>3. CASE ReadyToCross(z)
      <4> DEFINE transfer == pendingZoneTransfers[c]
      <4>1. transfer.source \in Zones /\ transfer.dest \in Zones
        BY <2>2, <3>3 DEF ReadyToCross, TypeOK, Transfer
      <4>2. Release(c) \in ToZone /\ Forward(c, transfer.dest) \in ToZone
        BY <4>1, PacketsTyped
      <4>3. toZone'[y] \in {toZone[y], toZone[y] \o <<Release(c), Forward(c, transfer.dest)>>}
        BY <1>0, <2>2, <3>3, <4>1 DEF ReadyToCross, Orders
      <4>4. p \in About(toZone[y], c) \/ p \in {Release(c), Forward(c, transfer.dest)}
        <5>1. PICK there : there = Forward(c, transfer.dest)
          OBVIOUS
        <5>2. About(toZone[y] \o <<Release(c), there>>, c)
                  \subseteq About(toZone[y], c) \cup {Release(c), there}
          BY <1>0, <4>2, <5>1, AboutTwoMore
        <5>3. CASE toZone'[y] = toZone[y]
          BY <1>1, <5>3
        <5>4. CASE toZone'[y] = toZone[y] \o <<Release(c), there>>
          BY <1>1, <5>1, <5>2, <5>4
        <5> QED
          BY <4>3, <5>1, <5>3, <5>4
      <4>5. Release(c).kind # "LoadCharacterResponse"
            /\ Forward(c, transfer.dest).kind # "LoadCharacterResponse"
        BY DEF Release, Forward
      <4> QED
        BY <1>1, <4>4, <4>5
    <3>4. CASE ReadyToEnter(z)
      BY <1>1, <3>4 DEF ReadyToEnter
    <3> QED
      BY <1>7, <3>1, <3>2, <3>3, <3>4 DEF WorldReads
  <2> QED
    BY <2>1, <2>2
<1>8. ASSUME NEW z \in Zones, ZoneCrash(z) PROVE ZonesQuieter(c)
  BY <1>8, CrashQuieter
<1>9. CASE (\E z \in Zones : ZoneRegister(z)) \/ UNCHANGED vars
  BY <1>2, <1>9, RegisterUntouched DEF Untouched
<1> QED
  BY <1>2, <1>4, <1>5, <1>6, <1>7, <1>8, <1>9 DEF Next

\* The entities of a character keep up with its row.
LEMMA EntitiesUpToDate ==
    ASSUME TypeOK, HomeInv, VisitInv, [Next]_vars, timeouts = 0,
           NEW c \in Characters, AskedForOnce(c), UpToDate(c),
           NEW y \in Zones, players'[y][c] # None
    PROVE  players'[y][c].state = db'[c].state
<1>0. players \in [Zones -> [Characters -> {None} \cup PlayerEntity]]
  BY DEF TypeOK
<1>1. players[y][c] # None => players[y][c].state = db[c].state
  BY DEF UpToDate
<1>2. ASSUME NEW j \in Clients, Plays[j] = c, Play(j) PROVE players'[y][c].state = db'[c].state
  <2>0. PICK z : z = client[j].zone
    OBVIOUS
  <2>1. z \in Zones /\ players[z][c] # None /\ client[j].phase = "in"
    BY <1>2, <2>0, ClientTyped DEF Play, Bound
  <2>2. players[z][c] \in PlayerEntity
    BY <1>0, <2>1
  <2>3. logins[j] > 0
    BY <2>1, BoundsAssumption DEF HomeInv, OwnNames, TypeOK
  <2>4. OnlyIn(c, {z})
    BY <1>2, <2>0, <2>1, <2>3 DEF VisitInv, Visit, VisitOf
  <2>5. db'[c].state = players[z][c].state + 1
    BY <1>2, <2>0, RowGrows
  <2>6. players' = [players EXCEPT ![z][c].state = @ + 1]
    BY <1>2, <2>0 DEF Play
  <2>7. CASE y = z
    <3>1. players'[z][c] = [players[z][c] EXCEPT !.state = @ + 1]
      BY <1>0, <2>1, <2>6
    <3>2. players'[z][c].state = players[z][c].state + 1
      BY <2>2, <3>1 DEF PlayerEntity
    <3> QED
      BY <2>5, <2>7, <3>2
  <2>8. CASE y # z
    <3>1. players'[y] = players[y]
      BY <1>0, <2>6, <2>8
    <3> QED
      BY <2>4, <2>8, <3>1 DEF OnlyIn
  <2> QED
    BY <2>7, <2>8
<1>3. ASSUME ~ \E j \in Clients : Plays[j] = c /\ Play(j) PROVE players'[y][c].state = db'[c].state
  <2>0. db'[c].state = db[c].state
    BY <1>3, RowGrows
  <2> SUFFICES players'[y][c].state = db[c].state
    BY <2>0
  <2>1. CASE players'[y][c] = players[y][c]
    BY <1>1, <2>1
  <2>2. ASSUME NEW j \in Clients, ClientActs(j) PROVE players'[y][c].state = db[c].state
    <3>1. CASE Plays[j] # c
      BY <2>1, <2>2, <3>1, ClientActsUntouched DEF Untouched
    <3>2. CASE UNCHANGED players
      BY <2>1, <3>2
    <3>3. CASE /\ Plays[j] = c /\ SessionResume(j)
               /\ players[client[j].zone][c] # None
               /\ players' = [players EXCEPT ![client[j].zone][c] =
                                  [@ EXCEPT !.connection = j, !.token = client[j].token]]
      <4>1. client[j].zone \in Zones
        BY <3>3, ClientTyped DEF SessionResume
      <4>2. players[client[j].zone][c] \in PlayerEntity
        BY <1>0, <3>3, <4>1
      <4>3. CASE y = client[j].zone
        BY <1>0, <1>1, <3>3, <4>2, <4>3 DEF PlayerEntity
      <4>4. CASE y # client[j].zone
        BY <1>0, <2>1, <3>3, <4>1, <4>4
      <4> QED
        BY <4>3, <4>4
    <3> QED
      BY <1>3, <2>2, <3>1, <3>2, <3>3 DEF ClientActs, SelectCharacter, SessionResume, UsePortal,
                                          Stuck, Quit, StopWaiting, zone
  <2>3. ASSUME NEW z \in Zones, NEW j \in Clients, Hangup(z, j)
        PROVE  players'[y][c].state = db[c].state
    <3>1. CASE Plays[j] # c \/ ~ Bound(j, z)
      BY <2>1, <2>3, <3>1, HangupUntouched DEF Untouched
    <3>2. CASE Plays[j] = c /\ Bound(j, z)
      <4>1. players' = [players EXCEPT ![z][c] = None]
        BY <2>3, <3>2 DEF Hangup
      <4> QED
        BY <1>0, <2>1, <4>1
    <3> QED
      BY <3>1, <3>2
  <2>4. ASSUME NEW z \in Zones, ZoneReads(z) PROVE players'[y][c].state = db[c].state
    <3> DEFINE packet == Head(toZone[z])
    <3>1. CASE packet.character # c
      BY <2>1, <2>4, <3>1, ZoneReadsUntouched DEF Untouched, HomeInv
    <3>2. CASE packet.character = c /\ LoadCharacterResponse(z)
      <4>1. packet \in About(toZone[z], c) /\ packet.kind = "LoadCharacterResponse"
        BY <2>4, <3>2, HeardOf DEF LoadCharacterResponse, Arrives
      <4>2. packet.state = db[c].state
        BY <4>1 DEF UpToDate
      <4>3. players' = [players EXCEPT ![z][c] = [state |-> packet.state, token |-> pendingToken[z],
                                                  connection |-> None]]
        BY <3>2 DEF LoadCharacterResponse
      <4>4. CASE y = z
        BY <1>0, <4>2, <4>3, <4>4
      <4>5. CASE y # z
        BY <1>0, <2>1, <4>3, <4>5
      <4> QED
        BY <4>4, <4>5
    <3>3. CASE players' = [players EXCEPT ![z][c] = None]
      BY <1>0, <2>1, <3>3
    <3>4. CASE packet.character = c /\ (PlayerEnterPrepare(z) \/ ZoneTransferAuthorize(z))
      BY <3>3, <3>4 DEF PlayerEnterPrepare, ZoneTransferAuthorize
    <3>5. CASE ZoneConnectForward(z)
      BY <2>1, <3>5 DEF ZoneConnectForward
    <3> QED
      BY <2>4, <3>1, <3>2, <3>4, <3>5 DEF ZoneReads
  <2>5. ASSUME NEW z \in Zones, WorldReads(z) \/ ZoneRegister(z) PROVE players' = players
    BY <2>5 DEF WorldReads, LoadCharacterRequest, ZoneTransferRequest, ReadyToCross, ReadyToEnter,
                ZoneRegister, zone
  <2>6. ASSUME NEW z \in Zones, ZoneCrash(z) PROVE players'[y][c] = players[y][c]
    BY <2>6, CrashQuieter
  <2>7. CASE UNCHANGED vars
    BY <2>1, <2>7 DEF vars, zone
  <2> QED
    BY <2>1, <2>2, <2>3, <2>4, <2>5, <2>6, <2>7 DEF Next
<1> QED
  BY <1>2, <1>3

UpToDateInv == timeouts = 0 => \A c \in Characters : AskedForOnce(c) => UpToDate(c)

\* No server holds an older state of a character than its row, nor is one on its way to a zone.
THEOREM UpToDateInvariant == Spec => []UpToDateInv
<1>1. Init => UpToDateInv
  <2>1. \A queue : queue = <<>> => \A c : About(queue, c) = {}
    BY DEF About
  <2> QED
    BY <2>1 DEF Init, UpToDateInv, UpToDate
<1>2. TypeOK /\ HomeInv /\ VisitInv /\ UpToDateInv /\ [Next]_vars => UpToDateInv'
  <2> SUFFICES ASSUME TypeOK, HomeInv, VisitInv, UpToDateInv, [Next]_vars, timeouts' = 0,
                      NEW c \in Characters, AskedForOnce(c)'
               PROVE  UpToDate(c)'
    BY DEF UpToDateInv
  <2>1. timeouts = 0 /\ AskedForOnce(c)
    BY NobodyStoppedBefore, AskedForOnceBefore
  <2>2. UpToDate(c)
    BY <2>1 DEF UpToDateInv
  <2>3. \A y \in Zones : players'[y][c] # None => players'[y][c].state = db'[c].state
    BY <2>1, <2>2, EntitiesUpToDate
  <2>4. ASSUME NEW y \in Zones, NEW p \in About(toZone'[y], c), p.kind = "LoadCharacterResponse"
        PROVE  p.state = db'[c].state
    <3>1. p.state = db[c].state
      BY <2>2, <2>4, AnswersUpToDate DEF HomeInv
    <3>2. CASE db'[c].state = db[c].state
      BY <3>1, <3>2
    <3>3. ASSUME NEW j \in Clients, Plays[j] = c, Play(j) PROVE FALSE
      <4>1. client[j].phase = "in" /\ toZone' = toZone
        BY <3>3 DEF Play, links
      <4>2. logins[j] > 0
        BY <4>1, BoundsAssumption DEF HomeInv, OwnNames, TypeOK
      <4>3. Silent(c)
        BY <2>1, <3>3, <4>1, <4>2 DEF VisitInv, Visit, VisitOf
      <4> QED
        BY <2>4, <4>1, <4>3 DEF Silent, SilentBut
    <3> QED
      BY <2>2, <3>2, <3>3, RowGrows
  <2> QED
    BY <2>3, <2>4 DEF UpToDate
<1> QED
  BY <1>1, <1>2, TypeCorrect, HomeInvariant, VisitInvariant, PTL DEF Spec

\* What was saved of a character nobody has asked for twice is never overwritten by an earlier
\* state of it, as long as no client stops waiting: whoever writes the row (dispatch of combat
\* and trade, beginZoneTransfer, removePlayer, handleClientDisconnect) holds its latest state.
THEOREM ProgressPerLogin ==
    Spec => [][timeouts = 0 => \A c \in Characters :
                   AskedForOnce(c) => db'[c].state >= db[c].state]_vars
<1>1. TypeOK /\ UpToDateInv /\ [Next]_vars =>
          [timeouts = 0 => \A c \in Characters :
               AskedForOnce(c) => db'[c].state >= db[c].state]_vars
  <2> SUFFICES ASSUME TypeOK, UpToDateInv, [Next]_vars, timeouts = 0,
                      NEW c \in Characters, AskedForOnce(c)
               PROVE  db'[c].state >= db[c].state
    OBVIOUS
  <2>1. db'[c].state \in {db[c].state, db[c].state + 1}
    BY RowGrows DEF UpToDateInv
  <2>2. db[c].state \in 0 .. MaxState
    BY RowTyped
  <2> QED
    BY <2>1, <2>2, BoundsAssumption
<1> QED
  BY <1>1, TypeCorrect, UpToDateInvariant, PTL DEF Spec

\* Clients that log in once each with a character of their own and wait for their portals lose
\* nothing of what they have achieved.
THEOREM NoProgressLostWithoutSharing ==
    ASSUME MaxLogins <= 1, MaxTimeouts = 0,
           \A j, k \in Clients : Plays[j] = Plays[k] => j = k
    PROVE  Spec => NoProgressLost
<1>1. TypeOK => timeouts = 0 /\ \A c \in Characters : AskedForOnce(c)
  BY EverybodyOnce DEF TypeOK
<1>2. TypeOK /\ [timeouts = 0 => \A c \in Characters :
                     AskedForOnce(c) => db'[c].state >= db[c].state]_vars
      => [\A c \in Characters : db'[c].state >= db[c].state]_vars
  BY <1>1
<1> QED
  BY <1>2, TypeCorrect, ProgressPerLogin, PTL DEF NoProgressLost

-----------------------------------------------------------------------------
(* The store of characters that the servers implement *)

\* A zone plays a character, before a step and after it.
Here(z, c) == players[z][c] # None /\ players[z][c].connection # None

Copy(z, c) == [zone |-> z, state |-> players[z][c].state]

RowsStay == \A c \in Characters : db'[c].state = db[c].state

\* What is so while no client asks twice or stops waiting.
Alone(c) == AskedForOnce(c) /\ UpToDate(c) /\ OneHomeOf(c)

\* The copies of a character, from the zones that play it.
LEMMA CopiesAre ==
    ASSUME NEW c
    PROVE  Copies(c) = {Copy(z, c) : z \in {y \in Zones : Here(y, c)}}
  BY DEF Copies, Copy, Here

\* At first no zone has a copy of anything.
LEMMA InitIsStored == Init => Store!Init
<1> SUFFICES ASSUME Init PROVE Store!Init
  OBVIOUS
<1>1. \A c \in Characters : db[c].state = 0
  BY DEF Init
<1>2. \A c \in Characters : Copies(c) = {}
  BY DEF Init, Copies
<1> QED
  BY <1>1, <1>2 DEF Store!Init

\* A step that gives no zone another copy.
LEMMA NothingStored ==
    ASSUME RowsStay, \A c \in Characters : Copies(c)' = Copies(c)
    PROVE  UNCHANGED Store!svars
  BY DEF Store!svars, RowsStay

\* A step after which a zone plays a character no longer, if it did.
LEMMA LetGoStored ==
    ASSUME TypeOK, RowsStay, NEW z \in Zones, NEW c \in Characters,
           NEW e \in {None} \cup PlayerEntity, e # None => e.connection = None,
           players' = [players EXCEPT ![z][c] = e]
    PROVE  [Store!Next]_(Store!svars)
<1>0. players \in [Zones -> [Characters -> {None} \cup PlayerEntity]]
  BY DEF TypeOK
<1>1. ASSUME NEW d \in Characters, NEW y \in Zones, d # c \/ y # z
      PROVE  players'[y][d] = players[y][d]
  BY <1>0, <1>1
<1>2. players'[z][c] = e
  BY <1>0
<1>3. \A d \in Characters : d # c => Copies(d)' = Copies(d)
  BY <1>1 DEF Copies
<1>4. CASE ~ Here(z, c)
  <2>1. Copies(c)' = Copies(c)
    BY <1>1, <1>2, <1>4 DEF Copies, Here
  <2> QED
    BY <1>3, <2>1, NothingStored
<1>5. CASE Here(z, c)
  <2>1. Copy(z, c) \in Copies(c)
    BY <1>5, CopiesAre
  <2>2. Copies(c)' = Copies(c) \ {Copy(z, c)}
    BY <1>1, <1>2 DEF Copies, Here, Copy
  <2> QED
    BY <1>3, <2>1, <2>2 DEF Store!Next, Store!LetGo, RowsStay
<1> QED
  BY <1>4, <1>5

\* SessionResume binds the client to an entity that is as old as the row, and that no other
\* zone has.
LEMMA ResumeStored ==
    ASSUME TypeOK, NEW k \in Clients, SessionResume(k), \A c \in Characters : Alone(c) /\ OneHomeOf(c)'
    PROVE  [Store!Next]_(Store!svars)
<1> DEFINE c == Plays[k]
           z == client[k].zone
<1>0. players \in [Zones -> [Characters -> {None} \cup PlayerEntity]]
  BY DEF TypeOK
<1>1. c \in Characters /\ z \in Zones
  BY ClientTyped DEF SessionResume
<1>2. RowsStay
  BY DEF SessionResume, RowsStay
<1>3. CASE players' = players
  <2>1. \A d \in Characters : Copies(d)' = Copies(d)
    BY <1>3 DEF Copies
  <2> QED
    BY <1>2, <2>1, NothingStored
<1>4. CASE /\ players[z][c] # None
           /\ players' = [players EXCEPT ![z][c] =
                              [@ EXCEPT !.connection = k, !.token = client[k].token]]
  <2>1. players[z][c] \in PlayerEntity
    BY <1>0, <1>1, <1>4
  <2>2. ASSUME NEW d \in Characters, NEW y \in Zones, d # c \/ y # z
        PROVE  players'[y][d] = players[y][d]
    BY <1>0, <1>4, <2>2
  <2>3. /\ players'[z][c] # None /\ players'[z][c].connection = k
        /\ players'[z][c].state = players[z][c].state
    <3>1. players'[z][c] = [players[z][c] EXCEPT !.connection = k, !.token = client[k].token]
      BY <1>0, <1>1, <1>4
    <3>2. players'[z][c] \in PlayerEntity
      BY <2>1, <3>1, ClientTyped DEF PlayerEntity
    <3> QED
      BY <2>1, <3>1, <3>2, NoneAssumption DEF PlayerEntity
  <2>4. \A d \in Characters : d # c => Copies(d)' = Copies(d)
    BY <2>2 DEF Copies
  <2>5. k # None
    BY WorldAssumption
  <2>6. CASE Here(z, c)
    <3>1. \A y \in Zones : /\ Here(y, c)' <=> Here(y, c)
                           /\ players'[y][c].state = players[y][c].state
      BY <1>1, <2>2, <2>3, <2>5, <2>6 DEF Here
    <3>2. Copies(c)' = Copies(c)
      BY <3>1 DEF Copies, Here
    <3> QED
      BY <1>2, <2>4, <3>2, NothingStored
  <2>7. CASE ~ Here(z, c)
    <3>1. \A y \in Zones : ~ Here(y, c)
      <4> SUFFICES ASSUME NEW y \in Zones, Here(y, c) PROVE FALSE
        OBVIOUS
      <4>1. y # z /\ players'[y][c] = players[y][c]
        BY <1>1, <2>2, <2>7
      <4> QED
        BY <1>1, <2>3, <2>5, <4>1 DEF OneHomeOf, Here
    <3>2. Copies(c) = {}
      BY <3>1, CopiesAre
    <3>3. players[z][c].state = db[c].state
      BY <1>1, <1>4 DEF Alone, UpToDate
    <3>4. Copies(c)' = {[zone |-> z, state |-> db[c].state]}
      BY <1>1, <2>2, <2>3, <2>5, <3>1, <3>3 DEF Copies, Here
    <3> QED
      BY <1>1, <1>2, <2>4, <3>2, <3>4 DEF Store!Next, Store!Take, RowsStay
  <2> QED
    BY <2>6, <2>7
<1> QED
  BY <1>3, <1>4 DEF SessionResume

\* Play writes to the entity and to the row, which are at one.
LEMMA PlayStored ==
    ASSUME TypeOK, NEW k \in Clients, Play(k)
    PROVE  [Store!Next]_(Store!svars)
<1> DEFINE c == Plays[k]
<1>home. PICK z : z = client[k].zone
  OBVIOUS
<1>0. /\ players \in [Zones -> [Characters -> {None} \cup PlayerEntity]]
      /\ db \in [Characters -> Row]
  BY DEF TypeOK
<1>1. c \in Characters /\ z \in Zones /\ players[z][c] # None /\ players[z][c].connection = k
  BY <1>home, ClientTyped DEF Play, Bound
<1>2. players[z][c] \in PlayerEntity /\ k # None
  BY <1>0, <1>1, WorldAssumption
<1>3. players' = [players EXCEPT ![z][c].state = @ + 1]
  BY <1>home DEF Play
<1>4. db' = [db EXCEPT ![c].state = players[z][c].state + 1]
  BY <1>home DEF Play
<1>5. ASSUME NEW d \in Characters, NEW y \in Zones, d # c \/ y # z
      PROVE  players'[y][d] = players[y][d]
  BY <1>0, <1>3, <1>5
<1>6. players'[z][c] = [players[z][c] EXCEPT !.state = @ + 1]
  BY <1>0, <1>1, <1>3
<1>7. /\ players'[z][c] # None /\ players'[z][c].connection = k
      /\ players'[z][c].state = players[z][c].state + 1
  <2>1. players'[z][c].connection = k /\ players'[z][c].state = players[z][c].state + 1
    BY <1>1, <1>2, <1>6 DEF PlayerEntity
  <2>2. players[z][c].state + 1 \in 0 .. MaxState
    BY <1>home, <1>2, BoundsAssumption DEF Play, PlayerEntity
  <2>3. players'[z][c] \in PlayerEntity
    BY <1>2, <1>6, <2>2 DEF PlayerEntity
  <2>4. players'[z][c] # None
    BY <2>3, NoneAssumption
  <2> QED
    BY <2>1, <2>4
<1>8. \A d \in Characters : d # c => Copies(d)' = Copies(d)
  BY <1>5 DEF Copies
<1> DEFINE mine == Copy(z, c)
<1>9. mine \in Copies(c)
  BY <1>1, <1>2, CopiesAre DEF Here
<1>10. Copies(c)' = (Copies(c) \ {mine}) \cup {[mine EXCEPT !.state = @ + 1]}
  <2> DEFINE others == {Copy(y, c) : y \in {x \in Zones \ {z} : Here(x, c)}}
             next == [zone |-> z, state |-> players[z][c].state + 1]
  <2>1. Copies(c) = others \cup {mine}
    BY <1>1, <1>2, CopiesAre DEF Here
  <2>2. mine \notin others
    BY DEF Copy
  <2>3. [mine EXCEPT !.state = @ + 1] = next
    BY DEF Copy
  <2>4. Copies(c)' = others \cup {next}
    <3>1. \A y \in Zones \ {z} : players'[y][c] = players[y][c]
      BY <1>1, <1>5
    <3>2. {y \in Zones : Here(y, c)}' = {x \in Zones \ {z} : Here(x, c)} \cup {z}
      BY <1>1, <1>2, <1>7, <3>1 DEF Here
    <3>3. Copies(c)' = {Copy(y, c)' : y \in {y \in Zones : Here(y, c)}'}
      BY DEF Copies, Copy, Here
    <3>4. \A y \in Zones \ {z} : Copy(y, c)' = Copy(y, c)
      BY <3>1 DEF Copy
    <3>5. Copy(z, c)' = next
      BY <1>7 DEF Copy
    <3>6. {Copy(y, c)' : y \in {x \in Zones \ {z} : Here(x, c)} \cup {z}} = others \cup {next}
      <4> HIDE DEF next
      <4> QED
        BY <3>4, <3>5
    <3> QED
      BY <3>2, <3>3, <3>6
  <2> HIDE DEF mine, others, next
  <2> QED
    BY <2>1, <2>2, <2>3, <2>4
<1>11. \A d \in Characters : db'[d].state = IF d = c THEN mine.state + 1 ELSE db[d].state
  BY <1>0, <1>1, <1>4 DEF Row, Copy
<1>12. ASSUME NEW own, own = mine
       PROVE  Store!Advance(c, own)
  <2> HIDE DEF mine
  <2> QED
    BY <1>1, <1>8, <1>9, <1>10, <1>11, <1>12 DEF Store!Advance
<1>13. PICK own : own = mine
  OBVIOUS
<1>14. own \in Copies(c) /\ Store!Advance(c, own)
  BY <1>9, <1>12, <1>13
<1> QED
  BY <1>1, <1>14 DEF Store!Next

\* A zone that dies loses its copies and nothing else.
LEMMA CrashStored ==
    ASSUME TypeOK, NEW z \in Zones, ZoneCrash(z)
    PROVE  [Store!Next]_(Store!svars)
<1>1. \A c \in Characters, y \in Zones :
          players'[y][c] = IF y = z THEN None ELSE players[y][c]
  BY DEF ZoneCrash, TypeOK
<1>2. RowsStay
  BY DEF ZoneCrash, RowsStay
<1>3. ASSUME NEW c \in Characters
      PROVE  Copies(c)' = {mine \in Copies(c) : mine.zone # z}
  BY <1>1 DEF Copies
<1>4. Store!Lose(z)
  BY <1>2, <1>3 DEF Store!Lose, RowsStay
<1> QED
  BY <1>4 DEF Store!Next

\* Every step of the servers is one of the store, or none.
LEMMA StepIsStored ==
    ASSUME TypeOK, [Next]_vars, \A c \in Characters : Alone(c) /\ OneHomeOf(c)'
    PROVE  [Store!Next]_(Store!svars)
<1>1. CASE \E k \in Clients : Play(k)
  BY <1>1, PlayStored
<1>2. CASE ~ \E k \in Clients : Play(k)
  <2>1. RowsStay
    BY <1>2, RowGrows DEF RowsStay, Alone
  <2>2. CASE UNCHANGED players
    <3>1. \A c \in Characters : Copies(c)' = Copies(c)
      BY <2>2 DEF Copies
    <3> QED
      BY <2>1, <3>1, NothingStored
  <2>3. ASSUME NEW k \in Clients, ClientActs(k)
        PROVE  [Store!Next]_(Store!svars)
    <3>1. CASE SessionResume(k)
      BY <3>1, ResumeStored
    <3>2. CASE ~ SessionResume(k)
      <4>1. UNCHANGED players
        BY <1>2, <2>3, <3>2 DEF ClientActs, SelectCharacter, UsePortal, Stuck, Quit, StopWaiting,
                                zone
      <4> QED
        BY <2>2, <4>1
    <3> QED
      BY <3>1, <3>2
  <2>4. ASSUME NEW z \in Zones, NEW k \in Clients, Hangup(z, k)
        PROVE  [Store!Next]_(Store!svars)
    <3>1. Plays[k] \in Characters
      BY ClientTyped
    <3>2. players' = players \/ players' = [players EXCEPT ![z][Plays[k]] = None]
      BY <2>4 DEF Hangup
    <3> QED
      BY <2>1, <2>2, <3>1, <3>2, LetGoStored
  <2>5. ASSUME NEW z \in Zones, ZoneReads(z)
        PROVE  [Store!Next]_(Store!svars)
    <3> DEFINE c == Head(toZone[z]).character
    <3>1. toZone[z] # <<>>
      BY <2>5 DEF ZoneReads, PlayerEnterPrepare, LoadCharacterResponse, ZoneTransferAuthorize,
                  ZoneConnectForward, Arrives
    <3>2. c \in Characters
      BY <3>1, ZonePackets
    <3>3. CASE PlayerEnterPrepare(z) \/ ZoneTransferAuthorize(z)
      <4>1. players' = [players EXCEPT ![z][c] = None]
        BY <3>3 DEF PlayerEnterPrepare, ZoneTransferAuthorize
      <4> QED
        BY <2>1, <3>2, <4>1, LetGoStored
    <3>4. CASE LoadCharacterResponse(z)
      <4> DEFINE e == [state |-> Head(toZone[z]).state, token |-> pendingToken[z],
                       connection |-> None]
      <4>1. players' = [players EXCEPT ![z][c] = e]
        BY <3>4 DEF LoadCharacterResponse
      <4>2. e \in PlayerEntity /\ e.connection = None
        BY <3>1, <3>4, ZonePackets DEF LoadCharacterResponse, Arrives, PlayerEntity, TypeOK
      <4> HIDE DEF e
      <4> QED
        BY <2>1, <3>2, <4>1, <4>2, LetGoStored
    <3>5. CASE ZoneConnectForward(z)
      BY <2>2, <3>5 DEF ZoneConnectForward
    <3> QED
      BY <2>5, <3>3, <3>4, <3>5 DEF ZoneReads
  <2>6. ASSUME NEW z \in Zones, WorldReads(z) \/ ZoneRegister(z)
        PROVE  [Store!Next]_(Store!svars)
    BY <2>2, <2>6 DEF WorldReads, LoadCharacterRequest, ZoneTransferRequest, ReadyToCross,
                      ReadyToEnter, ZoneRegister, zone
  <2>7. ASSUME NEW z \in Zones, ZoneCrash(z)
        PROVE  [Store!Next]_(Store!svars)
    BY <2>7, CrashStored
  <2>8. CASE UNCHANGED vars
    BY <2>2, <2>8 DEF vars, zone
  <2> QED
    BY <2>3, <2>4, <2>5, <2>6, <2>7, <2>8 DEF Next
<1> QED
  BY <1>1, <1>2

\* Clients that log in once each with a character of their own and wait for their portals have
\* their characters in a store: whatever zones die and whoever hangs up, a zone takes a character
\* as it is in the database when nobody else has it, and what it achieves there is added to what
\* is saved (handleSessionResume, persistPlayerState, handleZoneTransferAuthorize).
THEOREM StoreWithoutSharing ==
    ASSUME MaxLogins <= 1, MaxTimeouts = 0,
           \A j, k \in Clients : Plays[j] = Plays[k] => j = k
    PROVE  Spec => ImplementsStore
<1> DEFINE Homes == \A c \in Characters : AskedForOnce(c) => OneHomeOf(c)
<1>1. TypeOK => timeouts = 0 /\ \A c \in Characters : AskedForOnce(c)
  BY EverybodyOnce DEF TypeOK
<1>2. TypeOK /\ Homes => \A c \in Characters : OneHomeOf(c)
  BY <1>1
<1>3. TypeOK' /\ Homes' => (\A c \in Characters : OneHomeOf(c))'
  BY <1>2, PTL
<1>4. TypeOK /\ Homes /\ UpToDateInv /\ [Next]_vars /\ TypeOK' /\ Homes'
      => [Store!Next]_(Store!svars)
  <2> SUFFICES ASSUME TypeOK, Homes, UpToDateInv, [Next]_vars, TypeOK', Homes'
               PROVE  [Store!Next]_(Store!svars)
    OBVIOUS
  <2>1. \A c \in Characters : Alone(c)
    BY <1>1 DEF Alone, UpToDateInv
  <2>2. \A c \in Characters : OneHomeOf(c)'
    BY <1>3
  <2> QED
    BY <2>1, <2>2, StepIsStored
<1>5. Spec => []Homes
  BY OneHomePerLogin
<1> HIDE DEF Homes
<1> QED
  BY <1>4, <1>5, InitIsStored, TypeCorrect, UpToDateInvariant, PTL
     DEF Spec, ImplementsStore, Store!Spec
=============================================================================
