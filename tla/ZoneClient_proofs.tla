------------------------- MODULE ZoneClient_proofs -------------------------
(***************************************************************************)
(* Theorems about ZoneClient.tla and the handlers of ZoneServer.tla, for   *)
(* any number of players, any street, any spawns and radii, and any number *)
(* of visits, requests, fights and deadlines: a client that has read all   *)
(* it was sent shows what the zone has, its window of a fight is open      *)
(* while the zone holds it to be in one, and no wait is for an answer that *)
(* nobody owes.                                                            *)
(*                                                                         *)
(* The invariant follows the packets on their way to one client: which of  *)
(* them is the answer to its call, which is the last to speak of a fight,  *)
(* and which is the last to show the zone.  Each of these is a predicate   *)
(* of the queue alone, so that a packet more or less is dealt with once    *)
(* and for all handlers.                                                   *)
(***************************************************************************)
EXTENDS ZoneClient, SequenceTheorems, FiniteSetTheorems, TLAPS

-----------------------------------------------------------------------------
(* Types *)

Street == Tiles \ Walls

Entities == [tile : Street, inCombat : BOOLEAN, connected : BOOLEAN]

Insides == [Players -> {None} \cup Entities]

Pets == [Players -> {None} \cup Street]

Mobs == [Spawns -> {"active", "dead", "due"}]

Elements == {"player", "companion"} \X Players \X Street \cup {"spawn"} \X Spawns \X Tiles

AnswerKinds ==
    {"MoveResult", "UsePortalResult", "ZoneConnectInfo", "PlayerCommandResult", "MerchantOpen",
     "SystemMessage", "SubmitActionResult", "TradeResult", "DebugCommandResponse",
     "SessionResumeResponse", "ZoneTileGrid"}

\* The answers that say where one stands.
Placing == {"MoveResult", "PlayerCommandResult", "SessionResumeResponse"}

AnswerPackets ==
    {a \in [kind : AnswerKinds, ok : BOOLEAN, tile : Tiles, late : BOOLEAN] :
        a.kind \in Placing /\ a.ok => a.tile \in Street}

Snapshots == [kind : {"EntitySnapshot"}, shown : SUBSET Elements]

FightKinds == {"CombatStart", "CombatEnd"}

Packets == AnswerPackets \cup Snapshots
               \cup [kind : FightKinds \cup {"ChatDeliver", "ZoneSnapshot"}]

Queues == Seq(Packets)

Calling == DOMAIN Answers

Clients ==
    [phase : Phases, got : SUBSET {"SessionResumeResponse", "ZoneSnapshot"},
     call : {None} \cup Calling, tile : Tiles, queue : Seq(SUBSET Elements),
     view : SUBSET Elements, window : BOOLEAN, missed : SUBSET {"snapshot", "fight"}]

TypeInv ==
    /\ players \in Insides
    /\ saved \in [Players -> Street]
    /\ companion \in Pets
    /\ spawns \in Mobs
    /\ fights \in [Players -> 0 .. MaxFights]
    /\ mapped \in SUBSET Players
    /\ transfers \in SUBSET Players
    /\ hangups \in SUBSET Players
    /\ wire \in [Players -> Queues]
    /\ client \in [Players -> Clients]
    /\ crossing \in [Players -> Crossing]
    /\ acts \in 0 .. MaxActs
    /\ timeouts \in 0 .. acts
    /\ \A p \in mapped : fights[p] > 0
-----------------------------------------------------------------------------
(* What is on its way to a client *)

Places(queue, kinds) == {i \in DOMAIN queue : queue[i].kind \in kinds}

AnswersIn(queue) == Places(queue, AnswerKinds)
FightsIn(queue) == Places(queue, FightKinds)
ShownIn(queue) == Places(queue, {"EntitySnapshot"})
GridsIn(queue) == Places(queue, {"ZoneTileGrid"})

\* The snapshots that show the player himself.
Own(p, shown) == \E t \in Street : <<"player", p, t>> \in shown
OwnIn(p, queue) == {i \in ShownIn(queue) : Own(p, queue[i].shown)}

PlacedIn(queue) == {i \in Places(queue, Placing) : queue[i].ok}

Last(i, places) == i \in places /\ \A j \in places : j <= i

\* The last packet that speaks of a fight says how it is, or there is none and the window
\* shows it, unless a wait has thrown that packet away.
Told(queue, c, fighting) ==
    /\ FightsIn(queue) = {} /\ "fight" \notin c.missed => c.window = fighting
    /\ \A i \in DOMAIN queue :
           Last(i, FightsIn(queue)) => (fighting <=> queue[i].kind = "CombatStart")

\* An element of a snapshot is what the zone has.
True(e, inside, pets, mobs) ==
    CASE e[1] = "player" -> /\ inside[e[2]] # None
                            /\ inside[e[2]].connected => e[3] = inside[e[2]].tile
      [] e[1] = "companion" -> e[3] = pets[e[2]]
      [] e[1] = "spawn" -> mobs[e[2]] = "active"

Truthful(shown, inside, pets, mobs) == \A e \in shown : True(e, inside, pets, mobs)

\* The snapshot that will be shown once the queue has been read.
Behind(c) == IF c.queue # <<>> THEN c.queue[Len(c.queue)] ELSE c.view

\* The last snapshot under way is true, or what the client has come to show is.
Picture(queue, c, inside, pets, mobs) ==
    /\ ShownIn(queue) = {} /\ "snapshot" \notin c.missed =>
           Truthful(Behind(c), inside, pets, mobs)
    /\ \A i \in DOMAIN queue :
           Last(i, ShownIn(queue)) => Truthful(queue[i].shown, inside, pets, mobs)

\* And so is the last that shows the player himself, and every answer after it.
Place(p, queue, c, tile) ==
    /\ OwnIn(p, queue) = {} /\ "snapshot" \notin c.missed => c.tile = tile
    /\ \A i \in DOMAIN queue :
           Last(i, OwnIn(p, queue)) =>
               \A t \in Street : <<"player", p, t>> \in queue[i].shown => t = tile
    /\ \A i \in PlacedIn(queue) : (\A j \in OwnIn(p, queue) : j < i) => queue[i].tile = tile

\* The snapshot that a newcomer is left out of comes before the tiles.
Ordered(p, queue, phase) ==
    /\ phase \in {"resuming", "draining"} => GridsIn(queue) = {}
    /\ phase = "tiles" =>
           \A i \in ShownIn(queue), j \in GridsIn(queue) : i \in OwnIn(p, queue) \/ i < j
    /\ phase = "in" => ShownIn(queue) \subseteq OwnIn(p, queue)
-----------------------------------------------------------------------------
(* The answer to a call *)

\* The packets that the wait of a call does not survive, or survives as one for nothing.
Decides(call, packet) ==
    \/ Ends(call, packet)
    \/ call = "recall" /\ packet.kind = "DebugCommandResponse"

\* Nothing late is under way but the outcome of an earlier transfer of two.
Timely(packet, owing) == packet.late => owing.again /\ packet.kind = "ZoneConnectInfo"

\* The answer is under way, no answer comes after it and none that could be taken for it
\* before.
Closed(queue, call, owing) ==
    \E i \in AnswersIn(queue) :
        /\ Decides(call, queue[i])
        /\ \A j \in AnswersIn(queue) :
               Timely(queue[j], owing) /\ j <= i /\ (j < i => ~ Decides(call, queue[j]))

\* No answer that would end the call is under way.
Open(queue, call) ==
    \A j \in AnswersIn(queue) : ~ queue[j].late /\ ~ Decides(call, queue[j])

Waiting(queue, call, transferred, owing, here) ==
    IF call \in {None, "recalled"} THEN AnswersIn(queue) = {} /\ ~ transferred
    ELSE \/ Closed(queue, call, owing) /\ ~ transferred
         \/ /\ Open(queue, call) /\ transferred /\ Owes(owing)
            /\ call \in {"portal", "teleport", "teleported"}
         \/ AnswersIn(queue) = {} /\ ~ transferred /\ call = "talk" /\ ~ here

\* What is under way at each phase, as long as no deadline has passed.
Expecting(queue, c, transferred, owing, here) ==
    /\ c.phase = "resuming" =>
           IF "SessionResumeResponse" \in c.got THEN AnswersIn(queue) = {}
           ELSE AnswersIn(queue) = {1} /\ queue[1].kind = "SessionResumeResponse"
    /\ c.phase = "draining" => AnswersIn(queue) = {}
    /\ c.phase = "tiles" =>
           \A i, j \in AnswersIn(queue) : i = j /\ queue[i].kind = "ZoneTileGrid"
    /\ c.phase = "in" => Waiting(queue, c.call, transferred, owing, here)
-----------------------------------------------------------------------------
(* The invariant *)

Away == {"out", "admitted"}

FledCalls == {"stuck", "teleport", "teleported", "recall", "recalled"}

\* What the phase of a client says about its connection and its player.
Connection(p) ==
    /\ client[p].phase \in Away =>
           /\ client[p] = [NoClient EXCEPT !.phase = client[p].phase]
           /\ wire[p] = <<>>
           /\ IsHere(p) => p \in hangups /\ client[p].phase = "out"
    /\ client[p].phase \notin Away /\ IsHere(p) => p \notin hangups
    /\ client[p].phase # "in" =>
           client[p].call = None /\ p \notin transfers /\ "snapshot" \notin client[p].missed
    /\ \/ client[p].phase \in {"draining", "tiles", "in"}
       \/ client[p].phase = "resuming" /\ "SessionResumeResponse" \in client[p].got
       => client[p].tile \in Street

\* A player fights on an open connection, in a fight that is his, and not while his client
\* waits to be taken out of it.
Combat(p) ==
    players[p] # None /\ players[p].inCombat =>
        /\ players[p].connected /\ p \in mapped
        /\ client[p].call \notin FledCalls

Follows(p) ==
    /\ timeouts = 0 =>
           Expecting(wire[p], client[p], p \in transfers, crossing[p], IsHere(p))
    /\ Ordered(p, wire[p], client[p].phase)
    /\ Reachable(players, p) =>
           /\ Told(wire[p], client[p], players[p].inCombat)
           /\ Picture(wire[p], client[p], players, companion, spawns)
           /\ Place(p, wire[p], client[p], players[p].tile)

Inv == TypeInv /\ \A p \in Players : Connection(p) /\ Combat(p) /\ Follows(p)
-----------------------------------------------------------------------------
(* Packets and queues *)

\* Answers, snapshots and the rest of what is pushed are told apart by their kind.
LEMMA PacketKinds ==
    ASSUME NEW x \in Packets
    PROVE  /\ IsAnswer(x) <=> x.kind \in AnswerKinds
           /\ x.kind \in AnswerKinds => x \in AnswerPackets
           /\ x.kind = "EntitySnapshot" => x \in Snapshots
           /\ x.kind \in AnswerKinds \/ x.kind \in FightKinds \/ x.kind = "EntitySnapshot"
                  \/ x.kind = "ChatDeliver" \/ x.kind = "ZoneSnapshot"
<1>1. CASE x \in AnswerPackets
  <2>1. DOMAIN x = {"kind", "ok", "tile", "late"}
    BY <1>1 DEF AnswerPackets
  <2> QED
    BY <1>1, <2>1 DEF AnswerPackets, IsAnswer, AnswerKinds, FightKinds
<1>2. CASE x \in Snapshots
  <2>1. DOMAIN x = {"kind", "shown"}
    BY <1>2 DEF Snapshots
  <2> QED
    BY <1>2, <2>1 DEF Snapshots, IsAnswer, AnswerKinds, FightKinds
<1>3. CASE x \in [kind : FightKinds \cup {"ChatDeliver", "ZoneSnapshot"}]
  <2>1. DOMAIN x = {"kind"}
    BY <1>3
  <2> QED
    BY <1>3, <2>1 DEF IsAnswer, AnswerKinds, FightKinds
<1> QED
  BY <1>1, <1>2, <1>3 DEF Packets

\* The kinds of answers, of fights, and the others.
LEMMA KindsApart ==
    /\ AnswerKinds \cap FightKinds = {}
    /\ Placing \subseteq AnswerKinds
    /\ "ZoneTileGrid" \in AnswerKinds
    /\ {"EntitySnapshot", "ChatDeliver", "ZoneSnapshot"} \cap (AnswerKinds \cup FightKinds) = {}
    /\ \A call \in Calling : Answers[call] \subseteq AnswerKinds
  BY DEF AnswerKinds, FightKinds, Placing, Calling, Answers

\* An answer as the zone makes it.
LEMMA AnswerTyped ==
    ASSUME NEW kind \in AnswerKinds, NEW ok \in BOOLEAN, NEW tile \in Tiles,
           kind \in Placing /\ ok => tile \in Street
    PROVE  /\ Answer(kind, ok, tile) \in Packets
           /\ Answer(kind, ok, tile) \in AnswerPackets
           /\ Answer(kind, ok, tile).kind = kind
           /\ Answer(kind, ok, tile).ok = ok
           /\ Answer(kind, ok, tile).tile = tile
           /\ Answer(kind, ok, tile).late = FALSE
  BY DEF Answer, AnswerPackets, Packets

\* A refusal, and a consent that says nothing of where one stands.
LEMMA RefusalTyped ==
    ASSUME NEW kind \in AnswerKinds
    PROVE  /\ Answer(kind, FALSE, 0) \in Packets
           /\ Answer(kind, FALSE, 0).kind = kind
           /\ Answer(kind, FALSE, 0).ok = FALSE
           /\ Answer(kind, FALSE, 0).late = FALSE /\ ~ Answer(kind, FALSE, 0).late
  BY TilesAssumption DEF Tiles, Answer, AnswerPackets, Packets

\* And a consent to a call that places nobody, of its kind.
LEMMA ConsentTyped ==
    ASSUME NEW kind \in AnswerKinds, kind \notin Placing
    PROVE  /\ Answer(kind, TRUE, 0) \in Packets
           /\ Answer(kind, TRUE, 0).kind = kind
           /\ Answer(kind, TRUE, 0).ok = TRUE
           /\ Answer(kind, TRUE, 0).late = FALSE /\ ~ Answer(kind, TRUE, 0).late
  BY TilesAssumption DEF Tiles, Answer, AnswerPackets, Packets

\* A push of the zone is a packet.
LEMMA PushTyped ==
    /\ [kind |-> "CombatStart"] \in Packets /\ [kind |-> "CombatStart"].kind = "CombatStart"
    /\ [kind |-> "CombatEnd"] \in Packets /\ [kind |-> "CombatEnd"].kind = "CombatEnd"
    /\ [kind |-> "ChatDeliver"] \in Packets /\ [kind |-> "ChatDeliver"].kind = "ChatDeliver"
    /\ [kind |-> "ZoneSnapshot"] \in Packets /\ [kind |-> "ZoneSnapshot"].kind = "ZoneSnapshot"
    /\ \A shown \in SUBSET Elements :
           /\ Snapshot(shown) \in Packets
           /\ Snapshot(shown).kind = "EntitySnapshot" /\ Snapshot(shown).shown = shown
  BY DEF Packets, FightKinds, Snapshots, Snapshot

\* A queue with a packet more.
LEMMA AppendPlaces ==
    ASSUME NEW queue \in Queues, NEW x \in Packets, NEW kinds
    PROVE  /\ Append(queue, x) \in Queues
           /\ Len(queue) \in Nat
           /\ DOMAIN queue = 1 .. Len(queue)
           /\ DOMAIN Append(queue, x) = 1 .. Len(queue) + 1
           /\ \A i \in DOMAIN queue : Append(queue, x)[i] = queue[i]
           /\ Append(queue, x)[Len(queue) + 1] = x
           /\ \A i : i \in Places(Append(queue, x), kinds) <=>
                  i \in Places(queue, kinds) \/ (i = Len(queue) + 1 /\ x.kind \in kinds)
<1>1. /\ Append(queue, x) \in Queues
      /\ Len(queue) \in Nat
      /\ DOMAIN queue = 1 .. Len(queue)
      /\ DOMAIN Append(queue, x) = 1 .. Len(queue) + 1
      /\ \A i \in DOMAIN queue : Append(queue, x)[i] = queue[i]
      /\ Append(queue, x)[Len(queue) + 1] = x
  BY DEF Queues
<1> QED
  BY <1>1 DEF Places

\* A queue with its first packet read.
LEMMA TailPlaces ==
    ASSUME NEW queue \in Queues, queue # <<>>, NEW kinds
    PROVE  /\ Tail(queue) \in Queues
           /\ Head(queue) = queue[1] /\ Head(queue) \in Packets
           /\ Len(queue) \in Nat \ {0}
           /\ DOMAIN queue = 1 .. Len(queue)
           /\ DOMAIN Tail(queue) = 1 .. Len(queue) - 1
           /\ \A i \in DOMAIN Tail(queue) : Tail(queue)[i] = queue[i + 1]
           /\ \A i \in Nat :
                  i \in Places(Tail(queue), kinds) <=> i # 0 /\ i + 1 \in Places(queue, kinds)
           /\ Places(Tail(queue), kinds) \subseteq Nat \ {0}
           /\ Places(queue, kinds) \subseteq Nat \ {0}
           /\ 1 \in Places(queue, kinds) <=> Head(queue).kind \in kinds
<1>1. /\ Tail(queue) \in Queues
      /\ Head(queue) = queue[1] /\ Head(queue) \in Packets
      /\ Len(queue) \in Nat \ {0}
      /\ DOMAIN queue = 1 .. Len(queue)
      /\ DOMAIN Tail(queue) = 1 .. Len(queue) - 1
      /\ \A i \in DOMAIN Tail(queue) : Tail(queue)[i] = queue[i + 1]
  BY DEF Queues
<1> QED
  BY <1>1 DEF Places

\* What ages is the answers, and of these only that they are late.
LEMMA AgedPackets ==
    ASSUME NEW queue \in Queues
    PROVE  /\ Aged(queue) \in Queues
           /\ Len(Aged(queue)) = Len(queue)
           /\ DOMAIN Aged(queue) = DOMAIN queue
           /\ \A i \in DOMAIN queue :
                  /\ Aged(queue)[i].kind = queue[i].kind
                  /\ queue[i].kind \notin AnswerKinds => Aged(queue)[i] = queue[i]
                  /\ queue[i].kind \in AnswerKinds => /\ Aged(queue)[i].ok = queue[i].ok
                                                      /\ Aged(queue)[i].tile = queue[i].tile
           /\ \A kinds : Places(Aged(queue), kinds) = Places(queue, kinds)
           /\ AnswersIn(queue) = {} => Aged(queue) = queue
<1>1. Len(queue) \in Nat /\ DOMAIN queue = 1 .. Len(queue)
  BY DEF Queues
<1>2. ASSUME NEW i \in DOMAIN queue
      PROVE  /\ Aged(queue)[i] \in Packets
             /\ Aged(queue)[i].kind = queue[i].kind
             /\ queue[i].kind \notin AnswerKinds => Aged(queue)[i] = queue[i]
             /\ queue[i].kind \in AnswerKinds => /\ Aged(queue)[i].ok = queue[i].ok
                                                 /\ Aged(queue)[i].tile = queue[i].tile
  <2>1. queue[i] \in Packets
    BY <1>1 DEF Queues
  <2>2. CASE queue[i].kind \in AnswerKinds
    <3>1. queue[i] \in AnswerPackets /\ IsAnswer(queue[i])
      BY <2>1, <2>2, PacketKinds
    <3>2. Aged(queue)[i] = [queue[i] EXCEPT !.late = TRUE]
      BY <3>1 DEF Aged
    <3> QED
      BY <2>2, <3>1, <3>2 DEF AnswerPackets, Packets
  <2>3. CASE queue[i].kind \notin AnswerKinds
    <3>1. ~ IsAnswer(queue[i])
      BY <2>1, <2>3, PacketKinds
    <3> QED
      BY <2>1, <2>3, <3>1 DEF Aged
  <2> QED
    BY <2>2, <2>3
<1>3. DOMAIN Aged(queue) = 1 .. Len(queue)
  BY <1>1 DEF Aged
<1>4. Aged(queue) \in [1 .. Len(queue) -> Packets]
  BY <1>1, <1>2, <1>3 DEF Aged
<1>5. Aged(queue) \in Queues /\ Len(Aged(queue)) = Len(queue)
  BY <1>1, <1>4, LenProperties, SeqDef DEF Queues
<1>6. \A kinds : Places(Aged(queue), kinds) = Places(queue, kinds)
  BY <1>1, <1>2, <1>3 DEF Places
<1>7. ASSUME AnswersIn(queue) = {} PROVE Aged(queue) = queue
  <2>1. \A i \in 1 .. Len(queue) : Aged(queue)[i] = queue[i]
    BY <1>1, <1>2, <1>7 DEF AnswersIn, Places
  <2> QED
    BY <1>1, <1>5, <2>1 DEF Queues
<1> QED
  BY <1>1, <1>2, <1>3, <1>5, <1>6, <1>7

\* A snapshot that would be the same twice in a row is not sent again.
LEMMA PostCases ==
    ASSUME NEW queue \in Queues, NEW x \in Packets
    PROVE  /\ Post(queue, x) = Append(queue, x) \/ (Post(queue, x) = queue /\ queue # <<>>)
           /\ x.kind # "EntitySnapshot" => Post(queue, x) = Append(queue, x)
           /\ Post(queue, x) \in Queues
           /\ Len(Post(queue, x)) \in Nat \ {0}
           /\ Post(queue, x)[Len(Post(queue, x))] = x
<1>1. CASE x.kind = "EntitySnapshot" /\ queue # <<>> /\ queue[Len(queue)] = x
  BY <1>1 DEF Post, Queues
<1>2. CASE ~ (x.kind = "EntitySnapshot" /\ queue # <<>> /\ queue[Len(queue)] = x)
  <2>1. Post(queue, x) = Append(queue, x)
    BY <1>2 DEF Post
  <2>2. Append(queue, x) \in Queues /\ Len(Append(queue, x)) = Len(queue) + 1
        /\ Len(queue) \in Nat /\ Append(queue, x)[Len(queue) + 1] = x
    BY DEF Queues
  <2> QED
    BY <2>1, <2>2
<1> QED
  BY <1>1, <1>2
-----------------------------------------------------------------------------
(* What the zone may push to any client at any time *)

Pushable(p, x) == x.kind = "ChatDeliver" \/ (x.kind = "EntitySnapshot" /\ Own(p, x.shown))

\* A queue to which only such packets were added.
Grow(p, old, new) ==
    /\ new \in Queues
    /\ Len(old) <= Len(new)
    /\ \A i \in DOMAIN old : new[i] = old[i]
    /\ \A i \in DOMAIN new : i > Len(old) => Pushable(p, new[i])

\* Nothing need be added,
LEMMA GrowReflexive ==
    ASSUME NEW p, NEW queue \in Queues
    PROVE  Grow(p, queue, queue)
  BY DEF Grow, Queues

\* and a queue may grow twice,
LEMMA GrowTransitive ==
    ASSUME NEW p, NEW a \in Queues, NEW b, NEW c, Grow(p, a, b), Grow(p, b, c)
    PROVE  Grow(p, a, c)
<1>1. /\ Len(a) \in Nat /\ DOMAIN a = 1 .. Len(a)
      /\ b \in Queues /\ Len(b) \in Nat /\ DOMAIN b = 1 .. Len(b)
      /\ c \in Queues /\ Len(c) \in Nat /\ DOMAIN c = 1 .. Len(c)
      /\ Len(a) <= Len(b) /\ Len(b) <= Len(c)
  BY DEF Grow, Queues
<1>2. \A i \in DOMAIN a : i \in DOMAIN b /\ b[i] = a[i] /\ c[i] = b[i]
  BY <1>1 DEF Grow
<1>3. ASSUME NEW i \in DOMAIN c, i > Len(a) PROVE Pushable(p, c[i])
  <2>1. CASE i \in DOMAIN b
    BY <1>1, <1>3, <2>1 DEF Grow
  <2>2. CASE i \notin DOMAIN b
    BY <1>1, <1>3, <2>2 DEF Grow
  <2> QED
    BY <2>1, <2>2
<1> QED
  BY <1>1, <1>2, <1>3 DEF Grow

\* each time by one push of the zone.
LEMMA GrowPost ==
    ASSUME NEW p, NEW queue \in Queues, NEW x \in Packets, Pushable(p, x)
    PROVE  Grow(p, queue, Post(queue, x))
<1>1. CASE Post(queue, x) = queue
  BY <1>1, GrowReflexive
<1>2. CASE Post(queue, x) = Append(queue, x)
  <2>1. /\ Append(queue, x) \in Queues /\ Len(queue) \in Nat
        /\ DOMAIN queue = 1 .. Len(queue)
        /\ DOMAIN Append(queue, x) = 1 .. Len(queue) + 1
        /\ Len(Append(queue, x)) = Len(queue) + 1
        /\ \A i \in DOMAIN queue : Append(queue, x)[i] = queue[i]
        /\ Append(queue, x)[Len(queue) + 1] = x
    BY DEF Queues
  <2>2. Grow(p, queue, Append(queue, x))
    BY <2>1 DEF Grow
  <2> QED
    BY <1>2, <2>2
<1> QED
  BY <1>1, <1>2, PostCases

\* Answers, fights and tiles stay where they are, and every snapshot that is new shows the
\* player himself.
LEMMA GrowPlaces ==
    ASSUME NEW p, NEW old \in Queues, NEW new, Grow(p, old, new)
    PROVE  /\ DOMAIN old \subseteq DOMAIN new
           /\ DOMAIN old = 1 .. Len(old) /\ DOMAIN new = 1 .. Len(new)
           /\ Len(old) \in Nat /\ Len(new) \in Nat
           /\ \A i \in DOMAIN old : new[i] = old[i]
           /\ AnswersIn(new) = AnswersIn(old)
           /\ FightsIn(new) = FightsIn(old)
           /\ GridsIn(new) = GridsIn(old)
           /\ ShownIn(old) \subseteq ShownIn(new)
           /\ \A i \in ShownIn(new) : i \in ShownIn(old) \/ i \in OwnIn(p, new)
           /\ \A i \in OwnIn(p, old) : i \in OwnIn(p, new)
<1>1. /\ Len(old) \in Nat /\ DOMAIN old = 1 .. Len(old)
      /\ new \in Queues /\ Len(new) \in Nat /\ DOMAIN new = 1 .. Len(new)
      /\ Len(old) <= Len(new)
      /\ \A i \in DOMAIN old : new[i] = old[i]
  BY DEF Grow, Queues
<1>2. \A i \in DOMAIN new : i \in DOMAIN old \/ i > Len(old)
  BY <1>1
<1>3. \A i \in DOMAIN new : i > Len(old) =>
          /\ new[i].kind \notin AnswerKinds /\ new[i].kind \notin FightKinds
          /\ new[i].kind # "ZoneTileGrid"
          /\ new[i].kind = "EntitySnapshot" => Own(p, new[i].shown)
  BY KindsApart DEF Grow, Pushable
<1>4. /\ AnswersIn(new) = AnswersIn(old)
      /\ FightsIn(new) = FightsIn(old)
      /\ GridsIn(new) = GridsIn(old)
  BY <1>1, <1>2, <1>3 DEF AnswersIn, FightsIn, GridsIn, Places
<1>5. ShownIn(old) \subseteq ShownIn(new)
  BY <1>1 DEF ShownIn, Places
<1>6. \A i \in ShownIn(new) : i \in ShownIn(old) \/ i \in OwnIn(p, new)
  BY <1>1, <1>2, <1>3 DEF ShownIn, OwnIn, Places
<1>7. \A i \in OwnIn(p, old) : i \in OwnIn(p, new)
  BY <1>1 DEF ShownIn, OwnIn, Places
<1> QED
  BY <1>1, <1>4, <1>5, <1>6, <1>7

\* What a client waits for is a matter of the answers alone.
LEMMA SameAnswers ==
    ASSUME NEW old, NEW new, AnswersIn(new) = AnswersIn(old),
           \A i \in AnswersIn(old) : new[i] = old[i],
           NEW c, NEW transferred, NEW owing, NEW here,
           Expecting(old, c, transferred, owing, here)
    PROVE  Expecting(new, c, transferred, owing, here)
<1>1. \A call : Closed(old, call, owing) => Closed(new, call, owing)
  BY DEF Closed
<1>2. \A call : Open(old, call) => Open(new, call)
  BY DEF Open
<1>3. \A call : Waiting(old, call, transferred, owing, here) =>
                    Waiting(new, call, transferred, owing, here)
  BY <1>1, <1>2 DEF Waiting
<1>4. c.phase = "in" => Waiting(new, c.call, transferred, owing, here)
  BY <1>3 DEF Expecting
<1>5. c.phase = "resuming" =>
         IF "SessionResumeResponse" \in c.got THEN AnswersIn(new) = {}
         ELSE AnswersIn(new) = {1} /\ new[1].kind = "SessionResumeResponse"
  <2>1. AnswersIn(old) = {1} => new[1] = old[1]
    OBVIOUS
  <2> QED
    BY <2>1 DEF Expecting
<1>6. c.phase = "draining" => AnswersIn(new) = {}
  BY DEF Expecting
<1>7. c.phase = "tiles" => \A i, j \in AnswersIn(new) : i = j /\ new[i].kind = "ZoneTileGrid"
  BY DEF Expecting
<1> QED
  BY <1>4, <1>5, <1>6, <1>7 DEF Expecting

\* None of them ends a call, speaks of a fight or brings the tiles.
LEMMA GrowKeeps ==
    ASSUME NEW p, NEW old \in Queues, NEW new, Grow(p, old, new), NEW c
    PROVE  /\ \A fighting : Told(old, c, fighting) => Told(new, c, fighting)
           /\ \A phase : Ordered(p, old, phase) => Ordered(p, new, phase)
           /\ \A transferred, owing, here :
                  Expecting(old, c, transferred, owing, here) =>
                      Expecting(new, c, transferred, owing, here)
<1>0. /\ AnswersIn(new) = AnswersIn(old)
      /\ FightsIn(new) = FightsIn(old)
      /\ GridsIn(new) = GridsIn(old)
      /\ DOMAIN old \subseteq DOMAIN new
      /\ \A i \in DOMAIN old : new[i] = old[i]
      /\ \A i \in ShownIn(new) : i \in ShownIn(old) \/ i \in OwnIn(p, new)
      /\ \A i \in OwnIn(p, old) : i \in OwnIn(p, new)
  BY GrowPlaces
<1>1. ASSUME NEW fighting, Told(old, c, fighting) PROVE Told(new, c, fighting)
  <2>1. \A i : Last(i, FightsIn(new)) => i \in DOMAIN old /\ new[i] = old[i]
    BY <1>0 DEF Last, FightsIn, Places
  <2> QED
    BY <1>0, <1>1, <2>1 DEF Told
<1>2. ASSUME NEW phase, Ordered(p, old, phase) PROVE Ordered(p, new, phase)
  BY <1>0, <1>2 DEF Ordered
<1>3. \A i \in AnswersIn(old) : new[i] = old[i]
  BY <1>0 DEF AnswersIn, Places
<1>4. ASSUME NEW transferred, NEW owing, NEW here, Expecting(old, c, transferred, owing, here)
      PROVE  Expecting(new, c, transferred, owing, here)
  BY <1>0, <1>3, <1>4, SameAnswers
<1> QED
  BY <1>1, <1>2, <1>4
-----------------------------------------------------------------------------
(* What a packet more says of the fight *)

\* Only the packets of fights say anything of it, and the last one decides.
LEMMA ToldAppend ==
    ASSUME NEW queue \in Queues, NEW x \in Packets, NEW c, NEW fighting
    PROVE  /\ x.kind \notin FightKinds /\ Told(queue, c, fighting)
                  => Told(Append(queue, x), c, fighting)
           /\ x.kind \in FightKinds /\ (fighting <=> x.kind = "CombatStart")
                  => Told(Append(queue, x), c, fighting)
<1>0. /\ DOMAIN queue = 1 .. Len(queue) /\ Len(queue) \in Nat
      /\ DOMAIN Append(queue, x) = 1 .. Len(queue) + 1
      /\ \A i \in DOMAIN queue : Append(queue, x)[i] = queue[i]
      /\ Append(queue, x)[Len(queue) + 1] = x
      /\ \A i : i \in FightsIn(Append(queue, x)) <=>
                 i \in FightsIn(queue) \/ (i = Len(queue) + 1 /\ x.kind \in FightKinds)
  BY AppendPlaces DEF FightsIn
<1>1. ASSUME x.kind \notin FightKinds, Told(queue, c, fighting)
      PROVE  Told(Append(queue, x), c, fighting)
  <2>1. FightsIn(Append(queue, x)) = FightsIn(queue)
    BY <1>0, <1>1
  <2>2. \A i : Last(i, FightsIn(queue)) => i \in DOMAIN queue /\ Append(queue, x)[i] = queue[i]
    BY <1>0 DEF Last, FightsIn, Places
  <2> QED
    BY <1>0, <1>1, <2>1, <2>2 DEF Told
<1>2. ASSUME x.kind \in FightKinds, fighting <=> x.kind = "CombatStart"
      PROVE  Told(Append(queue, x), c, fighting)
  <2>1. Len(queue) + 1 \in FightsIn(Append(queue, x))
    BY <1>0, <1>2
  <2>2. \A i \in DOMAIN Append(queue, x) :
            Last(i, FightsIn(Append(queue, x))) => i = Len(queue) + 1
    BY <1>0, <2>1 DEF Last, FightsIn, Places
  <2> QED
    BY <1>0, <1>2, <2>1, <2>2 DEF Told
<1> QED
  BY <1>1, <1>2

\* Nor does it matter for that whether an answer is late.
LEMMA ToldAged ==
    ASSUME NEW queue \in Queues, NEW c, NEW fighting, Told(queue, c, fighting)
    PROVE  Told(Aged(queue), c, fighting)
  BY AgedPackets DEF Told, FightsIn
-----------------------------------------------------------------------------
(* What a packet more says of the zone *)

\* A packet that is no snapshot changes nothing about what is shown, and an answer that
\* places the player has to be right only until the next snapshot.
LEMMA ShownAppend ==
    ASSUME NEW p, NEW queue \in Queues, NEW x \in Packets, x.kind # "EntitySnapshot", NEW c
    PROVE  /\ \A inside, pets, mobs :
                  Picture(queue, c, inside, pets, mobs) =>
                      Picture(Append(queue, x), c, inside, pets, mobs)
           /\ \A tile :
                  /\ Place(p, queue, c, tile)
                  /\ x.kind \in Placing /\ x.ok => x.tile = tile
                  => Place(p, Append(queue, x), c, tile)
           /\ \A phase :
                  Ordered(p, queue, phase) /\ x.kind # "ZoneTileGrid" =>
                      Ordered(p, Append(queue, x), phase)
           /\ Ordered(p, queue, "draining") => Ordered(p, Append(queue, x), "tiles")
<1> DEFINE new == Append(queue, x)
<1>0. /\ DOMAIN queue = 1 .. Len(queue) /\ Len(queue) \in Nat
      /\ DOMAIN new = 1 .. Len(queue) + 1
      /\ \A i \in DOMAIN queue : new[i] = queue[i]
      /\ new[Len(queue) + 1] = x
  BY AppendPlaces
<1>1. ShownIn(new) = ShownIn(queue)
  BY <1>0 DEF ShownIn, Places
<1>2. OwnIn(p, new) = OwnIn(p, queue)
  BY <1>0, <1>1 DEF OwnIn, ShownIn, Places
<1>3. \A i \in GridsIn(new) :
          i \in GridsIn(queue) \/ (i = Len(queue) + 1 /\ x.kind = "ZoneTileGrid")
  BY <1>0 DEF GridsIn, Places
<1>4. /\ ShownIn(queue) \subseteq DOMAIN queue
      /\ OwnIn(p, queue) \subseteq DOMAIN queue
  BY DEF OwnIn, ShownIn, Places
<1>5. \A i \in PlacedIn(new) :
          \/ i \in PlacedIn(queue) /\ new[i] = queue[i]
          \/ i = Len(queue) + 1 /\ x.kind \in Placing /\ x.ok
  BY <1>0 DEF PlacedIn, Places
<1> HIDE DEF new
<1>6. ASSUME NEW inside, NEW pets, NEW mobs, Picture(queue, c, inside, pets, mobs)
      PROVE  Picture(new, c, inside, pets, mobs)
  <2>1. \A i : Last(i, ShownIn(new)) =>
            i \in DOMAIN queue /\ Last(i, ShownIn(queue)) /\ new[i] = queue[i]
    BY <1>0, <1>1, <1>4 DEF Last
  <2> QED
    BY <1>1, <1>6, <2>1 DEF Picture
<1>7. ASSUME NEW tile, Place(p, queue, c, tile), x.kind \in Placing /\ x.ok => x.tile = tile
      PROVE  Place(p, new, c, tile)
  <2>1. \A i : Last(i, OwnIn(p, new)) =>
            i \in DOMAIN queue /\ Last(i, OwnIn(p, queue)) /\ new[i] = queue[i]
    BY <1>0, <1>2, <1>4 DEF Last
  <2>2. \A i \in PlacedIn(new) : (\A j \in OwnIn(p, new) : j < i) => new[i].tile = tile
    BY <1>0, <1>2, <1>5, <1>7 DEF Place
  <2> QED
    BY <1>2, <1>7, <2>1, <2>2 DEF Place
<1>8. ASSUME NEW phase, Ordered(p, queue, phase), x.kind # "ZoneTileGrid"
      PROVE  Ordered(p, new, phase)
  <2>1. GridsIn(new) \subseteq GridsIn(queue)
    BY <1>3, <1>8
  <2> QED
    BY <1>1, <1>2, <1>8, <2>1 DEF Ordered
<1>9. ASSUME Ordered(p, queue, "draining") PROVE Ordered(p, new, "tiles")
  <2>1. GridsIn(queue) = {}
    BY <1>9 DEF Ordered
  <2>2. \A i \in ShownIn(new), j \in GridsIn(new) : i < j
    BY <1>0, <1>1, <1>3, <1>4, <2>1
  <2> QED
    BY <2>2 DEF Ordered
<1> QED
  BY <1>6, <1>7, <1>8, <1>9 DEF new

\* Nor does it matter whether an answer is late.
LEMMA ShownAged ==
    ASSUME NEW p, NEW queue \in Queues, NEW c
    PROVE  /\ \A inside, pets, mobs :
                  Picture(queue, c, inside, pets, mobs) =>
                      Picture(Aged(queue), c, inside, pets, mobs)
           /\ \A tile : Place(p, queue, c, tile) => Place(p, Aged(queue), c, tile)
           /\ \A phase : Ordered(p, queue, phase) => Ordered(p, Aged(queue), phase)
<1> DEFINE new == Aged(queue)
<1>1. /\ DOMAIN new = DOMAIN queue
      /\ ShownIn(new) = ShownIn(queue) /\ GridsIn(new) = GridsIn(queue)
  BY AgedPackets DEF ShownIn, GridsIn
<1>2. \A i \in ShownIn(queue) : i \in DOMAIN queue /\ new[i] = queue[i]
  BY AgedPackets, KindsApart DEF ShownIn, Places
<1>3. OwnIn(p, new) = OwnIn(p, queue)
  BY <1>1, <1>2 DEF OwnIn
<1>4. \A i \in PlacedIn(new) : i \in PlacedIn(queue) /\ new[i].tile = queue[i].tile
  BY AgedPackets, KindsApart DEF PlacedIn, Places
<1> HIDE DEF new
<1>5. ASSUME NEW inside, NEW pets, NEW mobs, Picture(queue, c, inside, pets, mobs)
      PROVE  Picture(new, c, inside, pets, mobs)
  <2>1. \A i : Last(i, ShownIn(new)) => Last(i, ShownIn(queue)) /\ new[i] = queue[i]
    BY <1>1, <1>2 DEF Last
  <2> QED
    BY <1>1, <1>5, <2>1 DEF Picture
<1>6. ASSUME NEW tile, Place(p, queue, c, tile) PROVE Place(p, new, c, tile)
  <2>1. \A i : Last(i, OwnIn(p, new)) => Last(i, OwnIn(p, queue)) /\ new[i] = queue[i]
    BY <1>2, <1>3 DEF Last, OwnIn
  <2>2. \A i \in PlacedIn(new) : (\A j \in OwnIn(p, new) : j < i) => new[i].tile = tile
    BY <1>3, <1>4, <1>6 DEF Place
  <2> QED
    BY <1>1, <1>3, <1>6, <2>1, <2>2 DEF Place
<1>7. ASSUME NEW phase, Ordered(p, queue, phase) PROVE Ordered(p, new, phase)
  BY <1>1, <1>3, <1>7 DEF Ordered
<1> QED
  BY <1>5, <1>6, <1>7 DEF new
-----------------------------------------------------------------------------
(* Snapshots *)

\* What a snapshot is made of.
LEMMA ShownTyped ==
    ASSUME NEW inside \in Insides, NEW pets \in Pets, NEW mobs \in Mobs
    PROVE  Shown(inside, pets, mobs) \in SUBSET Elements
<1>1. \A p \in Players : inside[p] # None => inside[p].tile \in Street
  BY DEF Insides, Entities
<1>2. \A p \in Players : pets[p] # None => pets[p] \in Street
  BY DEF Pets
<1>3. \A s \in Spawns : SpawnTile[s] \in Tiles
  BY TilesAssumption DEF Spawns
<1> QED
  BY <1>1, <1>2, <1>3 DEF Shown, Elements

\* A snapshot shows what the zone has, every player among it, and each in one place.
LEMMA ShownIsTrue ==
    ASSUME NEW inside \in Insides, NEW pets \in Pets, NEW mobs \in Mobs
    PROVE  /\ Truthful(Shown(inside, pets, mobs), inside, pets, mobs)
           /\ \A p \in Players : inside[p] # None =>
                  /\ <<"player", p, inside[p].tile>> \in Shown(inside, pets, mobs)
                  /\ \A t : <<"player", p, t>> \in Shown(inside, pets, mobs) => t = inside[p].tile
<1>1. \A e \in Shown(inside, pets, mobs) :
          \/ \E p \in Players : inside[p] # None /\ e = <<"player", p, inside[p].tile>>
          \/ \E p \in Players : pets[p] # None /\ e = <<"companion", p, pets[p]>>
          \/ \E s \in Spawns : mobs[s] = "active" /\ e = <<"spawn", s, SpawnTile[s]>>
  BY DEF Shown
<1>2. Truthful(Shown(inside, pets, mobs), inside, pets, mobs)
  <2> SUFFICES ASSUME NEW e \in Shown(inside, pets, mobs) PROVE True(e, inside, pets, mobs)
    BY DEF Truthful
  <2>1. ASSUME NEW p \in Players, inside[p] # None, e = <<"player", p, inside[p].tile>>
        PROVE  True(e, inside, pets, mobs)
    BY <2>1 DEF True
  <2>2. ASSUME NEW p \in Players, pets[p] # None, e = <<"companion", p, pets[p]>>
        PROVE  True(e, inside, pets, mobs)
    <3>1. e[1] = "companion" /\ e[2] = p /\ e[3] = pets[p]
      BY <2>2
    <3> QED
      BY <3>1 DEF True
  <2>3. ASSUME NEW s \in Spawns, mobs[s] = "active", e = <<"spawn", s, SpawnTile[s]>>
        PROVE  True(e, inside, pets, mobs)
    <3>1. e[1] = "spawn" /\ e[2] = s
      BY <2>3
    <3> QED
      BY <2>3, <3>1 DEF True
  <2> QED
    BY <1>1, <2>1, <2>2, <2>3
<1>3. \A p \in Players : inside[p] # None =>
          /\ <<"player", p, inside[p].tile>> \in Shown(inside, pets, mobs)
          /\ \A t : <<"player", p, t>> \in Shown(inside, pets, mobs) => t = inside[p].tile
  BY DEF Shown
<1> QED
  BY <1>2, <1>3

\* The last packet of the queue shows nothing but what the zone has, and the player.
Fresh(p, queue, inside, pets, mobs) ==
    /\ queue \in Queues /\ queue # <<>>
    /\ \E shown \in SUBSET Shown(inside, pets, mobs) :
           /\ queue[Len(queue)] = Snapshot(shown)
           /\ <<"player", p, inside[p].tile>> \in shown

\* Such a queue shows the zone, whatever there was before.
LEMMA FreshShows ==
    ASSUME NEW inside \in Insides, NEW pets \in Pets, NEW mobs \in Mobs,
           NEW p \in Players, inside[p] # None,
           NEW queue, Fresh(p, queue, inside, pets, mobs), NEW c
    PROVE  /\ Picture(queue, c, inside, pets, mobs)
           /\ Place(p, queue, c, inside[p].tile)
<1>1. PICK shown \in SUBSET Shown(inside, pets, mobs) :
          /\ queue[Len(queue)] = Snapshot(shown)
          /\ <<"player", p, inside[p].tile>> \in shown
  BY DEF Fresh
<1>2. /\ queue \in Queues /\ Len(queue) \in Nat \ {0}
      /\ DOMAIN queue = 1 .. Len(queue)
  BY DEF Fresh, Queues
<1>3. queue[Len(queue)].kind = "EntitySnapshot" /\ queue[Len(queue)].shown = shown
  BY <1>1 DEF Snapshot
<1>4. inside[p].tile \in Street
  BY DEF Insides, Entities
<1>5. Len(queue) \in ShownIn(queue) /\ Len(queue) \in OwnIn(p, queue)
  BY <1>1, <1>2, <1>3, <1>4 DEF ShownIn, OwnIn, Places, Own
<1>6. \A i \in DOMAIN queue : Last(i, ShownIn(queue)) \/ Last(i, OwnIn(p, queue)) => i = Len(queue)
  BY <1>2, <1>5 DEF Last
<1>7. Truthful(shown, inside, pets, mobs)
  BY ShownIsTrue DEF Truthful
<1>8. \A t \in Street : <<"player", p, t>> \in shown => t = inside[p].tile
  BY ShownIsTrue
<1>9. \A i \in PlacedIn(queue) : ~ (Len(queue) < i)
  BY <1>2 DEF PlacedIn, Places
<1>10. \A i \in PlacedIn(queue) : i \in 1 .. Len(queue) /\ i # Len(queue)
  BY <1>2, <1>3, KindsApart DEF PlacedIn, Places
<1> QED
  BY <1>2, <1>3, <1>5, <1>6, <1>7, <1>8, <1>10 DEF Picture, Place

\* A zone that has all that another one has, where that had it.
StillTrue(inside, pets, mobs, inside2, pets2, mobs2) ==
    /\ \A q \in Players : inside[q] # None =>
           inside2[q] # None /\ (inside2[q].connected => inside[q].connected
                                                         /\ inside2[q].tile = inside[q].tile)
    /\ \A q \in Players : pets2[q] = pets[q]
    /\ \A s \in Spawns : mobs[s] = "active" => mobs2[s] = "active"

\* A snapshot stays true in it.
LEMMA StillTruthful ==
    ASSUME NEW inside, NEW pets, NEW mobs, NEW inside2, NEW pets2, NEW mobs2,
           StillTrue(inside, pets, mobs, inside2, pets2, mobs2),
           NEW shown \in SUBSET Elements, Truthful(shown, inside, pets, mobs)
    PROVE  Truthful(shown, inside2, pets2, mobs2)
<1> SUFFICES ASSUME NEW e \in shown PROVE True(e, inside2, pets2, mobs2)
  BY DEF Truthful
<1>1. True(e, inside, pets, mobs)
  BY DEF Truthful
<1>2. CASE e[1] = "player"
  <2>1. e[2] \in Players
    BY <1>2 DEF Elements
  <2> QED
    BY <1>1, <1>2, <2>1 DEF True, StillTrue
<1>3. CASE e[1] = "companion"
  <2>1. e[2] \in Players
    BY <1>3 DEF Elements
  <2> QED
    BY <1>1, <1>3, <2>1 DEF True, StillTrue
<1>4. CASE e[1] = "spawn"
  <2>1. e[2] \in Spawns
    BY <1>4 DEF Elements
  <2> QED
    BY <1>1, <1>4, <2>1 DEF True, StillTrue
<1>5. e[1] \in {"player", "companion", "spawn"}
  BY DEF Elements
<1> QED
  BY <1>2, <1>3, <1>4, <1>5

\* So does what is under way to a client, and what the client shows.
LEMMA PictureStays ==
    ASSUME NEW inside, NEW pets, NEW mobs, NEW inside2, NEW pets2, NEW mobs2,
           StillTrue(inside, pets, mobs, inside2, pets2, mobs2),
           NEW queue \in Queues, NEW c \in Clients, Picture(queue, c, inside, pets, mobs)
    PROVE  Picture(queue, c, inside2, pets2, mobs2)
<1>1. Behind(c) \in SUBSET Elements
  BY DEF Behind, Clients
<1>2. \A i \in ShownIn(queue) : queue[i].shown \in SUBSET Elements
  <2>1. \A i \in ShownIn(queue) : queue[i] \in Packets /\ queue[i].kind = "EntitySnapshot"
    BY DEF ShownIn, Places, Queues
  <2>2. \A i \in ShownIn(queue) : queue[i] \in Snapshots
    BY <2>1, PacketKinds
  <2> QED
    BY <2>2 DEF Snapshots
<1>3. ShownIn(queue) = {} /\ "snapshot" \notin c.missed =>
          Truthful(Behind(c), inside2, pets2, mobs2)
  BY <1>1, StillTruthful DEF Picture
<1>4. \A i \in DOMAIN queue :
          Last(i, ShownIn(queue)) => Truthful(queue[i].shown, inside2, pets2, mobs2)
  BY <1>2, StillTruthful DEF Picture, Last
<1> QED
  BY <1>3, <1>4 DEF Picture
-----------------------------------------------------------------------------
(* A packet is read *)

\* The last of some places is still the last when all of them move up by one.
LEMMA MovedUp ==
    ASSUME NEW S \in SUBSET (Nat \ {0}), NEW T \in SUBSET (Nat \ {0}),
           \A i \in Nat : i \in T <=> i # 0 /\ i + 1 \in S
    PROVE  /\ \A i : Last(i, T) => i \in Nat /\ Last(i + 1, S)
           /\ T = {} => S = {} \/ Last(1, S)
<1>1. \A j \in S : j = 1 \/ j - 1 \in T
  BY SMT
<1>2. \A i : Last(i, T) => i \in Nat /\ Last(i + 1, S)
  <2> SUFFICES ASSUME NEW i, Last(i, T) PROVE i \in Nat /\ Last(i + 1, S)
    OBVIOUS
  <2>1. i \in Nat \ {0} /\ i + 1 \in S
    BY DEF Last
  <2>2. ASSUME NEW j \in S PROVE j <= i + 1
    BY <1>1, <2>1, <2>2 DEF Last
  <2> QED
    BY <2>1, <2>2 DEF Last
<1>3. T = {} => S = {} \/ Last(1, S)
  BY <1>1 DEF Last
<1> QED
  BY <1>2, <1>3

\* What a client does with a packet, as far as the fight, the zone and its own tile go: it
\* takes what the packet says, or remembers that it has missed it.
Takes(p, c, x, c2, fighting) ==
    /\ x.kind \in FightKinds => "fight" \in c2.missed \/ (c2.window <=> x.kind = "CombatStart")
    /\ x.kind \notin FightKinds =>
           /\ "fight" \in c.missed => "fight" \in c2.missed
           /\ c2.window = c.window \/ c2.window = fighting
    /\ x.kind = "EntitySnapshot" =>
           /\ "snapshot" \in c2.missed \/ Behind(c2) = x.shown
           /\ IF Own(p, x.shown)
              THEN \/ "snapshot" \in c2.missed
                   \/ c2.tile \in Street /\ <<"player", p, c2.tile>> \in x.shown
              ELSE c2.tile = c.tile
    /\ x.kind # "EntitySnapshot" =>
           /\ "snapshot" \in c.missed => "snapshot" \in c2.missed
           /\ Behind(c2) = Behind(c)
           /\ c2.tile = c.tile \/ (x.kind \in Placing /\ x.ok /\ c2.tile = x.tile)

\* The fights that are still to be read say how it is, as they did.
LEMMA ReadTold ==
    ASSUME NEW p, NEW queue \in Queues, queue # <<>>, NEW c \in Clients, NEW c2 \in Clients,
           NEW fighting \in BOOLEAN, Takes(p, c, Head(queue), c2, fighting),
           Told(queue, c, fighting)
    PROVE  Told(Tail(queue), c2, fighting)
<1>1. /\ FightsIn(queue) \in SUBSET (Nat \ {0}) /\ FightsIn(Tail(queue)) \in SUBSET (Nat \ {0})
      /\ \A i \in Nat : i \in FightsIn(Tail(queue)) <=> i # 0 /\ i + 1 \in FightsIn(queue)
      /\ 1 \in FightsIn(queue) <=> Head(queue).kind \in FightKinds
      /\ Head(queue) = queue[1]
      /\ \A i \in DOMAIN Tail(queue) : Tail(queue)[i] = queue[i + 1]
      /\ DOMAIN queue = 1 .. Len(queue) /\ DOMAIN Tail(queue) = 1 .. Len(queue) - 1
      /\ Len(queue) \in Nat \ {0}
  BY TailPlaces DEF FightsIn
<1>2. /\ \A i : Last(i, FightsIn(Tail(queue))) => i \in Nat /\ Last(i + 1, FightsIn(queue))
      /\ FightsIn(Tail(queue)) = {} => FightsIn(queue) = {} \/ Last(1, FightsIn(queue))
  BY <1>1, MovedUp
<1>3. \A i \in DOMAIN Tail(queue) :
          Last(i, FightsIn(Tail(queue))) => (fighting <=> Tail(queue)[i].kind = "CombatStart")
  <2> SUFFICES ASSUME NEW i \in DOMAIN Tail(queue), Last(i, FightsIn(Tail(queue)))
               PROVE  fighting <=> queue[i + 1].kind = "CombatStart"
    BY <1>1
  <2>1. i + 1 \in DOMAIN queue
    BY <1>1
  <2> QED
    BY <1>2, <2>1 DEF Told
<1>4. ASSUME FightsIn(Tail(queue)) = {}, "fight" \notin c2.missed PROVE c2.window = fighting
  <2>1. CASE Head(queue).kind \in FightKinds
    <3>1. Last(1, FightsIn(queue)) /\ 1 \in DOMAIN queue
      BY <1>1, <1>2, <1>4, <2>1
    <3>2. fighting <=> Head(queue).kind = "CombatStart"
      BY <1>1, <3>1 DEF Told
    <3>3. c2.window <=> Head(queue).kind = "CombatStart"
      BY <1>4, <2>1 DEF Takes
    <3>4. c2.window \in BOOLEAN
      BY DEF Clients
    <3> QED
      BY <3>2, <3>3, <3>4
  <2>2. CASE Head(queue).kind \notin FightKinds
    <3>1. FightsIn(queue) = {}
      BY <1>1, <1>2, <1>4, <2>2 DEF Last
    <3> QED
      BY <1>4, <2>2, <3>1 DEF Takes, Told
  <2> QED
    BY <2>1, <2>2
<1> QED
  BY <1>3, <1>4 DEF Told

\* So do the snapshots that are still to be read of the zone,
LEMMA ReadPicture ==
    ASSUME NEW p, NEW queue \in Queues, queue # <<>>, NEW c, NEW c2,
           NEW fighting, Takes(p, c, Head(queue), c2, fighting),
           NEW inside, NEW pets, NEW mobs, Picture(queue, c, inside, pets, mobs)
    PROVE  Picture(Tail(queue), c2, inside, pets, mobs)
<1>1. /\ ShownIn(queue) \in SUBSET (Nat \ {0}) /\ ShownIn(Tail(queue)) \in SUBSET (Nat \ {0})
      /\ \A i \in Nat : i \in ShownIn(Tail(queue)) <=> i # 0 /\ i + 1 \in ShownIn(queue)
      /\ 1 \in ShownIn(queue) <=> Head(queue).kind = "EntitySnapshot"
      /\ Head(queue) = queue[1]
      /\ \A i \in DOMAIN Tail(queue) : Tail(queue)[i] = queue[i + 1]
      /\ DOMAIN queue = 1 .. Len(queue) /\ DOMAIN Tail(queue) = 1 .. Len(queue) - 1
      /\ Len(queue) \in Nat \ {0}
  BY TailPlaces DEF ShownIn
<1>2. /\ \A i : Last(i, ShownIn(Tail(queue))) => i \in Nat /\ Last(i + 1, ShownIn(queue))
      /\ ShownIn(Tail(queue)) = {} => ShownIn(queue) = {} \/ Last(1, ShownIn(queue))
  BY <1>1, MovedUp
<1>3. \A i \in DOMAIN Tail(queue) :
          Last(i, ShownIn(Tail(queue))) => Truthful(Tail(queue)[i].shown, inside, pets, mobs)
  <2> SUFFICES ASSUME NEW i \in DOMAIN Tail(queue), Last(i, ShownIn(Tail(queue)))
               PROVE  Truthful(queue[i + 1].shown, inside, pets, mobs)
    BY <1>1
  <2>1. i + 1 \in DOMAIN queue
    BY <1>1
  <2> QED
    BY <1>2, <2>1 DEF Picture
<1>4. ASSUME ShownIn(Tail(queue)) = {}, "snapshot" \notin c2.missed
      PROVE  Truthful(Behind(c2), inside, pets, mobs)
  <2>1. CASE Head(queue).kind = "EntitySnapshot"
    <3>1. Last(1, ShownIn(queue)) /\ 1 \in DOMAIN queue
      BY <1>1, <1>2, <1>4, <2>1
    <3>2. Truthful(Head(queue).shown, inside, pets, mobs)
      BY <1>1, <3>1 DEF Picture
    <3> QED
      BY <1>4, <2>1, <3>2 DEF Takes
  <2>2. CASE Head(queue).kind # "EntitySnapshot"
    <3>1. ShownIn(queue) = {}
      BY <1>1, <1>2, <1>4, <2>2 DEF Last
    <3> QED
      BY <1>4, <2>2, <3>1 DEF Takes, Picture
  <2> QED
    BY <2>1, <2>2
<1> QED
  BY <1>3, <1>4 DEF Picture

\* The places of a player's own snapshots and of the answers that place him move up as well.
LEMMA TailOwn ==
    ASSUME NEW p, NEW queue \in Queues, queue # <<>>
    PROVE  /\ OwnIn(p, queue) \in SUBSET (Nat \ {0}) /\ OwnIn(p, Tail(queue)) \in SUBSET (Nat \ {0})
           /\ \A i \in Nat : i \in OwnIn(p, Tail(queue)) <=> i # 0 /\ i + 1 \in OwnIn(p, queue)
           /\ \A i \in PlacedIn(Tail(queue)) : i \in Nat \ {0} /\ i + 1 \in PlacedIn(queue)
           /\ 1 \in OwnIn(p, queue) <=> Head(queue).kind = "EntitySnapshot"
                                          /\ Own(p, Head(queue).shown)
           /\ 1 \in PlacedIn(queue) <=> Head(queue).kind \in Placing /\ Head(queue).ok
<1>1. \A kinds :
      /\ Places(queue, kinds) \in SUBSET (Nat \ {0})
      /\ Places(Tail(queue), kinds) \in SUBSET (Nat \ {0})
      /\ \A i \in Nat : i \in Places(Tail(queue), kinds) <=> i # 0 /\ i + 1 \in Places(queue, kinds)
      /\ 1 \in Places(queue, kinds) <=> Head(queue).kind \in kinds
  BY TailPlaces
<1>2. /\ Head(queue) = queue[1]
      /\ \A i \in DOMAIN Tail(queue) : Tail(queue)[i] = queue[i + 1]
  BY TailPlaces
<1>3. \A i \in ShownIn(Tail(queue)) : Tail(queue)[i] = queue[i + 1]
  BY <1>2 DEF ShownIn, Places
<1>4. \A i \in Places(Tail(queue), Placing) : Tail(queue)[i] = queue[i + 1]
  BY <1>2 DEF Places
<1>5. /\ OwnIn(p, queue) \in SUBSET (Nat \ {0}) /\ OwnIn(p, Tail(queue)) \in SUBSET (Nat \ {0})
      /\ 1 \in OwnIn(p, queue) <=> Head(queue).kind = "EntitySnapshot"
                                     /\ Own(p, Head(queue).shown)
  BY <1>1, <1>2 DEF OwnIn, ShownIn
<1>6. /\ \A i \in PlacedIn(Tail(queue)) : i \in Nat \ {0} /\ i + 1 \in PlacedIn(queue)
      /\ 1 \in PlacedIn(queue) <=> Head(queue).kind \in Placing /\ Head(queue).ok
  BY <1>1, <1>2, <1>4 DEF PlacedIn
<1>7. \A i \in Nat : i \in OwnIn(p, Tail(queue)) <=> i # 0 /\ i + 1 \in OwnIn(p, queue)
  BY <1>1, <1>3 DEF OwnIn, ShownIn
<1> QED
  BY <1>5, <1>6, <1>7

\* and they and the answers of the player's own tile.
LEMMA ReadPlace ==
    ASSUME NEW p, NEW queue \in Queues, queue # <<>>, NEW c, NEW c2, NEW fighting,
           Takes(p, c, Head(queue), c2, fighting),
           Head(queue).kind = "EntitySnapshot" /\ ~ Own(p, Head(queue).shown)
               => "snapshot" \notin c.missed,
           NEW tile, Place(p, queue, c, tile)
    PROVE  Place(p, Tail(queue), c2, tile)
<1>1. /\ OwnIn(p, queue) \in SUBSET (Nat \ {0}) /\ OwnIn(p, Tail(queue)) \in SUBSET (Nat \ {0})
      /\ \A i \in Nat : i \in OwnIn(p, Tail(queue)) <=> i # 0 /\ i + 1 \in OwnIn(p, queue)
      /\ \A i \in PlacedIn(Tail(queue)) : i \in Nat \ {0} /\ i + 1 \in PlacedIn(queue)
      /\ 1 \in OwnIn(p, queue) <=> Head(queue).kind = "EntitySnapshot"
                                     /\ Own(p, Head(queue).shown)
      /\ 1 \in PlacedIn(queue) <=> Head(queue).kind \in Placing /\ Head(queue).ok
  BY TailOwn
<1>2. /\ Head(queue) = queue[1]
      /\ \A i \in DOMAIN Tail(queue) : Tail(queue)[i] = queue[i + 1] /\ i + 1 \in DOMAIN queue
      /\ 1 \in DOMAIN queue
  BY TailPlaces
<1>3. /\ \A i : Last(i, OwnIn(p, Tail(queue))) => i \in Nat /\ Last(i + 1, OwnIn(p, queue))
      /\ OwnIn(p, Tail(queue)) = {} => OwnIn(p, queue) = {} \/ Last(1, OwnIn(p, queue))
  BY <1>1, MovedUp
<1>4. \A i \in DOMAIN Tail(queue) :
          Last(i, OwnIn(p, Tail(queue))) =>
              \A t \in Street : <<"player", p, t>> \in Tail(queue)[i].shown => t = tile
  BY <1>2, <1>3 DEF Place
<1>5. ASSUME NEW i \in PlacedIn(Tail(queue)), \A j \in OwnIn(p, Tail(queue)) : j < i
      PROVE  Tail(queue)[i].tile = tile
  <2>1. i \in DOMAIN Tail(queue)
    BY DEF PlacedIn, Places
  <2>2. \A j \in OwnIn(p, queue) : j = 1 \/ j - 1 \in OwnIn(p, Tail(queue))
    BY <1>1
  <2>3. i \in Nat \ {0} /\ i + 1 \in PlacedIn(queue)
    BY <1>1
  <2>4. \A j \in OwnIn(p, queue) : j < i + 1
    BY <1>1, <1>5, <2>2, <2>3
  <2> QED
    BY <1>2, <2>1, <2>3, <2>4 DEF Place
<1>6. ASSUME OwnIn(p, Tail(queue)) = {}, "snapshot" \notin c2.missed PROVE c2.tile = tile
  <2>1. CASE Head(queue).kind = "EntitySnapshot" /\ Own(p, Head(queue).shown)
    <3>1. Last(1, OwnIn(p, queue))
      BY <1>1, <1>3, <1>6, <2>1
    <3>2. \A t \in Street : <<"player", p, t>> \in Head(queue).shown => t = tile
      BY <1>2, <3>1 DEF Place
    <3> QED
      BY <1>6, <2>1, <3>2 DEF Takes
  <2>2. CASE ~ (Head(queue).kind = "EntitySnapshot" /\ Own(p, Head(queue).shown))
    <3>1. OwnIn(p, queue) = {}
      BY <1>1, <1>3, <1>6, <2>2 DEF Last
    <3>2. "snapshot" \notin c.missed
      BY <1>6, <2>2 DEF Takes
    <3>3. c.tile = tile
      BY <3>1, <3>2 DEF Place
    <3>4. Head(queue).kind \in Placing /\ Head(queue).ok => Head(queue).tile = tile
      BY <1>1, <1>2, <3>1 DEF Place
    <3> QED
      BY <2>2, <3>3, <3>4 DEF Takes
  <2> QED
    BY <2>1, <2>2
<1> QED
  BY <1>4, <1>5, <1>6 DEF Place

\* Reading keeps the order, and the tiles are the last packet that changes it.
LEMMA ReadOrdered ==
    ASSUME NEW p, NEW queue \in Queues, queue # <<>>
    PROVE  /\ \A phase : Ordered(p, queue, phase) => Ordered(p, Tail(queue), phase)
           /\ Ordered(p, queue, "resuming") => Ordered(p, Tail(queue), "draining")
           /\ Ordered(p, queue, "tiles") /\ Head(queue).kind = "ZoneTileGrid"
                  => Ordered(p, Tail(queue), "in")
<1>1. /\ \A i \in Nat : i \in OwnIn(p, Tail(queue)) <=> i # 0 /\ i + 1 \in OwnIn(p, queue)
      /\ OwnIn(p, Tail(queue)) \subseteq Nat \ {0}
  BY TailOwn
<1>2. \A kinds :
      /\ Places(Tail(queue), kinds) \subseteq Nat \ {0}
      /\ \A i \in Nat : i \in Places(Tail(queue), kinds) <=> i # 0 /\ i + 1 \in Places(queue, kinds)
      /\ 1 \in Places(queue, kinds) <=> Head(queue).kind \in kinds
  BY TailPlaces
<1>3. \A i \in ShownIn(Tail(queue)) : i \in Nat \ {0} /\ i + 1 \in ShownIn(queue)
  BY <1>2 DEF ShownIn
<1>4. \A i \in GridsIn(Tail(queue)) : i \in Nat \ {0} /\ i + 1 \in GridsIn(queue)
  BY <1>2 DEF GridsIn
<1>5. \A i \in ShownIn(Tail(queue)) : i + 1 \in OwnIn(p, queue) => i \in OwnIn(p, Tail(queue))
  BY <1>1, <1>3
<1>6. ASSUME NEW phase, Ordered(p, queue, phase) PROVE Ordered(p, Tail(queue), phase)
  <2>1. phase \in {"resuming", "draining"} => GridsIn(Tail(queue)) = {}
    BY <1>4, <1>6 DEF Ordered
  <2>2. phase = "in" => ShownIn(Tail(queue)) \subseteq OwnIn(p, Tail(queue))
    BY <1>3, <1>5, <1>6 DEF Ordered
  <2>3. ASSUME phase = "tiles", NEW i \in ShownIn(Tail(queue)), NEW j \in GridsIn(Tail(queue))
        PROVE  i \in OwnIn(p, Tail(queue)) \/ i < j
    <3>1. i \in Nat /\ j \in Nat
      BY <1>3, <1>4
    <3>2. i + 1 \in OwnIn(p, queue) \/ i + 1 < j + 1
      BY <1>3, <1>4, <1>6, <2>3 DEF Ordered
    <3> QED
      BY <1>5, <3>1, <3>2
  <2> QED
    BY <2>1, <2>2, <2>3 DEF Ordered
<1>7. Ordered(p, queue, "resuming") => Ordered(p, Tail(queue), "draining")
  BY <1>4 DEF Ordered
<1>8. ASSUME Ordered(p, queue, "tiles"), Head(queue).kind = "ZoneTileGrid"
      PROVE  Ordered(p, Tail(queue), "in")
  <2>1. 1 \in GridsIn(queue)
    BY <1>2, <1>8 DEF GridsIn
  <2>2. \A i \in ShownIn(Tail(queue)) : i + 1 \in OwnIn(p, queue) \/ i + 1 < 1
    BY <1>3, <1>8, <2>1 DEF Ordered
  <2> QED
    BY <1>3, <1>5, <2>2 DEF Ordered
<1> QED
  BY <1>6, <1>7, <1>8
-----------------------------------------------------------------------------
(* What a client does with a packet *)

\* A packet that places the player names a tile of the street.
LEMMA PlacingTyped ==
    ASSUME NEW x \in Packets, x.kind \in Placing
    PROVE  x.ok \in BOOLEAN /\ x.tile \in Tiles /\ (x.ok => x.tile \in Street)
<1>1. x \in AnswerPackets
  BY PacketKinds, KindsApart
<1> QED
  BY <1>1 DEF AnswerPackets

\* A snapshot is a set of elements.
LEMMA SnapshotTyped ==
    ASSUME NEW x \in Packets, x.kind = "EntitySnapshot"
    PROVE  x.shown \in SUBSET Elements
<1>1. x \in Snapshots
  BY PacketKinds
<1> QED
  BY <1>1 DEF Snapshots

\* The tile a client takes from a snapshot is one the snapshot has for it.
LEMMA OwnTileShown ==
    ASSUME NEW p \in Players, NEW shown \in SUBSET Elements, NEW tile
    PROVE  IF Own(p, shown)
           THEN /\ OwnTile(p, shown, tile) \in Street
                /\ <<"player", p, OwnTile(p, shown, tile)>> \in shown
           ELSE OwnTile(p, shown, tile) = tile
<1> DEFINE own == {t \in Tiles : <<"player", p, t>> \in shown}
<1>1. OwnTile(p, shown, tile) = IF own = {} THEN tile ELSE CHOOSE t \in own : TRUE
  BY DEF OwnTile
<1>2. \A t : <<"player", p, t>> \in shown => t \in Street
  <2> SUFFICES ASSUME NEW t, <<"player", p, t>> \in shown PROVE t \in Street
    OBVIOUS
  <2>1. <<"player", p, t>> \in Elements
    OBVIOUS
  <2>2. <<"player", p, t>> \notin {"spawn"} \X Spawns \X Tiles
    OBVIOUS
  <2> QED
    BY <2>1, <2>2 DEF Elements
<1>3. \A t \in own : t \in Street /\ <<"player", p, t>> \in shown
  BY <1>2
<1>4. Own(p, shown) <=> own # {}
  BY <1>2 DEF Own, Street
<1> HIDE DEF own
<1>5. CASE own = {}
  BY <1>1, <1>4, <1>5
<1>6. CASE own # {}
  <2>1. (CHOOSE t \in own : TRUE) \in own
    BY <1>6
  <2> QED
    BY <1>1, <1>3, <1>4, <1>6, <2>1
<1> QED
  BY <1>5, <1>6

\* queueEntitySnapshot
LEMMA QueuedTakes ==
    ASSUME NEW p \in Players, NEW c \in Clients, NEW x \in Packets, x.kind = "EntitySnapshot"
    PROVE  /\ Queued(p, c, x) \in Clients
           /\ Queued(p, c, x).phase = c.phase
           /\ Queued(p, c, x).got = c.got
           /\ Queued(p, c, x).call = c.call
           /\ Queued(p, c, x).missed = c.missed \ {"snapshot"}
           /\ c.tile \in Street => Queued(p, c, x).tile \in Street
           /\ \A fighting : Takes(p, c, x, Queued(p, c, x), fighting)
<1> DEFINE d == Queued(p, c, x)
<1>1. x.shown \in SUBSET Elements
  BY SnapshotTyped
<1>2. /\ c.queue \in Seq(SUBSET Elements) /\ c.missed \in SUBSET {"snapshot", "fight"}
      /\ c.tile \in Tiles
  BY DEF Clients
<1> DEFINE queue == IF c.queue # <<>> /\ c.queue[Len(c.queue)] = x.shown THEN c.queue
                    ELSE Append(c.queue, x.shown)
           tile == OwnTile(p, x.shown, c.tile)
<1>3. d = [c EXCEPT !.queue = queue, !.tile = tile, !.missed = c.missed \ {"snapshot"}]
  BY DEF Queued
<1>4. queue \in Seq(SUBSET Elements) /\ queue # <<>> /\ queue[Len(queue)] = x.shown
  <2>1. /\ Append(c.queue, x.shown) \in Seq(SUBSET Elements)
        /\ Append(c.queue, x.shown) # <<>>
        /\ Len(Append(c.queue, x.shown)) = Len(c.queue) + 1
        /\ Append(c.queue, x.shown)[Len(c.queue) + 1] = x.shown
    BY <1>1, <1>2, AppendProperties
  <2> QED
    BY <1>2, <2>1
<1>6. IF Own(p, x.shown) THEN tile \in Street /\ <<"player", p, tile>> \in x.shown
      ELSE tile = c.tile
  BY <1>1, OwnTileShown
<1>7. tile \in Tiles
  BY <1>2, <1>6 DEF Street
<1> HIDE DEF queue, tile
<1>8. /\ d.phase = c.phase /\ d.got = c.got /\ d.call = c.call /\ d.view = c.view
      /\ d.window = c.window /\ d.missed = c.missed \ {"snapshot"}
      /\ d.tile = tile /\ d.queue = queue
  BY <1>3 DEF Clients
<1>10. d \in Clients
  <2>1. d = [phase |-> c.phase, got |-> c.got, call |-> c.call, tile |-> tile, queue |-> queue,
             view |-> c.view, window |-> c.window, missed |-> c.missed \ {"snapshot"}]
    BY <1>3 DEF Clients
  <2>2. /\ c.phase \in Phases /\ c.got \in SUBSET {"SessionResumeResponse", "ZoneSnapshot"}
        /\ c.call \in {None} \cup Calling /\ c.view \in SUBSET Elements /\ c.window \in BOOLEAN
        /\ c.missed \ {"snapshot"} \in SUBSET {"snapshot", "fight"}
    BY DEF Clients
  <2> QED
    BY <1>4, <1>7, <2>1, <2>2 DEF Clients
<1> HIDE DEF d
<1>11. Behind(d) = x.shown
  BY <1>4, <1>8 DEF Behind
<1>12. x.kind \notin FightKinds
  BY KindsApart
<1>13. \A fighting : Takes(p, c, x, d, fighting)
  BY <1>6, <1>8, <1>11, <1>12 DEF Takes
<1> QED
  BY <1>6, <1>8, <1>10, <1>13 DEF d

\* A wait that throws a packet away.
LEMMA DiscardedTakes ==
    ASSUME NEW p \in Players, NEW c \in Clients, NEW x \in Packets
    PROVE  /\ Discarded(c, x) \in Clients
           /\ Discarded(c, x).phase = c.phase
           /\ Discarded(c, x).got = c.got
           /\ Discarded(c, x).call = c.call
           /\ Discarded(c, x).tile = c.tile
           /\ x.kind # "EntitySnapshot" /\ "snapshot" \notin c.missed
                  => "snapshot" \notin Discarded(c, x).missed
           /\ x.kind # "EntitySnapshot" \/ Own(p, x.shown) =>
                  \A fighting : Takes(p, c, x, Discarded(c, x), fighting)
<1> DEFINE d == Discarded(c, x)
           more == CASE x.kind = "EntitySnapshot" -> {"snapshot"}
                     [] x.kind \in {"CombatStart", "CombatEnd"} -> {"fight"}
                     [] OTHER -> {}
<1>1. d = [c EXCEPT !.missed = c.missed \cup more]
  BY DEF Discarded
<1>2. c.missed \in SUBSET {"snapshot", "fight"}
  BY DEF Clients
<1>3. /\ more \in SUBSET {"snapshot", "fight"}
      /\ x.kind = "EntitySnapshot" <=> "snapshot" \in more
      /\ x.kind \in FightKinds <=> "fight" \in more
  BY DEF FightKinds
<1> HIDE DEF more
<1>4. /\ d \in Clients
      /\ d.phase = c.phase /\ d.got = c.got /\ d.call = c.call /\ d.view = c.view
      /\ d.window = c.window /\ d.tile = c.tile /\ d.queue = c.queue
      /\ d.missed = c.missed \cup more
  BY <1>1, <1>2, <1>3 DEF Clients
<1> HIDE DEF d
<1>5. ASSUME x.kind # "EntitySnapshot" \/ Own(p, x.shown), NEW fighting
      PROVE  Takes(p, c, x, d, fighting)
  BY <1>3, <1>4, <1>5 DEF Takes, Behind
<1> QED
  BY <1>3, <1>4, <1>5 DEF d

\* dispatchGameplayPacket
LEMMA DispatchedTakes ==
    ASSUME NEW p \in Players, NEW c \in Clients, NEW x \in Packets
    PROVE  /\ Dispatched(p, c, x) \in Clients
           /\ Dispatched(p, c, x).phase = c.phase
           /\ Dispatched(p, c, x).got = c.got
           /\ Dispatched(p, c, x).call = c.call
           /\ c.tile \in Street => Dispatched(p, c, x).tile \in Street
           /\ \A fighting : Takes(p, c, x, Dispatched(p, c, x), fighting)
<1>1. CASE x.kind = "EntitySnapshot"
  <2>1. Dispatched(p, c, x) = Queued(p, c, x)
    BY <1>1 DEF Dispatched
  <2> QED
    BY <1>1, <2>1, QueuedTakes
<1>2. CASE x.kind \in FightKinds
  <2> DEFINE d == [c EXCEPT !.window = (x.kind = "CombatStart"), !.missed = c.missed \ {"fight"}]
  <2>1. Dispatched(p, c, x) = d
    BY <1>2 DEF Dispatched, FightKinds
  <2>2. /\ d \in Clients
        /\ d.phase = c.phase /\ d.got = c.got /\ d.call = c.call /\ d.view = c.view
        /\ d.window = (x.kind = "CombatStart") /\ d.tile = c.tile /\ d.queue = c.queue
        /\ d.missed = c.missed \ {"fight"}
    BY DEF Clients
  <2> HIDE DEF d
  <2>3. x.kind # "EntitySnapshot"
    BY <1>2, KindsApart
  <2>4. \A fighting : Takes(p, c, x, d, fighting)
    BY <1>2, <2>2, <2>3 DEF Takes, Behind
  <2> QED
    BY <2>1, <2>2, <2>4
<1>3. CASE x.kind = "PlayerCommandResult" /\ x.ok
  <2> DEFINE d == [c EXCEPT !.tile = x.tile]
  <2>1. Dispatched(p, c, x) = d
    BY <1>3 DEF Dispatched
  <2>2. x.tile \in Tiles /\ x.tile \in Street /\ x.kind \in Placing
    BY <1>3, PlacingTyped DEF Placing
  <2>3. /\ d \in Clients
        /\ d.phase = c.phase /\ d.got = c.got /\ d.call = c.call /\ d.view = c.view
        /\ d.window = c.window /\ d.tile = x.tile /\ d.queue = c.queue /\ d.missed = c.missed
    BY <2>2 DEF Clients
  <2> HIDE DEF d
  <2>4. x.kind \notin FightKinds /\ x.kind # "EntitySnapshot"
    BY <1>3 DEF FightKinds
  <2>5. \A fighting : Takes(p, c, x, d, fighting)
    BY <1>3, <2>2, <2>3, <2>4 DEF Takes, Behind
  <2> QED
    BY <2>1, <2>2, <2>3, <2>5
<1>4. CASE /\ x.kind # "EntitySnapshot" /\ x.kind \notin FightKinds
           /\ ~ (x.kind = "PlayerCommandResult" /\ x.ok)
  <2>1. Dispatched(p, c, x) = c
    BY <1>4 DEF Dispatched, FightKinds
  <2>2. \A fighting : Takes(p, c, x, c, fighting)
    BY <1>4 DEF Takes
  <2> QED
    BY <2>1, <2>2
<1> QED
  BY <1>1, <1>2, <1>3, <1>4

\* What the waits of a login do, and those of the calls.
LEMMA AtLoginTakes ==
    ASSUME NEW p \in Players, NEW c \in Clients, NEW x \in Packets
    PROVE  /\ AtLogin(p, c, x) \in Clients
           /\ AtLogin(p, c, x).phase = c.phase
           /\ AtLogin(p, c, x).got = c.got
           /\ AtLogin(p, c, x).call = c.call
           /\ "snapshot" \notin c.missed => "snapshot" \notin AtLogin(p, c, x).missed
           /\ c.tile \in Street => AtLogin(p, c, x).tile \in Street
           /\ \A fighting : Takes(p, c, x, AtLogin(p, c, x), fighting)
<1>1. CASE x.kind = "EntitySnapshot"
  <2>1. AtLogin(p, c, x) = Queued(p, c, x)
    BY <1>1 DEF AtLogin
  <2> QED
    BY <1>1, <2>1, QueuedTakes
<1>2. CASE x.kind # "EntitySnapshot"
  <2>1. AtLogin(p, c, x) = Discarded(c, x)
    BY <1>2 DEF AtLogin
  <2> QED
    BY <1>2, <2>1, DiscardedTakes
<1> QED
  BY <1>1, <1>2

\* The wait of a call does with a packet what the client would do outside of it, or
\* throws it away (usePortal).
LEMMA HeardTakes ==
    ASSUME NEW p \in Players, NEW c \in Clients, NEW x \in Packets
    PROVE  /\ Heard(p, c, x) \in Clients
           /\ Heard(p, c, x).phase = c.phase
           /\ Heard(p, c, x).got = c.got
           /\ Heard(p, c, x).call = c.call
           /\ c.tile \in Street => Heard(p, c, x).tile \in Street
           /\ x.kind # "EntitySnapshot" \/ Own(p, x.shown) =>
                  \A fighting : Takes(p, c, x, Heard(p, c, x), fighting)
<1>1. CASE c.call = "portal"
  <2>1. Heard(p, c, x) = Discarded(c, x)
    BY <1>1 DEF Heard
  <2> QED
    BY <2>1, DiscardedTakes
<1>2. CASE c.call = "move" /\ x.kind = "MoveResult" /\ x.ok
  <2> DEFINE d == [c EXCEPT !.tile = x.tile]
  <2>1. Heard(p, c, x) = d
    BY <1>2 DEF Heard
  <2>2. x.tile \in Tiles /\ x.tile \in Street /\ x.kind \in Placing
    BY <1>2, PlacingTyped DEF Placing
  <2>3. /\ d \in Clients
        /\ d.phase = c.phase /\ d.got = c.got /\ d.call = c.call /\ d.view = c.view
        /\ d.window = c.window /\ d.tile = x.tile /\ d.queue = c.queue /\ d.missed = c.missed
    BY <2>2 DEF Clients
  <2> HIDE DEF d
  <2>4. x.kind \notin FightKinds /\ x.kind # "EntitySnapshot"
    BY <1>2 DEF FightKinds
  <2>5. \A fighting : Takes(p, c, x, d, fighting)
    BY <1>2, <2>2, <2>3, <2>4 DEF Takes, Behind
  <2> QED
    BY <2>1, <2>2, <2>3, <2>5
<1>3. CASE c.call = "move" /\ x.kind = "MoveResult" /\ ~ x.ok
  <2>1. Heard(p, c, x) = c
    BY <1>3 DEF Heard
  <2>2. x.kind \notin FightKinds /\ x.kind # "EntitySnapshot"
    BY <1>3 DEF FightKinds
  <2>3. \A fighting : Takes(p, c, x, c, fighting)
    BY <2>2 DEF Takes
  <2> QED
    BY <2>1, <2>3
<1>4. CASE c.call # "portal" /\ ~ (c.call = "move" /\ x.kind = "MoveResult")
  <2>1. Heard(p, c, x) = Dispatched(p, c, x)
    BY <1>4 DEF Heard
  <2> QED
    BY <2>1, DispatchedTakes
<1> QED
  BY <1>1, <1>2, <1>3, <1>4
-----------------------------------------------------------------------------
(* What the zone sends *)

Wires == [Players -> Queues]

\* A packet is sent to one player,
LEMMA SendAt ==
    ASSUME NEW out \in Wires, NEW inside, NEW p \in Players, NEW x \in Packets
    PROVE  /\ Send(out, inside, p, x) \in Wires
           /\ \A q \in Players : q # p => Send(out, inside, p, x)[q] = out[q]
           /\ Send(out, inside, p, x)[p] = IF Reachable(inside, p) THEN Post(out[p], x) ELSE out[p]
<1>1. out[p] \in Queues /\ Post(out[p], x) \in Queues
  BY PostCases DEF Wires
<1> QED
  BY <1>1 DEF Send, Wires

\* one is answered,
LEMMA RepliedAt ==
    ASSUME NEW out \in Wires, NEW p \in Players, NEW x \in Packets
    PROVE  /\ Replied(out, p, x) \in Wires
           /\ \A q \in Players : q # p => Replied(out, p, x)[q] = out[q]
           /\ Replied(out, p, x)[p] = Append(out[p], x)
<1>1. out[p] \in Queues /\ Append(out[p], x) \in Queues
  BY AppendPlaces DEF Wires
<1> QED
  BY <1>1 DEF Replied, Wires

\* and what was under way to him when he asked is late by then.
LEMMA AskedAt ==
    ASSUME wire \in Wires, NEW p \in Players
    PROVE  /\ Asked(p) \in Wires
           /\ \A q \in Players : q # p => Asked(p)[q] = wire[q]
           /\ Asked(p)[p] = Aged(wire[p])
<1>1. wire[p] \in Queues /\ Aged(wire[p]) \in Queues
  BY AgedPackets DEF Wires
<1> QED
  BY <1>1 DEF Asked, Wires

\* broadcastEntitySnapshot: who can be reached has the zone as the last thing he is shown.
LEMMA BroadcastAt ==
    ASSUME NEW out \in Wires, NEW inside \in Insides, NEW pets \in Pets, NEW mobs \in Mobs
    PROVE  /\ Broadcast(out, inside, pets, mobs) \in Wires
           /\ \A q \in Players :
                  LET new == Broadcast(out, inside, pets, mobs)[q]
                  IN  /\ ~ Reachable(inside, q) => new = out[q]
                      /\ Reachable(inside, q) => Fresh(q, new, inside, pets, mobs)
                      /\ Grow(q, out[q], new)
<1> DEFINE shown == Shown(inside, pets, mobs)
           x == Snapshot(shown)
<1>1. shown \in SUBSET Elements
  BY ShownTyped
<1>2. x \in Packets /\ x.kind = "EntitySnapshot" /\ x.shown = shown
  BY <1>1, PushTyped
<1>3. Broadcast(out, inside, pets, mobs) =
          [q \in Players |-> IF Reachable(inside, q) THEN Post(out[q], x) ELSE out[q]]
  BY DEF Broadcast
<1>4. \A q \in Players : Reachable(inside, q) => <<"player", q, inside[q].tile>> \in shown
  BY ShownIsTrue DEF Reachable
<1>5. \A q \in Players : Reachable(inside, q) => inside[q].tile \in Street
  BY DEF Reachable, Insides, Entities
<1> HIDE DEF x, shown
<1>6. ASSUME NEW q \in Players
      PROVE  /\ out[q] \in Queues /\ Post(out[q], x) \in Queues
             /\ Reachable(inside, q) => Grow(q, out[q], Post(out[q], x))
             /\ Reachable(inside, q) => Fresh(q, Post(out[q], x), inside, pets, mobs)
             /\ Grow(q, out[q], out[q])
  <2>1. out[q] \in Queues
    BY DEF Wires
  <2>2. /\ Post(out[q], x) \in Queues /\ Len(Post(out[q], x)) \in Nat \ {0}
        /\ Post(out[q], x)[Len(Post(out[q], x))] = x
    BY <1>2, <2>1, PostCases
  <2>3. Reachable(inside, q) => Pushable(q, x)
    BY <1>2, <1>4, <1>5 DEF Pushable, Own
  <2>4. Post(out[q], x) # <<>>
    BY <2>2 DEF Queues
  <2>5. Reachable(inside, q) => Fresh(q, Post(out[q], x), inside, pets, mobs)
    BY <1>4, <2>2, <2>4 DEF Fresh, x, shown
  <2> QED
    BY <1>2, <2>1, <2>2, <2>3, <2>5, GrowPost, GrowReflexive
<1> QED
  BY <1>3, <1>6 DEF Wires
-----------------------------------------------------------------------------
(* Handlers *)

ServerInv ==
    /\ players \in Insides
    /\ saved \in [Players -> Street]
    /\ companion \in Pets
    /\ spawns \in Mobs
    /\ fights \in [Players -> 0 .. MaxFights]
    /\ mapped \in SUBSET Players
    /\ transfers \in SUBSET Players
    /\ hangups \in SUBSET Players
    /\ wire \in Wires
    /\ \A p \in mapped : fights[p] > 0

ZoneStill == StillTrue(players, companion, spawns, players', companion', spawns')

\* What a step that is about one player does to another one and to its client.
Spared(q) ==
    /\ players'[q] = players[q]
    /\ q \in mapped' <=> q \in mapped
    /\ q \in transfers' <=> q \in transfers
    /\ q \in hangups' <=> q \in hangups
    /\ Grow(q, wire[q], wire'[q])
    /\ ~ Reachable(players, q) => wire'[q] = wire[q]
    /\ Reachable(players, q) =>
           \/ Fresh(q, wire'[q], players', companion', spawns')
           \/ /\ ZoneStill
              /\ wire'[q] = wire[q] \/ wire'[q] = Append(wire[q], [kind |-> "ChatDeliver"])

Others(p) == \A q \in Players \ {p} : Spared(q)

\* A client that is only told what the zone pushes goes on as before.
LEMMA SparedFollows ==
    ASSUME ServerInv, ServerInv', NEW q \in Players, client[q] \in Clients,
           Connection(q), Combat(q), Follows(q), Spared(q),
           client'[q] = client[q], crossing'[q] = crossing[q], timeouts' = 0 => timeouts = 0
    PROVE  Connection(q)' /\ Combat(q)' /\ Follows(q)'
<1>1. /\ wire[q] \in Queues
      /\ wire'[q] \in Queues
      /\ Grow(q, wire[q], wire'[q])
  BY DEF Spared, Grow, ServerInv, Wires
<1>2. /\ players'[q] = players[q]
      /\ q \in mapped' <=> q \in mapped
      /\ q \in transfers' <=> q \in transfers
      /\ q \in hangups' <=> q \in hangups
  BY DEF Spared
<1>3. (IsHere(q)' <=> IsHere(q)) /\ (Reachable(players, q)' <=> Reachable(players, q))
  BY <1>2 DEF IsHere, Reachable
<1>4. Connection(q)'
  <2>1. IsHere(q) /\ q \notin hangups <=> Reachable(players, q)
    BY DEF IsHere, Reachable
  <2>2. client[q].phase \in Away => wire'[q] = <<>>
    <3>1. client[q].phase \in Away => ~ Reachable(players, q) /\ wire[q] = <<>>
      BY <2>1 DEF Connection
    <3> QED
      BY <3>1 DEF Spared
  <2>3. client[q].phase \in Away =>
            /\ client[q] = [NoClient EXCEPT !.phase = client[q].phase]
            /\ IsHere(q) => q \in hangups /\ client[q].phase = "out"
    BY DEF Connection
  <2>4. /\ client[q].phase \notin Away /\ IsHere(q) => q \notin hangups
        /\ client[q].phase # "in" =>
             client[q].call = None /\ q \notin transfers /\ "snapshot" \notin client[q].missed
        /\ \/ client[q].phase \in {"draining", "tiles", "in"}
           \/ client[q].phase = "resuming" /\ "SessionResumeResponse" \in client[q].got
           => client[q].tile \in Street
    BY DEF Connection
  <2> QED
    BY <1>2, <1>3, <2>2, <2>3, <2>4 DEF Connection
<1>5. Combat(q)'
  BY <1>2 DEF Combat
<1>6. timeouts' = 0 =>
          Expecting(wire[q], client[q], q \in transfers, crossing[q], IsHere(q))'
  <2>1. \A c, transferred, owing, here :
            Expecting(wire[q], c, transferred, owing, here) =>
                Expecting(wire'[q], c, transferred, owing, here)
    BY <1>1, GrowKeeps
  <2>2. timeouts = 0 =>
            Expecting(wire[q], client[q], q \in transfers, crossing[q], IsHere(q))
    BY DEF Follows
  <2>3. timeouts' = 0 =>
            Expecting(wire'[q], client[q], q \in transfers, crossing[q], IsHere(q))
    BY <2>1, <2>2
  <2> QED
    BY <1>2, <1>3, <2>3 DEF Expecting, Waiting
<1>7. Ordered(q, wire'[q], client[q].phase)
  BY <1>1, GrowKeeps DEF Follows
<1>8. ASSUME Reachable(players, q)
      PROVE  /\ Told(wire'[q], client[q], players[q].inCombat)
             /\ Picture(wire'[q], client[q], players', companion', spawns')
             /\ Place(q, wire'[q], client[q], players[q].tile)
  <2>1. /\ Told(wire[q], client[q], players[q].inCombat)
        /\ Picture(wire[q], client[q], players, companion, spawns)
        /\ Place(q, wire[q], client[q], players[q].tile)
    BY <1>8 DEF Follows
  <2>2. Told(wire'[q], client[q], players[q].inCombat)
    BY <1>1, <2>1, GrowKeeps
  <2>3. CASE Fresh(q, wire'[q], players', companion', spawns')
    <3>1. players' \in Insides /\ companion' \in Pets /\ spawns' \in Mobs /\ players'[q] # None
      BY <1>2, <1>8 DEF ServerInv, Reachable
    <3>2. /\ Picture(wire'[q], client[q], players', companion', spawns')
          /\ Place(q, wire'[q], client[q], players'[q].tile)
      BY <2>3, <3>1, FreshShows
    <3> QED
      BY <1>2, <2>2, <3>2
  <2>4. CASE /\ ZoneStill
             /\ wire'[q] = wire[q] \/ wire'[q] = Append(wire[q], [kind |-> "ChatDeliver"])
    <3>1. Picture(wire[q], client[q], players', companion', spawns')
      BY <1>1, <2>1, <2>4, PictureStays DEF ZoneStill
    <3>2. [kind |-> "ChatDeliver"] \in Packets /\ [kind |-> "ChatDeliver"].kind = "ChatDeliver"
      BY PushTyped
    <3>3. "ChatDeliver" \notin Placing
      BY KindsApart DEF Placing
    <3>4. /\ Picture(wire'[q], client[q], players', companion', spawns')
          /\ Place(q, wire'[q], client[q], players[q].tile)
      BY <1>1, <2>1, <2>4, <3>1, <3>2, <3>3, ShownAppend
    <3> QED
      BY <2>2, <3>4
  <2> QED
    BY <1>8, <2>3, <2>4 DEF Spared
<1>9. Follows(q)'
  BY <1>2, <1>3, <1>6, <1>7, <1>8 DEF Follows
<1> QED
  BY <1>4, <1>5, <1>9
-----------------------------------------------------------------------------
(* The answer to a request *)

OneAnswer(queue, x) == \E i \in AnswersIn(queue) : AnswersIn(queue) = {i} /\ queue[i] = x

\* A queue with a packet more holds the answer to this call and no other.
LEMMA AnswerAppended ==
    ASSUME NEW queue \in Queues, NEW x \in Packets
    PROVE  /\ x.kind \in AnswerKinds /\ AnswersIn(queue) = {} => OneAnswer(Append(queue, x), x)
           /\ x.kind \notin AnswerKinds => AnswersIn(Append(queue, x)) = AnswersIn(queue)
           /\ \A y : x.kind \notin AnswerKinds /\ OneAnswer(queue, y)
                         => OneAnswer(Append(queue, x), y)
<1>1. /\ DOMAIN queue = 1 .. Len(queue) /\ Len(queue) \in Nat
      /\ \A i \in DOMAIN queue : Append(queue, x)[i] = queue[i]
      /\ Append(queue, x)[Len(queue) + 1] = x
      /\ \A i : i \in AnswersIn(Append(queue, x)) <=>
                 i \in AnswersIn(queue) \/ (i = Len(queue) + 1 /\ x.kind \in AnswerKinds)
  BY AppendPlaces DEF AnswersIn
<1>2. AnswersIn(queue) \subseteq DOMAIN queue
  BY DEF AnswersIn, Places
<1>3. ASSUME x.kind \in AnswerKinds, AnswersIn(queue) = {} PROVE OneAnswer(Append(queue, x), x)
  <2>1. AnswersIn(Append(queue, x)) = {Len(queue) + 1}
    BY <1>1, <1>3
  <2> QED
    BY <1>1, <2>1 DEF OneAnswer
<1>4. x.kind \notin AnswerKinds => AnswersIn(Append(queue, x)) = AnswersIn(queue)
  BY <1>1
<1>5. ASSUME NEW y, x.kind \notin AnswerKinds, OneAnswer(queue, y)
      PROVE  OneAnswer(Append(queue, x), y)
  BY <1>1, <1>2, <1>4, <1>5 DEF OneAnswer
<1> QED
  BY <1>3, <1>4, <1>5

\* Pushes do not change that.
LEMMA AnswerGrown ==
    ASSUME NEW p, NEW old \in Queues, NEW new, Grow(p, old, new), NEW x
    PROVE  OneAnswer(old, x) => OneAnswer(new, x)
<1>1. /\ AnswersIn(new) = AnswersIn(old)
      /\ \A i \in DOMAIN old : new[i] = old[i]
  BY GrowPlaces
<1> QED
  BY <1>1 DEF OneAnswer, AnswersIn, Places

\* The only answer under way ends the call, or does not.
LEMMA AnswerDecides ==
    ASSUME NEW queue \in Queues, NEW x, NEW call, OneAnswer(queue, x), ~ x.late
    PROVE  /\ \A owing : Decides(call, x) => Closed(queue, call, owing)
           /\ ~ Decides(call, x) => Open(queue, call)
<1>1. PICK i \in AnswersIn(queue) : AnswersIn(queue) = {i} /\ queue[i] = x
  BY DEF OneAnswer
<1>2. i \in Nat
  BY DEF AnswersIn, Places, Queues
<1>3. ASSUME NEW owing, Decides(call, x) PROVE Closed(queue, call, owing)
  <2>1. \A j \in AnswersIn(queue) : Timely(queue[j], owing) /\ j <= i /\ ~ (j < i)
    BY <1>1, <1>2 DEF Timely
  <2> QED
    BY <1>1, <1>3, <2>1 DEF Closed
<1>4. ~ Decides(call, x) => Open(queue, call)
  BY <1>1 DEF Open
<1> QED
  BY <1>3, <1>4
-----------------------------------------------------------------------------
(* What a request does to the client that makes it *)

\* What the packets under way will have the client of p show, once it has read them.
Screen(p, queue, inside, pets, mobs) ==
    /\ Told(queue, client[p], inside[p].inCombat)
    /\ Picture(queue, client[p], inside, pets, mobs)
    /\ Place(p, queue, client[p], inside[p].tile)

\* The packets that a client has on its way while the zone handles its request.
Ready(p, queue, inside, pets, mobs) ==
    /\ queue \in Queues
    /\ Ordered(p, queue, client[p].phase)
    /\ AnswersIn(wire[p]) = {} => AnswersIn(queue) = {}
    /\ Reachable(inside, p) => Screen(p, queue, inside, pets, mobs)

\* And those that it has once it is answered.
Served(p, queue, x, inside, pets, mobs) ==
    /\ queue \in Queues
    /\ Ordered(p, queue, client[p].phase)
    /\ AnswersIn(wire[p]) = {} => OneAnswer(queue, x)
    /\ Reachable(inside, p) => Screen(p, queue, inside, pets, mobs)

\* A client asks.
LEMMA ReadyAsked ==
    ASSUME NEW p \in Players, wire[p] \in Queues, Follows(p)
    PROVE  Ready(p, Aged(wire[p]), players, companion, spawns)
<1>1. /\ Aged(wire[p]) \in Queues
      /\ AnswersIn(wire[p]) = {} => Aged(wire[p]) = wire[p]
  BY AgedPackets
<1>2. Ordered(p, Aged(wire[p]), client[p].phase)
  BY ShownAged DEF Follows
<1>3. ASSUME Reachable(players, p) PROVE Screen(p, Aged(wire[p]), players, companion, spawns)
  <2>1. /\ Told(wire[p], client[p], players[p].inCombat)
        /\ Picture(wire[p], client[p], players, companion, spawns)
        /\ Place(p, wire[p], client[p], players[p].tile)
    BY <1>3 DEF Follows
  <2> QED
    BY <2>1, ToldAged, ShownAged DEF Screen
<1> QED
  BY <1>1, <1>2, <1>3 DEF Ready

\* It is answered.
LEMMA ServedReplied ==
    ASSUME NEW p \in Players, NEW queue, NEW inside, NEW pets, NEW mobs,
           Ready(p, queue, inside, pets, mobs),
           NEW x \in Packets, x.kind \in AnswerKinds, x.kind # "ZoneTileGrid",
           x.kind \in Placing /\ x.ok => x.tile = inside[p].tile
    PROVE  Served(p, Append(queue, x), x, inside, pets, mobs)
<1>0. queue \in Queues
  BY DEF Ready
<1>1. x.kind # "EntitySnapshot" /\ x.kind \notin FightKinds
  BY KindsApart
<1>2. Append(queue, x) \in Queues
  BY <1>0, AppendPlaces
<1>3. Ordered(p, Append(queue, x), client[p].phase)
  BY <1>0, <1>1, ShownAppend DEF Ready
<1>4. AnswersIn(wire[p]) = {} => OneAnswer(Append(queue, x), x)
  BY <1>0, AnswerAppended DEF Ready
<1>5. ASSUME Reachable(inside, p) PROVE Screen(p, Append(queue, x), inside, pets, mobs)
  <2>1. Screen(p, queue, inside, pets, mobs)
    BY <1>5 DEF Ready
  <2>2. Told(Append(queue, x), client[p], inside[p].inCombat)
    BY <1>0, <1>1, <2>1, ToldAppend DEF Screen
  <2>3. /\ Picture(Append(queue, x), client[p], inside, pets, mobs)
        /\ Place(p, Append(queue, x), client[p], inside[p].tile)
    BY <1>0, <1>1, <2>1, ShownAppend DEF Screen
  <2> QED
    BY <2>2, <2>3 DEF Screen
<1> QED
  BY <1>2, <1>3, <1>4, <1>5 DEF Served

\* A player that goes into a fight or comes out of one, where he stands.
Fighting(inside, p, fighting) == [inside EXCEPT ![p].inCombat = fighting]

\* Nothing else about him changes, and the zone still has all it had.
LEMMA FightingTyped ==
    ASSUME NEW inside \in Insides, NEW p \in Players, inside[p] # None, NEW fighting \in BOOLEAN
    PROVE  /\ Fighting(inside, p, fighting) \in Insides
           /\ Fighting(inside, p, fighting)[p] \in Entities
           /\ Fighting(inside, p, fighting)[p] # None
           /\ Fighting(inside, p, fighting)[p].tile = inside[p].tile
           /\ Fighting(inside, p, fighting)[p].connected = inside[p].connected
           /\ Fighting(inside, p, fighting)[p].inCombat = fighting
           /\ \A q \in Players \ {p} : Fighting(inside, p, fighting)[q] = inside[q]
           /\ \A pets, mobs :
                  StillTrue(inside, pets, mobs, Fighting(inside, p, fighting), pets, mobs)
<1> DEFINE new == Fighting(inside, p, fighting)
<1>1. inside[p] \in Entities
  BY DEF Insides
<1>2. /\ new[p] = [inside[p] EXCEPT !.inCombat = fighting]
      /\ \A q \in Players \ {p} : new[q] = inside[q]
      /\ DOMAIN new = Players
  BY DEF Fighting, Insides
<1>3. /\ new[p] \in Entities
      /\ new[p].tile = inside[p].tile
      /\ new[p].connected = inside[p].connected
      /\ new[p].inCombat = fighting
  BY <1>1, <1>2 DEF Entities
<1>4. new \in Insides
  BY <1>1 DEF Fighting, Insides, Entities
<1>5. new[p] # None
  BY <1>3, NoneAssumption DEF Entities, Street
<1> HIDE DEF new
<1>6. \A pets, mobs : StillTrue(inside, pets, mobs, new, pets, mobs)
  BY <1>2, <1>3, <1>5 DEF StillTrue
<1> QED
  BY <1>2, <1>3, <1>4, <1>5, <1>6 DEF new

\* He is told.
LEMMA ReadyFight ==
    ASSUME NEW p \in Players, client[p] \in Clients,
           NEW queue, NEW inside \in Insides, NEW pets, NEW mobs,
           Ready(p, queue, inside, pets, mobs), Reachable(inside, p),
           NEW x \in Packets, x.kind \in FightKinds, NEW fighting \in BOOLEAN,
           fighting <=> x.kind = "CombatStart"
    PROVE  Ready(p, Post(queue, x), Fighting(inside, p, fighting), pets, mobs)
<1> DEFINE new == Fighting(inside, p, fighting)
<1>0. queue \in Queues
  BY DEF Ready
<1>1. x.kind # "EntitySnapshot" /\ x.kind \notin AnswerKinds /\ x.kind \notin Placing
      /\ x.kind # "ZoneTileGrid"
  BY KindsApart
<1>2. Post(queue, x) = Append(queue, x)
  BY <1>0, <1>1, PostCases
<1>3. Append(queue, x) \in Queues
  BY <1>0, AppendPlaces
<1>4. Ordered(p, Append(queue, x), client[p].phase)
  BY <1>0, <1>1, ShownAppend DEF Ready
<1>5. AnswersIn(wire[p]) = {} => AnswersIn(Append(queue, x)) = {}
  BY <1>0, <1>1, AnswerAppended DEF Ready
<1>6. Screen(p, Append(queue, x), new, pets, mobs)
  <2>0. inside[p] # None
    BY DEF Reachable
  <2>1. new[p].tile = inside[p].tile /\ new[p].inCombat = fighting
        /\ StillTrue(inside, pets, mobs, new, pets, mobs)
    BY <2>0, FightingTyped
  <2> HIDE DEF new
  <2>2. Screen(p, queue, inside, pets, mobs)
    BY DEF Ready
  <2>3. Told(Append(queue, x), client[p], new[p].inCombat)
    BY <1>0, <2>1, ToldAppend
  <2>4. Picture(queue, client[p], new, pets, mobs)
    BY <1>0, <2>1, <2>2, PictureStays DEF Screen
  <2>5. Picture(Append(queue, x), client[p], new, pets, mobs)
    BY <1>0, <1>1, <2>4, ShownAppend
  <2>6. Place(p, Append(queue, x), client[p], new[p].tile)
    BY <1>0, <1>1, <2>1, <2>2, ShownAppend DEF Screen
  <2> QED
    BY <2>3, <2>5, <2>6 DEF Screen
<1> QED
  BY <1>2, <1>3, <1>4, <1>5, <1>6 DEF Ready

\* Everybody is shown the zone.
LEMMA ReadyBroadcast ==
    ASSUME NEW p \in Players, NEW out \in Wires, NEW before, NEW pets0, NEW mobs0,
           Ready(p, out[p], before, pets0, mobs0),
           NEW inside \in Insides, NEW pets \in Pets, NEW mobs \in Mobs,
           Reachable(inside, p) =>
               Reachable(before, p) /\ inside[p].inCombat = before[p].inCombat
    PROVE  Ready(p, Broadcast(out, inside, pets, mobs)[p], inside, pets, mobs)
<1> DEFINE new == Broadcast(out, inside, pets, mobs)[p]
<1>0. out[p] \in Queues
  BY DEF Wires
<1>1. /\ Reachable(inside, p) => Fresh(p, new, inside, pets, mobs)
      /\ Grow(p, out[p], new)
  BY BroadcastAt
<1> HIDE DEF new
<1>2. new \in Queues /\ AnswersIn(new) = AnswersIn(out[p])
  <2>1. new \in Queues
    BY <1>1 DEF Grow
  <2>2. \A old \in Queues : Grow(p, old, new) => AnswersIn(new) = AnswersIn(old)
    BY GrowPlaces
  <2> QED
    BY <1>0, <1>1, <2>1, <2>2
<1>3. Ordered(p, new, client[p].phase)
  BY <1>0, <1>1, GrowKeeps DEF Ready
<1>4. ASSUME Reachable(inside, p) PROVE Screen(p, new, inside, pets, mobs)
  <2>1. Told(out[p], client[p], inside[p].inCombat)
    BY <1>4 DEF Ready, Screen
  <2>2. Told(new, client[p], inside[p].inCombat)
    BY <1>0, <1>1, <2>1, GrowKeeps
  <2>3. inside[p] # None
    BY <1>4 DEF Reachable
  <2> QED
    BY <1>1, <1>4, <2>2, <2>3, FreshShows DEF Screen
<1> QED
  BY <1>2, <1>3, <1>4 DEF Ready, new
-----------------------------------------------------------------------------
(* The requests *)

\* What the invariant says of a player who asks.
Asking(p) ==
    /\ ServerInv
    /\ client[p] \in Clients
    /\ IsHere(p) => Reachable(players, p)
    /\ Combat(p)
    /\ Follows(p)

\* And what holds once he is answered with x.
Handled(p, x) ==
    /\ ServerInv'
    /\ Others(p)
    /\ hangups' = hangups
    /\ IsHere(p)' <=> IsHere(p)
    /\ players'[p] # None /\ players'[p].inCombat => players'[p].connected /\ p \in mapped'
    /\ Served(p, wire'[p], x, players', companion', spawns')

\* Who is told nothing sees a zone that has all it had.
LEMMA QuietSpares ==
    ASSUME ServerInv, NEW q \in Players, players'[q] = players[q],
           q \in mapped' <=> q \in mapped, q \in transfers' <=> q \in transfers,
           q \in hangups' <=> q \in hangups, wire'[q] = wire[q], ZoneStill
    PROVE  Spared(q)
<1>1. wire[q] \in Queues
  BY DEF ServerInv, Wires
<1>2. Grow(q, wire[q], wire[q])
  BY <1>1, GrowReflexive
<1> QED
  BY <1>2 DEF Spared

\* Who is told of a change sees it.
LEMMA BroadcastSpares ==
    ASSUME ServerInv, players' \in Insides, companion' \in Pets, spawns' \in Mobs,
           NEW q \in Players, players'[q] = players[q],
           q \in mapped' <=> q \in mapped, q \in transfers' <=> q \in transfers,
           q \in hangups' <=> q \in hangups,
           NEW out \in Wires, NEW inside, NEW pets, NEW mobs,
           inside = players', pets = companion', mobs = spawns',
           Grow(q, wire[q], out[q]), ~ Reachable(players, q) => out[q] = wire[q],
           wire'[q] = Broadcast(out, inside, pets, mobs)[q]
    PROVE  Spared(q)
<1>0. wire[q] \in Queues
  BY DEF ServerInv, Wires
<1>1. /\ ~ Reachable(inside, q) => wire'[q] = out[q]
      /\ Reachable(inside, q) => Fresh(q, wire'[q], inside, pets, mobs)
      /\ Grow(q, out[q], wire'[q])
  BY BroadcastAt
<1>2. Grow(q, wire[q], wire'[q])
  BY <1>0, <1>1, GrowTransitive
<1>3. Reachable(players, q) <=> Reachable(inside, q)
  BY DEF Reachable
<1> QED
  BY <1>1, <1>2, <1>3 DEF Spared

\* Most requests are refused in this way, and some are granted.
LEMMA JustReplyHandles ==
    ASSUME NEW p \in Players, Asking(p),
           NEW x \in Packets, x.kind \in AnswerKinds, x.kind # "ZoneTileGrid",
           ~ (x.kind \in Placing /\ x.ok), JustReply(p, x)
    PROVE  Handled(p, x)
<1>1. wire \in Wires /\ wire[p] \in Queues
  BY DEF Asking, ServerInv, Wires
<1>2. /\ Asked(p) \in Wires /\ Asked(p)[p] = Aged(wire[p])
      /\ \A q \in Players : q # p => Asked(p)[q] = wire[q]
  BY <1>1, AskedAt
<1>3. /\ wire' \in Wires /\ wire'[p] = Append(Aged(wire[p]), x)
      /\ \A q \in Players : q # p => wire'[q] = wire[q]
  BY <1>2, RepliedAt DEF JustReply
<1>4. UNCHANGED <<players, saved, companion, spawns, fights, mapped, transfers, hangups>>
  BY DEF JustReply, zone
<1>5. ServerInv'
  BY <1>3, <1>4 DEF Asking, ServerInv
<1>6. ZoneStill
  BY <1>4 DEF ZoneStill, StillTrue
<1>7. Others(p)
  BY <1>3, <1>4, <1>6, QuietSpares DEF Others, Asking
<1>8. Ready(p, Aged(wire[p]), players, companion, spawns)
  BY <1>1, ReadyAsked DEF Asking
<1>9. Served(p, Append(Aged(wire[p]), x), x, players, companion, spawns)
  BY <1>8, ServedReplied
<1> QED
  BY <1>3, <1>4, <1>5, <1>7, <1>9 DEF Handled, IsHere, Asking, Combat

\* What a queue keeps while the zone shows everybody what has changed.
Underway(p, queue, x, fighting) ==
    /\ queue \in Queues
    /\ Ordered(p, queue, client[p].phase)
    /\ AnswersIn(wire[p]) = {} => OneAnswer(queue, x)
    /\ Told(queue, client[p], fighting)

\* Pushes do not disturb it,
LEMMA UnderwayGrows ==
    ASSUME NEW p, NEW old, NEW x, NEW fighting, Underway(p, old, x, fighting),
           NEW new, Grow(p, old, new)
    PROVE  Underway(p, new, x, fighting)
<1>1. old \in Queues /\ new \in Queues
  BY DEF Underway, Grow
<1>2. Ordered(p, new, client[p].phase) /\ Told(new, client[p], fighting)
  BY <1>1, GrowKeeps DEF Underway
<1>3. AnswersIn(wire[p]) = {} => OneAnswer(new, x)
  BY <1>1, AnswerGrown DEF Underway
<1> QED
  BY <1>1, <1>2, <1>3 DEF Underway

\* and neither does the news of a fight,
LEMMA UnderwayFight ==
    ASSUME NEW p, NEW queue, NEW y, NEW before, Underway(p, queue, y, before),
           NEW x \in Packets, x.kind \in FightKinds, NEW fighting,
           fighting <=> x.kind = "CombatStart"
    PROVE  Underway(p, Post(queue, x), y, fighting)
<1>0. queue \in Queues
  BY DEF Underway
<1>1. x.kind # "EntitySnapshot" /\ x.kind \notin AnswerKinds /\ x.kind # "ZoneTileGrid"
  BY KindsApart
<1>2. Post(queue, x) = Append(queue, x) /\ Append(queue, x) \in Queues
  BY <1>0, <1>1, PostCases, AppendPlaces
<1>3. Ordered(p, Append(queue, x), client[p].phase)
  BY <1>0, <1>1, ShownAppend DEF Underway
<1>4. AnswersIn(wire[p]) = {} => OneAnswer(Append(queue, x), y)
  BY <1>0, <1>1, AnswerAppended DEF Underway
<1>5. Told(Append(queue, x), client[p], fighting)
  BY <1>0, ToldAppend
<1> QED
  BY <1>2, <1>3, <1>4, <1>5 DEF Underway

\* and at the end the player is shown the zone as it is.
LEMMA ServedFresh ==
    ASSUME NEW p \in Players, NEW queue, NEW x,
           NEW inside \in Insides, NEW pets \in Pets, NEW mobs \in Mobs, inside[p] # None,
           Underway(p, queue, x, inside[p].inCombat), Fresh(p, queue, inside, pets, mobs)
    PROVE  Served(p, queue, x, inside, pets, mobs)
<1>1. /\ Picture(queue, client[p], inside, pets, mobs)
      /\ Place(p, queue, client[p], inside[p].tile)
  BY FreshShows
<1> QED
  BY <1>1 DEF Served, Underway, Screen
-----------------------------------------------------------------------------
(* A step of a player *)

\* handleMoveIntent
LEMMA MoveHandles ==
    ASSUME NEW p \in Players, Asking(p), NEW to, HandleMoveIntent(p, to)
    PROVE  /\ \E x : Handled(p, x) /\ x.kind = "MoveResult" /\ ~ x.late
           /\ transfers' = transfers
<1>0. 0 \in Tiles /\ "MoveResult" \in AnswerKinds
  BY TilesAssumption DEF Tiles, AnswerKinds
<1>1. CASE ~ (IsHere(p) /\ CanStepTo(players[p].tile, to))
  <2> DEFINE x == Answer("MoveResult", FALSE, 0)
  <2>1. x \in Packets /\ x.kind = "MoveResult" /\ x.ok = FALSE /\ ~ x.late
    BY <1>0, RefusalTyped
  <2>2. JustReply(p, x)
    BY <1>1 DEF HandleMoveIntent
  <2>3. transfers' = transfers
    BY <2>2 DEF JustReply, zone
  <2> HIDE DEF x
  <2>4. x.kind \in AnswerKinds /\ x.kind # "ZoneTileGrid" /\ ~ (x.kind \in Placing /\ x.ok)
    BY <2>1 DEF AnswerKinds
  <2>5. Handled(p, x)
    BY <2>1, <2>2, <2>4, JustReplyHandles
  <2> QED
    BY <2>1, <2>3, <2>5
<1>2. CASE IsHere(p) /\ CanStepTo(players[p].tile, to)
  <2> DEFINE attacker == Attacker(p, to, Respawned)
             mobs   == IF attacker = None THEN Respawned
                       ELSE [Respawned EXCEPT ![attacker] = "dead"]
             moved  == [players EXCEPT ![p].tile = to]
             inside == [moved EXCEPT ![p].inCombat = @ \/ attacker # None]
             pets   == IF companion[p] = None THEN companion ELSE [companion EXCEPT ![p] = to]
             x      == Answer("MoveResult", TRUE, to)
             start  == [kind |-> "CombatStart"]
             told   == Replied(Asked(p), p, x)
             out    == IF Respawned = spawns THEN told
                       ELSE Broadcast(told, moved, companion, Respawned)
             fought == IF attacker = None THEN out
                       ELSE Broadcast(Send(out, inside, p, start), inside, companion, mobs)
             fighting == moved[p].inCombat \/ attacker # None
  <2>1. /\ players' = inside
        /\ companion' = pets
        /\ spawns' = mobs
        /\ fights' = IF attacker = None THEN fights ELSE [fights EXCEPT ![p] = @ + 1]
        /\ mapped' = IF attacker = None THEN mapped ELSE mapped \cup {p}
        /\ wire' = Broadcast(fought, inside, pets, mobs)
        /\ UNCHANGED <<saved, transfers, hangups>>
    BY <1>2 DEF HandleMoveIntent
  <2>2. attacker # None => fights[p] < MaxFights
    <3>1. fights[p] \in Nat /\ MaxFights \in Nat
      BY RadiiAssumption DEF Asking, ServerInv
    <3> QED
      BY <3>1 DEF Attacker
  <2>3. /\ to \in Street /\ players \in Insides /\ players[p] \in Entities
        /\ companion \in Pets /\ Respawned \in Mobs /\ mobs \in Mobs /\ pets \in Pets
    BY <1>2 DEF CanStepTo, Street, Asking, ServerInv, IsHere, Insides, Pets, Mobs, Respawned
  <2>4. /\ moved \in Insides /\ moved[p] \in Entities /\ moved[p].tile = to
        /\ moved[p].connected = players[p].connected
        /\ moved[p].inCombat = players[p].inCombat
        /\ \A q \in Players \ {p} : moved[q] = players[q]
    BY <2>3 DEF Insides, Entities
  <2>5. /\ inside = Fighting(moved, p, fighting)
        /\ fighting \in BOOLEAN
        /\ fighting = (players[p].inCombat \/ attacker # None)
    BY <2>4 DEF Fighting, Entities
  <2>6. moved[p] # None
    BY <2>4, NoneAssumption DEF Entities, Street
  <2>7. x \in Packets /\ x.kind = "MoveResult" /\ x.ok = TRUE /\ x.tile = to /\ ~ x.late
    <3>1. to \in Tiles
      BY <2>3 DEF Street
    <3> QED
      BY <1>0, <2>3, <3>1, AnswerTyped
  <2>8. start \in Packets /\ start.kind = "CombatStart"
    BY PushTyped
  <2> HIDE DEF attacker, mobs, moved, inside, pets, x, start, told, out, fought,
           fighting
  <2>9. /\ inside \in Insides /\ inside[p] \in Entities /\ inside[p] # None
        /\ inside[p].tile = to
        /\ inside[p].connected = players[p].connected
        /\ inside[p].inCombat = (players[p].inCombat \/ attacker # None)
        /\ \A q \in Players \ {p} : inside[q] = players[q]
    <3>1. /\ inside \in Insides /\ inside[p] \in Entities /\ inside[p] # None
          /\ inside[p].tile = moved[p].tile
          /\ inside[p].connected = moved[p].connected
          /\ inside[p].inCombat = fighting
          /\ \A q \in Players \ {p} : inside[q] = moved[q]
      <4>1. moved \in Insides /\ moved[p] # None /\ fighting \in BOOLEAN
        BY <2>4, <2>5, <2>6
      <4>2. inside = Fighting(moved, p, fighting)
        BY <2>5
      <4> QED
        BY <4>1, <4>2, FightingTyped
    <3>2. inside[p].inCombat = (players[p].inCombat \/ attacker # None)
      BY <2>5, <3>1, Zenon
    <3> QED
      BY <2>4, <3>1, <3>2
  <2>10. /\ \A q \in Players : Reachable(moved, q) <=> Reachable(players, q)
         /\ \A q \in Players : Reachable(inside, q) <=> Reachable(players, q)
         /\ Reachable(players, p)
    BY <1>2, <2>4, <2>6, <2>9 DEF Reachable, IsHere, Asking
  <2>11. wire \in Wires /\ wire[p] \in Queues
    BY DEF Asking, ServerInv, Wires
  <2>12. /\ told \in Wires /\ told[p] = Append(Aged(wire[p]), x)
         /\ \A q \in Players \ {p} : told[q] = wire[q]
    BY <2>7, <2>11, AskedAt, RepliedAt DEF told
  <2>13. Underway(p, told[p], x, players[p].inCombat)
    <3>1. Ready(p, Aged(wire[p]), players, companion, spawns)
      BY <2>11, ReadyAsked DEF Asking
    <3>2. /\ x.kind \in AnswerKinds /\ x.kind \notin FightKinds
          /\ x.kind # "EntitySnapshot" /\ x.kind # "ZoneTileGrid"
      BY <2>7 DEF AnswerKinds, FightKinds
    <3>3. Ordered(p, told[p], client[p].phase)
      BY <2>7, <2>12, <3>1, <3>2, ShownAppend DEF Ready
    <3>4. Told(told[p], client[p], players[p].inCombat)
      BY <2>7, <2>10, <2>12, <3>1, <3>2, ToldAppend DEF Ready, Screen
    <3>5. AnswersIn(wire[p]) = {} => OneAnswer(told[p], x)
      BY <2>7, <2>12, <3>1, <3>2, AnswerAppended DEF Ready
    <3>6. told[p] \in Queues
      BY <2>12 DEF Wires
    <3> QED
      BY <3>3, <3>4, <3>5, <3>6 DEF Underway
  <2>14. /\ out \in Wires
         /\ Grow(p, told[p], out[p])
         /\ \A q \in Players \ {p} : /\ Grow(q, wire[q], out[q])
                                     /\ ~ Reachable(players, q) => out[q] = wire[q]
    <3>1. CASE Respawned = spawns
      <4>1. out = told
        BY <3>1 DEF out
      <4>2. \A q \in Players : wire[q] \in Queues /\ told[q] \in Queues
        BY <2>11, <2>12 DEF Wires
      <4> QED
        BY <2>12, <4>1, <4>2, GrowReflexive
    <3>2. CASE Respawned # spawns
      <4>1. out = Broadcast(told, moved, companion, Respawned)
        BY <3>2 DEF out
      <4>2. /\ out \in Wires
            /\ \A q \in Players : /\ ~ Reachable(moved, q) => out[q] = told[q]
                                  /\ Grow(q, told[q], out[q])
        BY <2>3, <2>4, <2>12, <4>1, BroadcastAt
      <4> QED
        BY <2>10, <2>12, <4>2
    <3> QED
      BY <3>1, <3>2
  <2>15. /\ fought \in Wires
         /\ Underway(p, fought[p], x, inside[p].inCombat)
         /\ \A q \in Players \ {p} : /\ Grow(q, wire[q], fought[q])
                                     /\ ~ Reachable(players, q) => fought[q] = wire[q]
    <3>1. Underway(p, out[p], x, players[p].inCombat)
      BY <2>13, <2>14, UnderwayGrows
    <3>2. CASE attacker = None
      <4>1. fought = out
        BY <3>2 DEF fought
      <4>2. inside[p].inCombat = players[p].inCombat
        BY <2>3, <2>9, <3>2 DEF Entities
      <4> QED
        BY <2>14, <3>1, <4>1, <4>2
    <3>3. CASE attacker # None
      <4> DEFINE sent == Send(out, inside, p, start)
      <4>1. fought = Broadcast(sent, inside, companion, mobs)
        BY <3>3 DEF fought
      <4>2. /\ sent \in Wires /\ sent[p] = Post(out[p], start)
            /\ \A q \in Players \ {p} : sent[q] = out[q]
        BY <2>8, <2>10, <2>14, SendAt
      <4> HIDE DEF sent
      <4>3. Underway(p, sent[p], x, inside[p].inCombat)
        <5>1. inside[p].inCombat <=> start.kind = "CombatStart"
          BY <2>8, <2>9, <3>3
        <5>2. start.kind \in FightKinds
          BY <2>8 DEF FightKinds
        <5> QED
          BY <2>8, <3>1, <4>2, <5>1, <5>2, UnderwayFight
      <4>4. /\ fought \in Wires
            /\ \A q \in Players : /\ ~ Reachable(inside, q) => fought[q] = sent[q]
                                  /\ Grow(q, sent[q], fought[q])
        BY <2>3, <2>9, <4>1, <4>2, BroadcastAt
      <4>5. Underway(p, fought[p], x, inside[p].inCombat)
        BY <4>3, <4>4, UnderwayGrows
      <4>6. ASSUME NEW q \in Players \ {p}
            PROVE  /\ Grow(q, wire[q], fought[q])
                   /\ ~ Reachable(players, q) => fought[q] = wire[q]
        <5>1. wire[q] \in Queues
          BY <2>11 DEF Wires
        <5>2. Grow(q, wire[q], sent[q]) /\ Grow(q, sent[q], fought[q])
          BY <2>14, <4>2, <4>4
        <5>3. Grow(q, wire[q], fought[q])
          BY <5>1, <5>2, GrowTransitive
        <5> QED
          BY <2>10, <2>14, <4>2, <4>4, <5>3
      <4> QED
        BY <4>4, <4>5, <4>6
    <3> QED
      BY <3>2, <3>3
  <2>16. /\ wire' \in Wires
         /\ Grow(p, fought[p], wire'[p])
         /\ Fresh(p, wire'[p], inside, pets, mobs)
    BY <2>1, <2>3, <2>9, <2>10, <2>15, BroadcastAt
  <2>17. Served(p, wire'[p], x, players', companion', spawns')
    <3>1. Underway(p, wire'[p], x, inside[p].inCombat)
      BY <2>15, <2>16, UnderwayGrows
    <3> QED
      BY <2>1, <2>3, <2>9, <2>16, <3>1, ServedFresh
  <2>18. ServerInv'
    <3>1. fights' \in [Players -> 0 .. MaxFights]
      BY <2>1, <2>2, RadiiAssumption DEF Asking, ServerInv
    <3>2. mapped' \in SUBSET Players /\ \A q \in mapped' : fights'[q] > 0
      BY <2>1, <2>2, RadiiAssumption DEF Asking, ServerInv
    <3> QED
      BY <2>1, <2>3, <2>9, <2>16, <3>1, <3>2 DEF Asking, ServerInv
  <2>19. Others(p)
    <3> SUFFICES ASSUME NEW q \in Players \ {p} PROVE Spared(q)
      BY DEF Others
    <3>1. q \in mapped' <=> q \in mapped
      BY <2>1
    <3>2. ServerInv
      BY DEF Asking
    <3> QED
      BY <2>1, <2>3, <2>9, <2>15, <3>1, <3>2, BroadcastSpares
  <2>20. IsHere(p)' <=> IsHere(p)
    BY <2>1, <2>9, <1>2 DEF IsHere
  <2>21. players'[p].connected /\ (players'[p].inCombat => p \in mapped')
    BY <2>1, <2>9, <1>2 DEF Asking, Combat, IsHere
  <2>22. Handled(p, x)
    BY <2>1, <2>17, <2>18, <2>19, <2>20, <2>21 DEF Handled
  <2> QED
    BY <2>1, <2>7, <2>22
<1> QED
  BY <1>1, <1>2
-----------------------------------------------------------------------------
(* The other requests *)

\* What a handler does to the rest of the zone.
Kept(p) ==
    /\ players' \in Insides
    /\ saved' \in [Players -> Street]
    /\ companion' \in Pets
    /\ spawns' \in Mobs
    /\ fights' \in [Players -> 0 .. MaxFights]
    /\ mapped' \in SUBSET Players /\ \A q \in mapped' : fights'[q] > 0
    /\ transfers' \in SUBSET Players
    /\ hangups' = hangups
    /\ IsHere(p)'
    /\ players'[p].inCombat => p \in mapped'
    /\ \A q \in Players \ {p} : /\ players'[q] = players[q]
                                /\ q \in mapped' <=> q \in mapped
                                /\ q \in transfers' <=> q \in transfers

\* Nobody but the player who asked is told anything.
LEMMA QuietlyHandled ==
    ASSUME NEW p \in Players, Asking(p), IsHere(p), Kept(p), ZoneStill,
           NEW out \in Wires, \A q \in Players \ {p} : out[q] = wire[q],
           Ready(p, out[p], players', companion', spawns'),
           NEW x \in Packets, x.kind \in AnswerKinds, x.kind # "ZoneTileGrid",
           x.kind \in Placing /\ x.ok => x.tile = players'[p].tile,
           wire' = Replied(out, p, x)
    PROVE  Handled(p, x)
<1>1. /\ wire' \in Wires /\ wire'[p] = Append(out[p], x)
      /\ \A q \in Players \ {p} : wire'[q] = wire[q]
  BY RepliedAt
<1>2. Served(p, wire'[p], x, players', companion', spawns')
  BY <1>1, ServedReplied
<1>3. ServerInv'
  BY <1>1 DEF Kept, Asking, ServerInv
<1>4. Others(p)
  BY <1>1, QuietSpares DEF Others, Kept, Asking
<1> QED
  BY <1>2, <1>3, <1>4 DEF Handled, Kept, IsHere

\* Everybody is shown what has changed, and then the player is answered.
LEMMA OpenlyHandled ==
    ASSUME NEW p \in Players, Asking(p), IsHere(p), Kept(p),
           NEW out \in Wires, \A q \in Players \ {p} : out[q] = wire[q],
           NEW before, NEW pets0, NEW mobs0, Ready(p, out[p], before, pets0, mobs0),
           Reachable(before, p), before[p].inCombat = players'[p].inCombat,
           NEW x \in Packets, x.kind \in AnswerKinds, x.kind # "ZoneTileGrid",
           x.kind \in Placing /\ x.ok => x.tile = players'[p].tile,
           NEW inside, NEW pets, NEW mobs,
           inside = players', pets = companion', mobs = spawns',
           wire' = Replied(Broadcast(out, inside, pets, mobs), p, x)
    PROVE  Handled(p, x)
<1> DEFINE shown == Broadcast(out, inside, pets, mobs)
<1>0. inside \in Insides /\ pets \in Pets /\ mobs \in Mobs
  BY DEF Kept
<1>1. shown \in Wires
  BY <1>0, BroadcastAt
<1>2. Ready(p, shown[p], inside, pets, mobs)
  BY <1>0, ReadyBroadcast
<1>3. /\ wire' \in Wires /\ wire'[p] = Append(shown[p], x)
      /\ \A q \in Players \ {p} : wire'[q] = shown[q]
  BY <1>1, RepliedAt
<1>4. Served(p, wire'[p], x, inside, pets, mobs)
  BY <1>2, <1>3, ServedReplied
<1>5. ServerInv'
  BY <1>3 DEF Kept, Asking, ServerInv
<1>6. Others(p)
  <2> SUFFICES ASSUME NEW q \in Players \ {p} PROVE Spared(q)
    BY DEF Others
  <2>1. ServerInv /\ wire[q] \in Queues /\ out[q] = wire[q]
    BY DEF Asking, ServerInv, Wires
  <2>2. Grow(q, wire[q], out[q])
    BY <2>1, GrowReflexive
  <2>3. /\ players'[q] = players[q]
        /\ q \in mapped' <=> q \in mapped
        /\ q \in transfers' <=> q \in transfers
        /\ q \in hangups' <=> q \in hangups
    BY DEF Kept
  <2> QED
    BY <1>0, <1>3, <2>1, <2>2, <2>3, BroadcastSpares
<1> QED
  BY <1>4, <1>5, <1>6 DEF Handled, Kept, IsHere

\* The player is told of a fight.
LEMMA FightTold ==
    ASSUME NEW p \in Players, Asking(p), IsHere(p),
           NEW x \in Packets, x.kind \in FightKinds, NEW fighting \in BOOLEAN,
           fighting <=> x.kind = "CombatStart"
    PROVE  /\ Send(Asked(p), players, p, x) \in Wires
           /\ \A q \in Players \ {p} : Send(Asked(p), players, p, x)[q] = wire[q]
           /\ Ready(p, Send(Asked(p), players, p, x)[p], Fighting(players, p, fighting),
                    companion, spawns)
<1>1. wire \in Wires /\ wire[p] \in Queues
  BY DEF Asking, ServerInv, Wires
<1>2. /\ Asked(p) \in Wires /\ Asked(p)[p] = Aged(wire[p])
      /\ \A q \in Players \ {p} : Asked(p)[q] = wire[q]
  BY <1>1, AskedAt
<1>3. /\ Send(Asked(p), players, p, x) \in Wires
      /\ Send(Asked(p), players, p, x)[p] = Post(Aged(wire[p]), x)
      /\ \A q \in Players \ {p} : Send(Asked(p), players, p, x)[q] = wire[q]
  BY <1>2, SendAt DEF Asking
<1>4. Ready(p, Aged(wire[p]), players, companion, spawns)
  BY <1>1, ReadyAsked DEF Asking
<1>5. Ready(p, Post(Aged(wire[p]), x), Fighting(players, p, fighting), companion, spawns)
  BY <1>4, ReadyFight DEF Asking, ServerInv
<1> QED
  BY <1>3, <1>5

\* forceEndCombat: whether there is a fight or not, the player is in none afterwards, and
\* has been told of it if there was one.
LEMMA FledReady ==
    ASSUME NEW p \in Players, Asking(p), IsHere(p)
    PROVE  /\ Fled(p).out \in Wires
           /\ \A q \in Players \ {p} : Fled(p).out[q] = wire[q]
           /\ Ready(p, Fled(p).out[p], Fighting(players, p, FALSE), companion, spawns)
           /\ Fled(p).ended <=> p \in mapped
           /\ ~ (players[p].inCombat /\ ~ Fled(p).ended)
<1>1. wire \in Wires /\ wire[p] \in Queues /\ players \in Insides /\ players[p] \in Entities
  BY DEF Asking, ServerInv, Wires, IsHere, Insides
<1>2. CASE p \in mapped
  <2> DEFINE x == [kind |-> "CombatEnd"]
  <2>1. x \in Packets /\ x.kind = "CombatEnd"
    BY PushTyped
  <2>2. Fled(p).out = Send(Asked(p), players, p, x) /\ Fled(p).ended = TRUE
    BY <1>2 DEF Fled
  <2> HIDE DEF x
  <2>3. x.kind \in FightKinds /\ (FALSE <=> x.kind = "CombatStart")
    BY <2>1 DEF FightKinds
  <2> QED
    BY <1>2, <2>1, <2>2, <2>3, FightTold
<1>3. CASE p \notin mapped
  <2>1. players[p].inCombat = FALSE
    BY <1>1, <1>3 DEF Asking, Combat, IsHere, Entities
  <2>2. Fighting(players, p, FALSE) = players
    BY <1>1, <2>1 DEF Fighting, Insides, Entities
  <2>3. Fled(p).out = Asked(p) /\ ~ Fled(p).ended
    <3>1. Fled(p).out = IF p \in mapped
                        THEN Send(Asked(p), players, p, [kind |-> "CombatEnd"]) ELSE Asked(p)
      BY DEF Fled
    <3>2. Fled(p).ended <=> p \in mapped
      BY DEF Fled
    <3> QED
      BY <1>3, <3>1, <3>2
  <2>4. /\ Asked(p) \in Wires /\ Asked(p)[p] = Aged(wire[p])
        /\ \A q \in Players \ {p} : Asked(p)[q] = wire[q]
    BY <1>1, AskedAt
  <2>5. Ready(p, Aged(wire[p]), players, companion, spawns)
    BY <1>1, ReadyAsked DEF Asking
  <2> QED
    BY <1>3, <2>1, <2>2, <2>3, <2>4, <2>5
<1> QED
  BY <1>2, <1>3

\* A refusal.
LEMMA RefusalHandles ==
    ASSUME NEW p \in Players, Asking(p), NEW kind \in AnswerKinds, kind # "ZoneTileGrid",
           JustReply(p, Answer(kind, FALSE, 0))
    PROVE  /\ \E x : Handled(p, x) /\ x.kind = kind /\ ~ x.ok /\ ~ x.late
           /\ transfers' = transfers /\ players' = players
<1> DEFINE x == Answer(kind, FALSE, 0)
<1>0. 0 \in Tiles
  BY TilesAssumption DEF Tiles
<1>1. x \in Packets /\ x.kind = kind /\ x.ok = FALSE /\ x.late = FALSE
  BY <1>0, RefusalTyped
<1>2. transfers' = transfers /\ players' = players
  BY DEF JustReply, zone
<1>3. JustReply(p, x)
  OBVIOUS
<1> HIDE DEF x
<1>4. Handled(p, x)
  BY <1>1, <1>3, JustReplyHandles
<1> QED
  BY <1>1, <1>2, <1>4

\* An answer that changes nothing.
LEMMA AnswerHandles ==
    ASSUME NEW p \in Players, Asking(p), NEW kind \in AnswerKinds, kind # "ZoneTileGrid",
           kind \notin Placing, NEW ok \in BOOLEAN, JustReply(p, Answer(kind, ok, 0))
    PROVE  /\ \E x : Handled(p, x) /\ x.kind = kind /\ ~ x.late
           /\ transfers' = transfers /\ players' = players
<1> DEFINE x == Answer(kind, ok, 0)
<1>0. 0 \in Tiles
  BY TilesAssumption DEF Tiles
<1>1. x \in Packets /\ x.kind = kind /\ x.late = FALSE
  <2>1. kind \in Placing /\ ok => 0 \in Street
    OBVIOUS
  <2>2. x \in Packets /\ x.kind = kind
    BY <1>0, <2>1, AnswerTyped
  <2>3. x.late = FALSE
    BY DEF Answer
  <2> QED
    BY <2>2, <2>3
<1>2. transfers' = transfers /\ players' = players
  BY DEF JustReply, zone
<1>3. JustReply(p, x)
  OBVIOUS
<1> HIDE DEF x
<1>4. Handled(p, x)
  BY <1>1, <1>3, JustReplyHandles
<1> QED
  BY <1>1, <1>2, <1>4

\* What one knows of a player who is here.
LEMMA HereTyped ==
    ASSUME NEW p \in Players, Asking(p)
    PROVE  /\ ServerInv
           /\ wire \in Wires /\ wire[p] \in Queues
           /\ players \in Insides /\ companion \in Pets /\ spawns \in Mobs
           /\ IsHere(p) => /\ players[p] \in Entities /\ players[p] # None /\ players[p].connected
                           /\ players[p].tile \in Street
                           /\ players[p].inCombat \in BOOLEAN
                           /\ Reachable(players, p)
                           /\ players[p].inCombat => p \in mapped
           /\ ~ IsHere(p) /\ players[p] # None => ~ players[p].inCombat
           /\ 0 \in Tiles
  BY TilesAssumption
     DEF Asking, ServerInv, Wires, IsHere, Insides, Entities, Combat, Tiles

\* executeStuckCommand and TeleportToZone within the zone: whoever fought fights no more.
LEMMA RelocationHandles ==
    ASSUME NEW p \in Players, Asking(p),
           NEW kind \in {"PlayerCommandResult", "DebugCommandResponse"}, HandleRelocation(p, kind)
    PROVE  /\ \E x : Handled(p, x) /\ x.kind = kind /\ ~ x.late
           /\ p \in transfers' => p \in transfers
           /\ players'[p] # None => ~ players'[p].inCombat
<1>0. kind \in AnswerKinds /\ kind # "ZoneTileGrid"
  BY DEF AnswerKinds
<1>1. CASE ~ IsHere(p)
  <2>1. JustReply(p, Answer(kind, FALSE, 0))
    BY <1>1 DEF HandleRelocation
  <2> QED
    BY <1>0, <1>1, <2>1, RefusalHandles, HereTyped
<1>2. CASE IsHere(p)
  <2> DEFINE fled   == Fled(p)
             inside == [players EXCEPT ![p].tile = CentreTile,
                                       ![p].inCombat = @ /\ ~ fled.ended]
             pets   == IF companion[p] = None THEN companion
                       ELSE [companion EXCEPT ![p] = CentreTile]
             before == Fighting(players, p, FALSE)
             x      == Answer(kind, TRUE, CentreTile)
  <2>1. /\ players' = inside
        /\ companion' = pets
        /\ saved' = [saved EXCEPT ![p] = CentreTile]
        /\ transfers' = transfers \ {p}
        /\ fights' = IF fled.ended THEN [fights EXCEPT ![p] = @ - 1] ELSE fights
        /\ mapped' = IF fled.ended THEN mapped \ {p} ELSE mapped
        /\ wire' = Replied(Broadcast(fled.out, inside, pets, spawns), p, x)
        /\ UNCHANGED <<spawns, hangups>>
    BY <1>2 DEF HandleRelocation
  <2>2. /\ fled.out \in Wires
        /\ \A q \in Players \ {p} : fled.out[q] = wire[q]
        /\ Ready(p, fled.out[p], before, companion, spawns)
        /\ fled.ended <=> p \in mapped
        /\ ~ (players[p].inCombat /\ ~ fled.ended)
    BY <1>2, FledReady
  <2>3. /\ ServerInv /\ players \in Insides /\ companion \in Pets /\ spawns \in Mobs
        /\ players[p] \in Entities /\ players[p] # None /\ players[p].connected
        /\ Reachable(players, p)
    BY <1>2, HereTyped
  <2>4. CentreTile \in Street /\ CentreTile \in Tiles
    BY TilesAssumption DEF Street
  <2>5. /\ x \in Packets /\ x.kind = kind /\ x.ok = TRUE /\ x.tile = CentreTile /\ ~ x.late
    BY <1>0, <2>4, AnswerTyped
  <2>6. /\ before[p].connected = players[p].connected /\ before[p] # None
        /\ before[p].inCombat = FALSE
    BY <2>3, FightingTyped
  <2> HIDE DEF fled, before, x
  <2>7. /\ inside \in Insides /\ inside[p] \in Entities /\ inside[p].tile = CentreTile
        /\ inside[p].connected = players[p].connected
        /\ inside[p].inCombat = FALSE
        /\ \A q \in Players \ {p} : inside[q] = players[q]
    BY <2>2, <2>3, <2>4 DEF Insides, Entities
  <2>8. pets \in Pets
    BY <2>3, <2>4 DEF Pets
  <2> HIDE DEF inside, pets
  <2>9. inside[p] # None
    BY <2>7, NoneAssumption DEF Entities, Street
  <2>10. Kept(p)
    <3>1. saved' \in [Players -> Street] /\ transfers' \in SUBSET Players
      BY <2>1, <2>3, <2>4 DEF ServerInv
    <3>2. fights' \in [Players -> 0 .. MaxFights]
      BY <2>1, <2>2, <2>3, RadiiAssumption DEF ServerInv
    <3>3. mapped' \in SUBSET Players /\ \A q \in mapped' : fights'[q] > 0
      BY <2>1, <2>2, <2>3, RadiiAssumption DEF ServerInv
    <3>4. \A q \in Players \ {p} : /\ q \in mapped' <=> q \in mapped
                                   /\ q \in transfers' <=> q \in transfers
      BY <2>1
    <3> QED
      BY <2>1, <2>3, <2>7, <2>8, <2>9, <3>1, <3>2, <3>3, <3>4 DEF Kept, IsHere
  <2>11. Reachable(before, p)
    BY <2>3, <2>6 DEF Reachable
  <2>12. Handled(p, x)
    BY <1>0, <1>2, <2>1, <2>2, <2>3, <2>5, <2>6, <2>7, <2>10, <2>11, OpenlyHandled
  <2> QED
    BY <2>1, <2>5, <2>7, <2>12
<1> QED
  BY <1>1, <1>2

\* handleUsePortal: who is let through is being transferred from then on.
LEMMA PortalHandles ==
    ASSUME NEW p \in Players, Asking(p), HandleUsePortal(p)
    PROVE  /\ \E x : /\ Handled(p, x) /\ x.kind = "UsePortalResult" /\ ~ x.late
                     /\ p \notin transfers => (x.ok <=> p \in transfers')
           /\ p \notin transfers => (PortalOpens(p) <=> p \in transfers')
<1>0. "UsePortalResult" \in AnswerKinds /\ "UsePortalResult" \notin Placing
  BY DEF AnswerKinds, Placing
<1>1. CASE ~ PortalOpens(p)
  <2>1. JustReply(p, Answer("UsePortalResult", FALSE, 0))
    BY <1>1 DEF HandleUsePortal
  <2> DEFINE x == Answer("UsePortalResult", FALSE, 0)
  <2>2. 0 \in Tiles
    BY HereTyped
  <2>3. x \in Packets /\ x.kind = "UsePortalResult" /\ x.ok = FALSE /\ ~ x.late
    BY <1>0, RefusalTyped
  <2>4. transfers' = transfers
    BY <2>1 DEF JustReply, zone
  <2> HIDE DEF x
  <2>5. Handled(p, x)
    BY <1>0, <2>1, <2>3, JustReplyHandles DEF x
  <2> QED
    BY <1>1, <2>3, <2>4, <2>5
<1>2. CASE PortalOpens(p)
  <2>0. IsHere(p) /\ players[p].tile = PortalTile /\ ~ players[p].inCombat
    BY <1>2 DEF PortalOpens
  <2> DEFINE x == Answer("UsePortalResult", TRUE, 0)
  <2>1. /\ saved' = [saved EXCEPT ![p] = PortalTile]
        /\ transfers' = transfers \cup {p}
        /\ wire' = Replied(Asked(p), p, x)
        /\ UNCHANGED <<players, companion, spawns, fights, mapped, hangups>>
    BY <1>2 DEF HandleUsePortal
  <2>2. /\ 0 \in Tiles /\ ServerInv /\ wire \in Wires /\ wire[p] \in Queues
        /\ players[p].inCombat => p \in mapped
    BY <2>0, HereTyped
  <2>3. x \in Packets /\ x.kind = "UsePortalResult" /\ x.ok = TRUE /\ ~ x.late
    BY <1>0, ConsentTyped
  <2> HIDE DEF x
  <2>4. Kept(p)
    <3>1. PortalTile \in Street
      BY TilesAssumption DEF Street
    <3> QED
      BY <2>0, <2>1, <2>2, <3>1 DEF Kept, ServerInv, IsHere
  <2>5. ZoneStill
    BY <2>1 DEF ZoneStill, StillTrue
  <2>6. /\ Asked(p) \in Wires /\ Asked(p)[p] = Aged(wire[p])
        /\ \A q \in Players \ {p} : Asked(p)[q] = wire[q]
    BY <2>2, AskedAt
  <2>7. Ready(p, Asked(p)[p], players', companion', spawns')
    BY <2>1, <2>2, <2>6, ReadyAsked DEF Asking
  <2>8. Handled(p, x)
    BY <1>0, <2>0, <2>1, <2>3, <2>4, <2>5, <2>6, <2>7, QuietlyHandled
  <2> QED
    BY <1>2, <2>1, <2>3, <2>8
<1> QED
  BY <1>1, <1>2

\* A request that ends a fight, and is answered after that.
LEMMA EndFightHandles ==
    ASSUME NEW p \in Players, Asking(p), IsHere(p), EndFight(p),
           NEW x \in Packets, x.kind \in AnswerKinds, x.kind # "ZoneTileGrid",
           x.kind \notin Placing,
           wire' = Replied(Send(Asked(p), players, p, [kind |-> "CombatEnd"]), p, x),
           UNCHANGED <<saved, companion, spawns, transfers, hangups>>
    PROVE  Handled(p, x)
<1> DEFINE end == [kind |-> "CombatEnd"]
           out == Send(Asked(p), players, p, end)
           after == Fighting(players, p, FALSE)
<1>1. /\ ServerInv /\ players \in Insides /\ companion \in Pets /\ spawns \in Mobs
      /\ players[p] \in Entities /\ players[p] # None /\ players[p].connected
  BY HereTyped
<1>2. end \in Packets /\ end.kind \in FightKinds /\ (FALSE <=> end.kind = "CombatStart")
  BY PushTyped DEF FightKinds
<1>3. /\ players' = after
      /\ fights[p] > 0
      /\ fights' = [fights EXCEPT ![p] = @ - 1]
      /\ mapped' = mapped \ {p}
  BY <1>1 DEF EndFight, Fighting
<1>4. wire' = Replied(out, p, x)
  OBVIOUS
<1> HIDE DEF end
<1>5. /\ out \in Wires
      /\ \A q \in Players \ {p} : out[q] = wire[q]
      /\ Ready(p, out[p], after, companion, spawns)
  BY <1>2, FightTold
<1>6. /\ after \in Insides /\ after[p] # None
      /\ after[p].connected = players[p].connected
      /\ after[p].inCombat = FALSE
      /\ \A q \in Players \ {p} : after[q] = players[q]
      /\ \A pets, mobs : StillTrue(players, pets, mobs, after, pets, mobs)
  BY <1>1, FightingTyped
<1> HIDE DEF out, after
<1>7. Kept(p)
  <2>1. fights' \in [Players -> 0 .. MaxFights]
    BY <1>1, <1>3, RadiiAssumption DEF ServerInv
  <2>2. mapped' \in SUBSET Players /\ \A q \in mapped' : fights'[q] > 0
    BY <1>1, <1>3, RadiiAssumption DEF ServerInv
  <2>3. \A q \in Players \ {p} : q \in mapped' <=> q \in mapped
    BY <1>3
  <2> QED
    BY <1>1, <1>3, <1>6, <2>1, <2>2, <2>3 DEF Kept, IsHere, ServerInv
<1>8. ZoneStill
  BY <1>3, <1>6 DEF ZoneStill
<1>9. Ready(p, out[p], players', companion', spawns')
  BY <1>3, <1>5
<1> QED
  BY <1>4, <1>5, <1>7, <1>8, <1>9, QuietlyHandled

\* handleSubmitAction
LEMMA AttackHandles ==
    ASSUME NEW p \in Players, Asking(p), HandleSubmitAction(p)
    PROVE  /\ \E x : Handled(p, x) /\ x.kind = "SubmitActionResult" /\ ~ x.late
           /\ transfers' = transfers
<1> DEFINE x == Answer("SubmitActionResult", TRUE, 0)
<1>0. "SubmitActionResult" \in AnswerKinds /\ "SubmitActionResult" \notin Placing
  BY DEF AnswerKinds, Placing
<1>1. CASE JustReply(p, x)
  BY <1>0, <1>1, AnswerHandles
<1>2. CASE /\ IsHere(p) /\ p \in mapped
           /\ EndFight(p)
           /\ wire' = Replied(Send(Asked(p), players, p, [kind |-> "CombatEnd"]), p, x)
           /\ UNCHANGED <<saved, companion, spawns, transfers, hangups>>
  <2>1. 0 \in Tiles
    BY HereTyped
  <2>2. x \in Packets /\ x.kind = "SubmitActionResult" /\ ~ x.late
    BY <1>0, ConsentTyped
  <2> HIDE DEF x
  <2>3. Handled(p, x)
    BY <1>0, <1>2, <2>2, EndFightHandles
  <2> QED
    BY <1>2, <2>2, <2>3
<1> QED
  BY <1>1, <1>2 DEF HandleSubmitAction

\* handleDebugCommand, ForceCombatEnd
LEMMA ForceCombatEndHandles ==
    ASSUME NEW p \in Players, Asking(p), HandleForceCombatEnd(p)
    PROVE  /\ \E x : Handled(p, x) /\ x.kind = "DebugCommandResponse" /\ ~ x.late
           /\ transfers' = transfers
<1> DEFINE x == Answer("DebugCommandResponse", TRUE, 0)
<1>0. "DebugCommandResponse" \in AnswerKinds /\ "DebugCommandResponse" \notin Placing
  BY DEF AnswerKinds, Placing
<1>1. CASE ~ (IsHere(p) /\ p \in mapped)
  <2>1. JustReply(p, Answer("DebugCommandResponse", FALSE, 0))
    BY <1>1 DEF HandleForceCombatEnd
  <2> QED
    BY <1>0, <2>1, RefusalHandles
<1>2. CASE IsHere(p) /\ p \in mapped
  <2>1. /\ EndFight(p)
        /\ wire' = Replied(Send(Asked(p), players, p, [kind |-> "CombatEnd"]), p, x)
        /\ UNCHANGED <<saved, companion, spawns, transfers, hangups>>
    BY <1>2 DEF HandleForceCombatEnd
  <2>2. 0 \in Tiles
    BY HereTyped
  <2>3. x \in Packets /\ x.kind = "DebugCommandResponse" /\ ~ x.late
    BY <1>0, ConsentTyped
  <2> HIDE DEF x
  <2>4. Handled(p, x)
    BY <1>0, <1>2, <2>1, <2>3, EndFightHandles
  <2> QED
    BY <2>1, <2>3, <2>4
<1> QED
  BY <1>1, <1>2

\* SpawnMob
LEMMA SpawnMobHandles ==
    ASSUME NEW p \in Players, Asking(p), HandleSpawnMob(p)
    PROVE  /\ \E x : Handled(p, x) /\ x.kind = "DebugCommandResponse" /\ ~ x.late
           /\ transfers' = transfers
<1> DEFINE x == Answer("DebugCommandResponse", TRUE, 0)
           start == [kind |-> "CombatStart"]
           out == Send(Asked(p), players, p, start)
           after == Fighting(players, p, TRUE)
<1>0. "DebugCommandResponse" \in AnswerKinds /\ "DebugCommandResponse" \notin Placing
  BY DEF AnswerKinds, Placing
<1>1. CASE ~ IsHere(p) \/ players[p].inCombat
  <2>1. JustReply(p, Answer("DebugCommandResponse", FALSE, 0))
    BY <1>1 DEF HandleSpawnMob
  <2> QED
    BY <1>0, <2>1, RefusalHandles
<1>2. CASE ~ (~ IsHere(p) \/ players[p].inCombat)
  <2>0. IsHere(p)
    BY <1>2
  <2>1. /\ fights[p] < MaxFights
        /\ players' = after
        /\ fights' = [fights EXCEPT ![p] = @ + 1]
        /\ mapped' = mapped \cup {p}
        /\ wire' = Replied(out, p, x)
        /\ UNCHANGED <<saved, companion, spawns, transfers, hangups>>
    BY <1>2 DEF HandleSpawnMob, Fighting
  <2>2. /\ ServerInv /\ players \in Insides /\ companion \in Pets /\ spawns \in Mobs /\ 0 \in Tiles
        /\ players[p] \in Entities /\ players[p] # None /\ players[p].connected
    BY <1>2, HereTyped
  <2>3. x \in Packets /\ x.kind = "DebugCommandResponse" /\ ~ x.late
    BY <1>0, ConsentTyped
  <2>4. start \in Packets /\ start.kind \in FightKinds /\ (TRUE <=> start.kind = "CombatStart")
    BY PushTyped DEF FightKinds
  <2> HIDE DEF x, start
  <2>5. /\ out \in Wires
        /\ \A q \in Players \ {p} : out[q] = wire[q]
        /\ Ready(p, out[p], after, companion, spawns)
    BY <2>0, <2>4, FightTold
  <2>6. /\ after \in Insides /\ after[p] # None
        /\ after[p].connected = players[p].connected
        /\ \A q \in Players \ {p} : after[q] = players[q]
        /\ \A pets, mobs : StillTrue(players, pets, mobs, after, pets, mobs)
    BY <2>2, FightingTyped
  <2> HIDE DEF out, after
  <2>7. Kept(p)
    <3>1. fights' \in [Players -> 0 .. MaxFights]
      BY <2>1, <2>2, RadiiAssumption DEF ServerInv
    <3>2. mapped' \in SUBSET Players /\ \A q \in mapped' : fights'[q] > 0
      BY <2>1, <2>2, RadiiAssumption DEF ServerInv
    <3>3. p \in mapped' /\ \A q \in Players \ {p} : q \in mapped' <=> q \in mapped
      BY <2>1
    <3> QED
      BY <2>1, <2>2, <2>6, <3>1, <3>2, <3>3 DEF Kept, IsHere, ServerInv
  <2>8. ZoneStill
    BY <2>1, <2>6 DEF ZoneStill
  <2>9. Ready(p, out[p], players', companion', spawns')
    BY <2>1, <2>5
  <2>10. Handled(p, x)
    BY <1>0, <2>0, <2>1, <2>3, <2>5, <2>7, <2>8, <2>9, QuietlyHandled
  <2> QED
    BY <2>1, <2>3, <2>10
<1> QED
  BY <1>1, <1>2

\* SpawnAi
LEMMA SpawnAiHandles ==
    ASSUME NEW p \in Players, Asking(p), HandleSpawnAi(p)
    PROVE  /\ \E x : Handled(p, x) /\ x.kind = "DebugCommandResponse" /\ ~ x.late
           /\ transfers' = transfers
<1> DEFINE x == Answer("DebugCommandResponse", TRUE, 0)
           pets == [companion EXCEPT ![p] = players[p].tile]
<1>0. "DebugCommandResponse" \in AnswerKinds /\ "DebugCommandResponse" \notin Placing
  BY DEF AnswerKinds, Placing
<1>1. CASE ~ IsHere(p)
  <2>1. JustReply(p, Answer("DebugCommandResponse", FALSE, 0))
    BY <1>1 DEF HandleSpawnAi
  <2> QED
    BY <1>0, <2>1, RefusalHandles
<1>2. CASE IsHere(p)
  <2>1. /\ companion' = pets
        /\ wire' = Replied(Broadcast(Asked(p), players, pets, spawns), p, x)
        /\ UNCHANGED <<players, saved, spawns, fights, mapped, transfers, hangups>>
    BY <1>2 DEF HandleSpawnAi
  <2>2. /\ ServerInv /\ players \in Insides /\ companion \in Pets /\ spawns \in Mobs /\ 0 \in Tiles
        /\ players[p].tile \in Street /\ Reachable(players, p)
        /\ wire \in Wires /\ wire[p] \in Queues
        /\ players[p].inCombat => p \in mapped
    BY <1>2, HereTyped
  <2>3. x \in Packets /\ x.kind = "DebugCommandResponse" /\ ~ x.late
    BY <1>0, ConsentTyped
  <2>4. pets \in Pets
    BY <2>2 DEF Pets
  <2> HIDE DEF x, pets
  <2>5. /\ Asked(p) \in Wires /\ Asked(p)[p] = Aged(wire[p])
        /\ \A q \in Players \ {p} : Asked(p)[q] = wire[q]
    BY <2>2, AskedAt
  <2>6. Ready(p, Asked(p)[p], players, companion, spawns)
    BY <2>2, <2>5, ReadyAsked DEF Asking
  <2>7. Kept(p)
    BY <1>2, <2>1, <2>2, <2>4 DEF Kept, IsHere, ServerInv
  <2>8. Handled(p, x)
    BY <1>0, <1>2, <2>1, <2>2, <2>3, <2>5, <2>6, <2>7, OpenlyHandled
  <2> QED
    BY <2>1, <2>3, <2>8
<1> QED
  BY <1>1, <1>2

\* TeleportToZone, to another zone.
LEMMA TeleportHandles ==
    ASSUME NEW p \in Players, Asking(p), HandleTeleportAway(p)
    PROVE  /\ \E x : /\ Handled(p, x) /\ x.kind = "DebugCommandResponse" /\ ~ x.late
                     /\ p \notin transfers => (x.ok <=> p \in transfers')
           /\ p \notin transfers => (IsHere(p) <=> p \in transfers')
           /\ players'[p] # None => ~ players'[p].inCombat
<1> DEFINE x == Answer("DebugCommandResponse", TRUE, 0)
           y == Answer("DebugCommandResponse", FALSE, 0)
           fled == Fled(p)
           after == Fighting(players, p, FALSE)
<1>0. "DebugCommandResponse" \in AnswerKinds /\ "DebugCommandResponse" \notin Placing
  BY DEF AnswerKinds, Placing
<1>1. /\ ServerInv /\ players \in Insides /\ companion \in Pets /\ spawns \in Mobs /\ 0 \in Tiles
      /\ IsHere(p) => /\ players[p] \in Entities /\ players[p] # None /\ players[p].connected
                      /\ players[p].tile \in Street
      /\ ~ IsHere(p) /\ players[p] # None => ~ players[p].inCombat
  BY HereTyped
<1>2. /\ x \in Packets /\ x.kind = "DebugCommandResponse" /\ x.ok = TRUE /\ ~ x.late
      /\ y \in Packets /\ y.kind = "DebugCommandResponse" /\ y.ok = FALSE /\ ~ y.late
  <2>0. 0 \in Tiles
    BY <1>1
  <2>1. x \in Packets /\ x.kind = "DebugCommandResponse" /\ x.ok = TRUE /\ ~ x.late
    BY <1>0, ConsentTyped
  <2>2. y \in Packets /\ y.kind = "DebugCommandResponse" /\ y.ok = FALSE /\ ~ y.late
    BY <1>0, RefusalTyped
  <2> QED
    BY <2>1, <2>2
<1>3. CASE ~ IsHere(p)
  <2>1. JustReply(p, y)
    BY <1>3 DEF HandleTeleportAway
  <2>2. transfers' = transfers /\ players' = players
    BY <2>1 DEF JustReply, zone
  <2> HIDE DEF y
  <2>3. Handled(p, y)
    BY <1>0, <1>2, <2>1, JustReplyHandles
  <2> QED
    BY <1>1, <1>2, <1>3, <2>2, <2>3
<1>4. CASE IsHere(p)
  <2>1. /\ players' = [players EXCEPT ![p].inCombat = @ /\ ~ fled.ended]
        /\ saved' = [saved EXCEPT ![p] = players[p].tile]
        /\ transfers' = transfers \cup {p}
        /\ fights' = IF fled.ended THEN [fights EXCEPT ![p] = @ - 1] ELSE fights
        /\ mapped' = IF fled.ended THEN mapped \ {p} ELSE mapped
        /\ wire' = Replied(fled.out, p, x)
        /\ UNCHANGED <<companion, spawns, hangups>>
    BY <1>4 DEF HandleTeleportAway
  <2>2. /\ fled.out \in Wires
        /\ \A q \in Players \ {p} : fled.out[q] = wire[q]
        /\ Ready(p, fled.out[p], after, companion, spawns)
        /\ fled.ended <=> p \in mapped
        /\ ~ (players[p].inCombat /\ ~ fled.ended)
    BY <1>4, FledReady
  <2> HIDE DEF fled, x
  <2>3. players' = after
    BY <2>1, <2>2 DEF Fighting
  <2>4. /\ after \in Insides /\ after[p] # None
        /\ after[p].connected = players[p].connected
        /\ after[p].inCombat = FALSE
        /\ \A q \in Players \ {p} : after[q] = players[q]
        /\ \A pets, mobs : StillTrue(players, pets, mobs, after, pets, mobs)
    BY <1>1, <1>4, FightingTyped
  <2> HIDE DEF after
  <2>5. Kept(p)
    <3>1. fights' \in [Players -> 0 .. MaxFights]
      BY <1>1, <2>1, <2>2, RadiiAssumption DEF ServerInv
    <3>2. mapped' \in SUBSET Players /\ \A q \in mapped' : fights'[q] > 0
      BY <1>1, <2>1, <2>2, RadiiAssumption DEF ServerInv
    <3>3. \A q \in Players \ {p} : /\ q \in mapped' <=> q \in mapped
                                   /\ q \in transfers' <=> q \in transfers
      BY <2>1
    <3>4. saved' \in [Players -> Street] /\ transfers' \in SUBSET Players
      BY <1>1, <1>4, <2>1 DEF ServerInv
    <3> QED
      BY <1>1, <1>4, <2>1, <2>3, <2>4, <3>1, <3>2, <3>3, <3>4 DEF Kept, IsHere
  <2>6. ZoneStill
    BY <2>1, <2>3, <2>4 DEF ZoneStill
  <2>7. Ready(p, fled.out[p], players', companion', spawns')
    BY <2>1, <2>2, <2>3
  <2>8. Handled(p, x)
    BY <1>0, <1>2, <1>4, <2>1, <2>2, <2>5, <2>6, <2>7, QuietlyHandled
  <2> QED
    BY <1>2, <1>4, <2>1, <2>3, <2>4, <2>8
<1> QED
  BY <1>3, <1>4
-----------------------------------------------------------------------------
(* Requests that nothing answers *)

\* What is said to a connection without a player, and what needs no answer.
Unanswered(p) ==
    /\ ServerInv'
    /\ Others(p)
    /\ UNCHANGED zone
    /\ Ready(p, wire'[p], players, companion, spawns)

\* Nothing is sent.
LEMMA SilenceHandles ==
    ASSUME NEW p \in Players, Asking(p), wire' = Asked(p), UNCHANGED zone
    PROVE  Unanswered(p)
<1>1. ServerInv /\ wire \in Wires /\ wire[p] \in Queues
  BY HereTyped
<1>2. /\ wire' \in Wires /\ wire'[p] = Aged(wire[p])
      /\ \A q \in Players : q # p => wire'[q] = wire[q]
  BY <1>1, AskedAt
<1>3. Ready(p, Aged(wire[p]), players, companion, spawns)
  BY <1>1, ReadyAsked DEF Asking
<1>4. UNCHANGED <<players, saved, companion, spawns, fights, mapped, transfers, hangups>>
  BY DEF zone
<1>5. ServerInv'
  BY <1>1, <1>2, <1>4 DEF ServerInv
<1>6. ZoneStill
  BY <1>4 DEF ZoneStill, StillTrue
<1>7. Others(p)
  BY <1>1, <1>2, <1>4, <1>6, QuietSpares DEF Others
<1> QED
  BY <1>2, <1>3, <1>5, <1>7 DEF Unanswered

\* handleNpcInteract
LEMMA TalkHandles ==
    ASSUME NEW p \in Players, Asking(p), HandleNpcInteract(p)
    PROVE  IF IsHere(p)
           THEN /\ \E x : /\ Handled(p, x) /\ ~ x.late
                          /\ x.kind \in {"MerchantOpen", "SystemMessage"}
                /\ transfers' = transfers
           ELSE Unanswered(p)
<1>1. CASE ~ IsHere(p)
  <2>1. wire' = Asked(p) /\ UNCHANGED zone
    BY <1>1 DEF HandleNpcInteract
  <2> QED
    BY <1>1, <2>1, SilenceHandles
<1>2. CASE IsHere(p)
  <2> DEFINE kind == IF Distance(players[p].tile, NpcTile) <= NpcRadius
                     THEN "MerchantOpen" ELSE "SystemMessage"
  <2>1. JustReply(p, Answer(kind, TRUE, 0))
    BY <1>2 DEF HandleNpcInteract
  <2>2. /\ kind \in {"MerchantOpen", "SystemMessage"}
        /\ kind \in AnswerKinds /\ kind # "ZoneTileGrid" /\ kind \notin Placing
    BY DEF AnswerKinds, Placing
  <2> HIDE DEF kind
  <2>3. /\ \E x : Handled(p, x) /\ x.kind = kind /\ ~ x.late
        /\ transfers' = transfers
    BY <2>1, <2>2, AnswerHandles
  <2> QED
    BY <1>2, <2>2, <2>3
<1> QED
  BY <1>1, <1>2

\* deliverSayChat
LEMMA SayHandles ==
    ASSUME NEW p \in Players, Asking(p), HandleSay(p)
    PROVE  Unanswered(p)
<1>0. UNCHANGED zone
  BY DEF HandleSay
<1>1. CASE ~ IsHere(p)
  <2>1. wire' = Asked(p)
    BY <1>1 DEF HandleSay
  <2> QED
    BY <1>0, <2>1, SilenceHandles
<1>2. CASE IsHere(p)
  <2> DEFINE chat == [kind |-> "ChatDeliver"]
             Hears(q) == /\ Reachable(players, q)
                         /\ Distance(players[q].tile, players[p].tile) <= SayRadius
  <2>1. wire' = [q \in Players |-> IF Hears(q) THEN Post(Asked(p)[q], chat) ELSE Asked(p)[q]]
    BY <1>2 DEF HandleSay
  <2>2. chat \in Packets /\ chat.kind = "ChatDeliver"
    BY PushTyped
  <2>3. \A q \in Players : Hears(q) => Reachable(players, q)
    OBVIOUS
  <2> HIDE DEF Hears
  <2>4. ServerInv /\ wire \in Wires /\ wire[p] \in Queues /\ \A q \in Players : wire[q] \in Queues
    BY HereTyped DEF Wires
  <2>5. /\ Asked(p) \in Wires /\ Asked(p)[p] = Aged(wire[p])
        /\ \A q \in Players : q # p => Asked(p)[q] = wire[q]
    BY <2>4, AskedAt
  <2>6. \A queue \in Queues :
            Post(queue, chat) = Append(queue, chat) /\ Append(queue, chat) \in Queues
    BY <2>2, PostCases, AppendPlaces
  <2>7. \A q \in Players : Asked(p)[q] \in Queues
    BY <2>5 DEF Wires
  <2>8. \A q \in Players : wire'[q] = IF Hears(q) THEN Append(Asked(p)[q], chat) ELSE Asked(p)[q]
    BY <2>1, <2>6, <2>7
  <2>9. wire' \in Wires
    <3>1. \A q \in Players : wire'[q] \in Queues
      BY <2>6, <2>7, <2>8
    <3> QED
      BY <2>1, <3>1 DEF Wires
  <2>10. UNCHANGED <<players, saved, companion, spawns, fights, mapped, transfers, hangups>>
    BY <1>0 DEF zone
  <2>11. ServerInv'
    BY <2>4, <2>9, <2>10 DEF ServerInv
  <2>12. ZoneStill
    BY <2>10 DEF ZoneStill, StillTrue
  <2>13. Others(p)
    <3> SUFFICES ASSUME NEW q \in Players \ {p} PROVE Spared(q)
      BY DEF Others
    <3>1. CASE ~ Hears(q)
      <4>1. wire'[q] = wire[q]
        BY <2>5, <2>8, <3>1
      <4> QED
        BY <2>4, <2>10, <2>12, <4>1, QuietSpares
    <3>2. CASE Hears(q)
      <4>1. wire'[q] = Append(wire[q], chat) /\ Reachable(players, q)
        BY <2>3, <2>5, <2>8, <3>2
      <4>2. Pushable(q, chat)
        BY <2>2 DEF Pushable
      <4>3. Grow(q, wire[q], wire'[q])
        <5>1. Grow(q, wire[q], Post(wire[q], chat))
          BY <2>2, <2>4, <4>2, GrowPost
        <5>2. Post(wire[q], chat) = wire'[q]
          BY <2>4, <2>6, <4>1
        <5> QED
          BY <5>1, <5>2
      <4> QED
        BY <2>10, <2>12, <4>1, <4>3 DEF Spared
    <3> QED
      BY <3>1, <3>2
  <2>14. Ready(p, Aged(wire[p]), players, companion, spawns)
    BY <2>4, ReadyAsked DEF Asking
  <2>15. Ready(p, Append(Aged(wire[p]), chat), players, companion, spawns)
    <3> DEFINE queue == Aged(wire[p])
    <3>0. queue \in Queues
      BY <2>14 DEF Ready
    <3>1. /\ chat.kind # "EntitySnapshot" /\ chat.kind \notin AnswerKinds
          /\ chat.kind \notin FightKinds /\ chat.kind # "ZoneTileGrid" /\ chat.kind \notin Placing
      BY <2>2, KindsApart DEF AnswerKinds, Placing
    <3> HIDE DEF queue, chat
    <3>2. Append(queue, chat) \in Queues
      BY <2>2, <3>0, AppendPlaces
    <3>3. Ordered(p, Append(queue, chat), client[p].phase)
      BY <2>2, <2>14, <3>0, <3>1, ShownAppend DEF Ready, queue
    <3>4. AnswersIn(wire[p]) = {} => AnswersIn(Append(queue, chat)) = {}
      BY <2>2, <2>14, <3>0, <3>1, AnswerAppended DEF Ready, queue
    <3>5. ASSUME Reachable(players, p)
          PROVE  Screen(p, Append(queue, chat), players, companion, spawns)
      <4>1. Screen(p, queue, players, companion, spawns)
        BY <2>14, <3>5 DEF Ready, queue
      <4>2. Told(Append(queue, chat), client[p], players[p].inCombat)
        BY <2>2, <3>0, <3>1, <4>1, ToldAppend DEF Screen
      <4>3. /\ Picture(Append(queue, chat), client[p], players, companion, spawns)
            /\ Place(p, Append(queue, chat), client[p], players[p].tile)
        BY <2>2, <3>0, <3>1, <4>1, ShownAppend DEF Screen
      <4> QED
        BY <4>2, <4>3 DEF Screen
    <3> QED
      BY <3>2, <3>3, <3>4, <3>5 DEF Ready, queue
  <2>16. Ready(p, wire'[p], players, companion, spawns)
    BY <2>5, <2>8, <2>14, <2>15
  <2> QED
    BY <1>0, <2>11, <2>13, <2>16 DEF Unanswered
<1> QED
  BY <1>1, <1>2
-----------------------------------------------------------------------------
(* The invariant, step by step *)

\* What the invariant says of the types of the state.
LEMMA InvServer ==
    ASSUME Inv
    PROVE  /\ ServerInv
           /\ client \in [Players -> Clients]
           /\ \A p \in Players : client[p] \in Clients /\ wire[p] \in Queues
  BY DEF Inv, TypeInv, ServerInv, Wires

\* Every step is about one player. To the others it does no more than the zone may push.
LEMMA OneStep ==
    ASSUME Inv, NEW p \in Players, ServerInv', Others(p),
           client' \in [Players -> Clients],
           crossing' \in [Players -> Crossing],
           acts' \in 0 .. MaxActs, timeouts' \in 0 .. acts', timeouts' = 0 => timeouts = 0,
           \A q \in Players \ {p} : client'[q] = client[q] /\ crossing'[q] = crossing[q],
           Connection(p)', Combat(p)', Follows(p)'
    PROVE  Inv'
<1>1. TypeInv'
  BY DEF TypeInv, ServerInv, Wires
<1>2. ASSUME NEW q \in Players \ {p} PROVE Connection(q)' /\ Combat(q)' /\ Follows(q)'
  <2>1. /\ ServerInv /\ client[q] \in Clients
        /\ Connection(q) /\ Combat(q) /\ Follows(q) /\ Spared(q)
    BY InvServer DEF Inv, Others
  <2> QED
    BY <2>1, SparedFollows
<1>3. \A q \in Players : Connection(q)' /\ Combat(q)' /\ Follows(q)'
  BY <1>2
<1> QED
  BY <1>1, <1>3 DEF Inv

\* What a call waits for has no part in what the screen shows.
LEMMA SameScreen ==
    ASSUME NEW c, NEW d, d.window = c.window, d.missed = c.missed, d.queue = c.queue,
           d.view = c.view, d.tile = c.tile, NEW queue
    PROVE  /\ \A fighting : Told(queue, c, fighting) => Told(queue, d, fighting)
           /\ \A inside, pets, mobs :
                  Picture(queue, c, inside, pets, mobs) => Picture(queue, d, inside, pets, mobs)
           /\ \A p, tile : Place(p, queue, c, tile) => Place(p, queue, d, tile)
<1>1. Behind(d) = Behind(c)
  BY DEF Behind
<1> QED
  BY <1>1 DEF Told, Picture, Place

\* A player who may act is asking.
LEMMA ActsAsks ==
    ASSUME Inv, NEW p \in Players, client[p].phase \in {"draining", "in"}
    PROVE  Asking(p)
<1>1. Connection(p) /\ Combat(p) /\ Follows(p) /\ ServerInv /\ client[p] \in Clients
  BY InvServer DEF Inv
<1>2. IsHere(p) => Reachable(players, p)
  BY <1>1 DEF Connection, Away, IsHere, Reachable
<1> QED
  BY <1>1, <1>2 DEF Asking

\* A call is made.
LEMMA CallTyped ==
    ASSUME Inv, NEW p \in Players, NEW call \in {None} \cup Calling,
           client' = [client EXCEPT ![p].call = call]
    PROVE  /\ client' \in [Players -> Clients]
           /\ \A q \in Players \ {p} : client'[q] = client[q]
           /\ client'[p].phase = client[p].phase /\ client'[p].got = client[p].got
           /\ client'[p].call = call
           /\ client'[p].tile = client[p].tile /\ client'[p].queue = client[p].queue
           /\ client'[p].view = client[p].view /\ client'[p].window = client[p].window
           /\ client'[p].missed = client[p].missed
<1>1. client \in [Players -> Clients] /\ client[p] \in Clients
  BY InvServer
<1> DEFINE d == [client[p] EXCEPT !.call = call]
<1>2. /\ d \in Clients
      /\ d.phase = client[p].phase /\ d.got = client[p].got /\ d.call = call
      /\ d.tile = client[p].tile /\ d.queue = client[p].queue
      /\ d.view = client[p].view /\ d.window = client[p].window
      /\ d.missed = client[p].missed
  BY <1>1 DEF Clients
<1>3. client' = [client EXCEPT ![p] = d]
  OBVIOUS
<1> HIDE DEF d
<1> QED
  BY <1>1, <1>2, <1>3

\* A request that is answered, now or by WorldLogin.
LEMMA RequestKeeps ==
    ASSUME Inv, NEW p \in Players, Acts(p), NEW call \in Calling \ {"recalled"},
           client' = [client EXCEPT ![p].call = call], UNCHANGED timeouts,
           crossing' \in [Players -> Crossing],
           \A q \in Players \ {p} : crossing'[q] = crossing[q],
           NEW x, Handled(p, x), ~ x.late,
           call \in FledCalls /\ players'[p] # None => ~ players'[p].inCombat,
           timeouts = 0 /\ p \notin transfers =>
               \/ Decides(call, x) /\ p \notin transfers'
               \/ /\ ~ Decides(call, x) /\ p \in transfers' /\ Owes(crossing'[p])
                  /\ call \in {"portal", "teleport", "teleported"}
    PROVE  Inv'
<1>1. /\ client[p].phase = "in" /\ client[p].call = None
      /\ acts < MaxActs /\ acts' = acts + 1
  BY DEF Acts
<1>2. call \notin {None, "recalled"} /\ call \in {None} \cup Calling
  BY CallsAssumption DEF Calling
<1>3. /\ client' \in [Players -> Clients]
      /\ \A q \in Players \ {p} : client'[q] = client[q]
      /\ client'[p].phase = client[p].phase /\ client'[p].got = client[p].got
      /\ client'[p].call = call
      /\ client'[p].tile = client[p].tile /\ client'[p].queue = client[p].queue
      /\ client'[p].view = client[p].view /\ client'[p].window = client[p].window
      /\ client'[p].missed = client[p].missed
  BY CallTyped
<1>4. Connection(p) /\ Follows(p)
  BY DEF Inv
<1>5. /\ ServerInv' /\ Others(p) /\ hangups' = hangups
      /\ IsHere(p)' <=> IsHere(p)
      /\ players'[p] # None /\ players'[p].inCombat => players'[p].connected /\ p \in mapped'
      /\ Served(p, wire'[p], x, players', companion', spawns')
  BY DEF Handled
<1>6. Connection(p)'
  BY <1>1, <1>3, <1>4, <1>5 DEF Connection, Away
<1>7. Combat(p)'
  BY <1>3, <1>5 DEF Combat
<1>8. ASSUME timeouts = 0
      PROVE  Waiting(wire'[p], call, p \in transfers', crossing'[p], IsHere(p)')
  <2>1. AnswersIn(wire[p]) = {} /\ p \notin transfers
    BY <1>1, <1>4, <1>8 DEF Follows, Expecting, Waiting
  <2>2. OneAnswer(wire'[p], x) /\ wire'[p] \in Queues
    BY <1>5, <2>1 DEF Served
  <2>3. CASE Decides(call, x) /\ p \notin transfers'
    <3>1. Closed(wire'[p], call, crossing'[p])
      BY <2>2, <2>3, AnswerDecides
    <3> QED
      BY <1>2, <2>3, <3>1 DEF Waiting
  <2>4. CASE /\ ~ Decides(call, x) /\ p \in transfers' /\ Owes(crossing'[p])
             /\ call \in {"portal", "teleport", "teleported"}
    <3>1. Open(wire'[p], call)
      BY <2>2, <2>4, AnswerDecides
    <3> QED
      BY <1>2, <2>4, <3>1 DEF Waiting
  <2> QED
    BY <1>8, <2>1, <2>3, <2>4
<1>9. timeouts' = 0 =>
          Expecting(wire'[p], client'[p], p \in transfers', crossing'[p], IsHere(p)')
  BY <1>1, <1>3, <1>8 DEF Expecting
<1>10. Ordered(p, wire'[p], client'[p].phase)
  BY <1>3, <1>5 DEF Served
<1>11. ASSUME Reachable(players, p)'
       PROVE  /\ Told(wire'[p], client'[p], players'[p].inCombat)
              /\ Picture(wire'[p], client'[p], players', companion', spawns')
              /\ Place(p, wire'[p], client'[p], players'[p].tile)
  <2>1. Screen(p, wire'[p], players', companion', spawns')
    BY <1>5, <1>11 DEF Served, Reachable
  <2> QED
    BY <1>3, <2>1, SameScreen DEF Screen
<1>12. Follows(p)'
  BY <1>9, <1>10, <1>11 DEF Follows
<1>13. acts' \in 0 .. MaxActs /\ timeouts' \in 0 .. acts'
  BY <1>1, BoundsAssumption DEF Inv, TypeInv
<1> QED
  BY <1>3, <1>5, <1>6, <1>7, <1>12, <1>13, OneStep

\* One that nothing answers.
LEMMA SilenceKeeps ==
    ASSUME Inv, NEW p \in Players, Acts(p), NEW call \in {None, "talk"},
           client' = [client EXCEPT ![p].call = call], call = "talk" => ~ IsHere(p),
           UNCHANGED <<crossing, timeouts>>, Unanswered(p)
    PROVE  Inv'
<1>1. /\ client[p].phase = "in" /\ client[p].call = None
      /\ acts < MaxActs /\ acts' = acts + 1
  BY DEF Acts
<1>2. call \in {None} \cup Calling /\ call # "recalled"
  BY CallsAssumption DEF Calling, Answers
<1>3. /\ client' \in [Players -> Clients]
      /\ \A q \in Players \ {p} : client'[q] = client[q]
      /\ client'[p].phase = client[p].phase /\ client'[p].got = client[p].got
      /\ client'[p].call = call
      /\ client'[p].tile = client[p].tile /\ client'[p].queue = client[p].queue
      /\ client'[p].view = client[p].view /\ client'[p].window = client[p].window
      /\ client'[p].missed = client[p].missed
  BY <1>2, CallTyped
<1>4. Connection(p) /\ Combat(p) /\ Follows(p)
  BY DEF Inv
<1>5. /\ ServerInv' /\ Others(p)
      /\ UNCHANGED <<players, saved, companion, spawns, fights, mapped, transfers, hangups>>
      /\ Ready(p, wire'[p], players, companion, spawns)
  BY DEF Unanswered, zone
<1>6. Connection(p)'
  BY <1>1, <1>3, <1>4, <1>5 DEF Connection, Away, IsHere
<1>7. Combat(p)'
  <2>1. call \notin FledCalls
    BY CallsAssumption DEF FledCalls, Answers
  <2> QED
    BY <1>3, <1>4, <1>5, <2>1 DEF Combat
<1>8. ASSUME timeouts = 0
      PROVE  Waiting(wire'[p], call, p \in transfers', crossing'[p], IsHere(p)')
  <2>1. AnswersIn(wire[p]) = {} /\ p \notin transfers
    BY <1>1, <1>4, <1>8 DEF Follows, Expecting, Waiting
  <2>2. AnswersIn(wire'[p]) = {} /\ p \notin transfers' /\ (IsHere(p)' <=> IsHere(p))
    BY <1>5, <2>1 DEF Ready, IsHere
  <2> QED
    BY <2>2 DEF Waiting
<1>9. timeouts' = 0 =>
          Expecting(wire'[p], client'[p], p \in transfers', crossing'[p], IsHere(p)')
  BY <1>1, <1>3, <1>8 DEF Expecting
<1>10. Ordered(p, wire'[p], client'[p].phase)
  BY <1>3, <1>5 DEF Ready
<1>11. ASSUME Reachable(players, p)'
       PROVE  /\ Told(wire'[p], client'[p], players'[p].inCombat)
              /\ Picture(wire'[p], client'[p], players', companion', spawns')
              /\ Place(p, wire'[p], client'[p], players'[p].tile)
  <2>1. Screen(p, wire'[p], players, companion, spawns)
    BY <1>5, <1>11 DEF Ready, Reachable
  <2>2. /\ Told(wire'[p], client'[p], players[p].inCombat)
        /\ Picture(wire'[p], client'[p], players, companion, spawns)
        /\ Place(p, wire'[p], client'[p], players[p].tile)
    BY <1>3, <2>1, SameScreen DEF Screen
  <2> QED
    BY <1>5, <2>2
<1>12. Follows(p)'
  BY <1>9, <1>10, <1>11 DEF Follows
<1>13. acts' \in 0 .. MaxActs /\ timeouts' \in 0 .. acts'
       /\ crossing' \in [Players -> Crossing]
  BY <1>1, BoundsAssumption DEF Inv, TypeInv
<1> QED
  BY <1>3, <1>5, <1>6, <1>7, <1>12, <1>13, OneStep

\* Changing two fields of a crossing changes nothing else of it.
LEMMA CrossingFields ==
    ASSUME NEW x \in [asked : Nat, released : BOOLEAN, again : BOOLEAN],
           NEW a \in Nat, NEW b \in BOOLEAN
    PROVE  /\ LET y == [x EXCEPT !.asked = a, !.again = b]
              IN  /\ y \in [asked : Nat, released : BOOLEAN, again : BOOLEAN]
                  /\ y.asked = a /\ y.released = x.released /\ y.again = b
           /\ LET y == [x EXCEPT !.asked = a, !.released = b]
              IN  /\ y \in [asked : Nat, released : BOOLEAN, again : BOOLEAN]
                  /\ y.asked = a /\ y.released = b /\ y.again = x.again
           /\ LET y == [x EXCEPT !.released = b]
              IN  /\ y \in [asked : Nat, released : BOOLEAN, again : BOOLEAN]
                  /\ y.asked = x.asked /\ y.released = b /\ y.again = x.again
  OBVIOUS

\* Who asks while a request of his is open has asked again.
LEMMA AskingTyped ==
    ASSUME crossing \in [Players -> Crossing], NEW p \in Players, AsksWorldLogin(p)
    PROVE  /\ crossing' \in [Players -> Crossing]
           /\ \A q \in Players \ {p} : crossing'[q] = crossing[q]
           /\ Owes(crossing'[p])
<1> DEFINE x == crossing[p]
           y == [x EXCEPT !.asked = @ + 1, !.again = @ \/ Owes(x)]
<1>1. x \in Crossing /\ crossing' = [crossing EXCEPT ![p] = y]
  BY DEF AsksWorldLogin
<1>2. /\ x.asked \in Nat /\ x.released \in BOOLEAN /\ x.again \in BOOLEAN
      /\ y \in [asked : Nat, released : BOOLEAN, again : BOOLEAN]
      /\ y.asked = x.asked + 1 /\ y.released = x.released /\ y.again = (x.again \/ Owes(x))
  <2>1. x \in [asked : Nat, released : BOOLEAN, again : BOOLEAN]
    BY <1>1 DEF Crossing
  <2>2. x.asked + 1 \in Nat /\ (x.again \/ Owes(x)) \in BOOLEAN
    BY <2>1
  <2> QED
    BY <2>1, <2>2, CrossingFields
<1> HIDE DEF x
<1>3. Owes(x) \in BOOLEAN /\ (~ Owes(x) => x.asked = 0 /\ ~ x.released)
  BY <1>2 DEF Owes
<1>4. ~ (x.again \/ Owes(x)) =>
          (x.asked + 1) + (IF x.released THEN 1 ELSE 0) <= 1
  BY <1>2, <1>3
<1>5. y \in Crossing /\ Owes(y)
  <2>1. /\ y.asked = x.asked + 1 /\ y.released = x.released
        /\ y.again = (x.again \/ Owes(x))
    BY <1>2
  <2>2. y \in [asked : Nat, released : BOOLEAN, again : BOOLEAN]
    BY <1>2
  <2>3. ~ y.again => y.asked + (IF y.released THEN 1 ELSE 0) <= 1
    BY <1>4, <2>1
  <2>4. y.asked > 0
    BY <1>2, <2>1
  <2> HIDE DEF y
  <2> QED
    BY <2>2, <2>3, <2>4 DEF Crossing, Owes
<1> HIDE DEF y
<1> QED
  BY <1>1, <1>5

\* Each request in turn.
LEMMA AsksKeeps ==
    ASSUME Inv, NEW p \in Players, Asks(p)
    PROVE  Inv'
<1>0. /\ crossing \in [Players -> Crossing]
      /\ {"move", "portal", "stuck", "talk", "attack", "trade", "debug", "teleport", "recall"}
             \subseteq Calling \ {"recalled"}
  BY DEF Inv, TypeInv, Calling, Answers
<1>1. ASSUME NEW request, NEW call, Calls(p, request, call)
      PROVE  /\ Acts(p) /\ client' = [client EXCEPT ![p].call = call] /\ UNCHANGED timeouts
             /\ Asking(p)
  BY <1>1, ActsAsks DEF Calls, Acts
<1>2. ASSUME NEW x
      PROVE  /\ x.kind = "MoveResult" => Decides("move", x)
             /\ x.kind = "PlayerCommandResult" => Decides("stuck", x)
             /\ x.kind \in {"MerchantOpen", "SystemMessage"} => Decides("talk", x)
             /\ x.kind = "SubmitActionResult" => Decides("attack", x)
             /\ x.kind = "TradeResult" => Decides("trade", x)
             /\ x.kind = "DebugCommandResponse" => Decides("debug", x) /\ Decides("recall", x)
             /\ x.kind = "DebugCommandResponse" => (Decides("teleport", x) <=> ~ x.ok)
             /\ x.kind = "UsePortalResult" => (Decides("portal", x) <=> ~ x.ok)
  BY DEF Decides, Ends, Answers
<1>3. CASE Move(p)
  <2>1. Calls(p, "move", "move") /\ UNCHANGED crossing /\ \E to : HandleMoveIntent(p, to)
    BY <1>3 DEF Move
  <2>2. /\ \E x : Handled(p, x) /\ x.kind = "MoveResult" /\ ~ x.late
        /\ transfers' = transfers
    BY <1>1, <2>1, MoveHandles
  <2>3. "move" \notin FledCalls
    BY DEF FledCalls
  <2> QED
    BY <1>0, <1>1, <1>2, <2>1, <2>2, <2>3, RequestKeeps
<1>4. CASE UsePortal(p)
  <2>1. /\ Calls(p, "portal", "portal") /\ HandleUsePortal(p)
        /\ IF PortalOpens(p) THEN AsksWorldLogin(p) ELSE UNCHANGED crossing
    BY <1>4 DEF UsePortal
  <2>2. /\ \E x : /\ Handled(p, x) /\ x.kind = "UsePortalResult" /\ ~ x.late
                  /\ p \notin transfers => (x.ok <=> p \in transfers')
        /\ p \notin transfers => (PortalOpens(p) <=> p \in transfers')
    BY <1>1, <2>1, PortalHandles
  <2>3. "portal" \notin FledCalls
    BY DEF FledCalls
  <2>4. /\ crossing' \in [Players -> Crossing]
        /\ \A q \in Players \ {p} : crossing'[q] = crossing[q]
        /\ PortalOpens(p) => Owes(crossing'[p])
    BY <1>0, <2>1, AskingTyped
  <2> QED
    BY <1>0, <1>1, <1>2, <2>1, <2>2, <2>3, <2>4, RequestKeeps
<1>5. CASE Talk(p)
  <2>1. Calls(p, "talk", "talk") /\ UNCHANGED crossing /\ HandleNpcInteract(p)
    BY <1>5 DEF Talk
  <2>2. CASE IsHere(p)
    <3>1. /\ \E x : /\ Handled(p, x) /\ ~ x.late
                    /\ x.kind \in {"MerchantOpen", "SystemMessage"}
          /\ transfers' = transfers
      BY <1>1, <2>1, <2>2, TalkHandles
    <3>2. "talk" \notin FledCalls
      BY DEF FledCalls
    <3> QED
      BY <1>0, <1>1, <1>2, <2>1, <3>1, <3>2, RequestKeeps
  <2>3. CASE ~ IsHere(p)
    <3>1. Unanswered(p)
      BY <1>1, <2>1, <2>3, TalkHandles
    <3> QED
      BY <1>1, <2>1, <2>3, <3>1, SilenceKeeps
  <2> QED
    BY <2>2, <2>3
<1>6. CASE Stuck(p)
  <2>1. /\ Calls(p, "stuck", "stuck") /\ UNCHANGED crossing
        /\ HandleRelocation(p, "PlayerCommandResult")
    BY <1>6 DEF Stuck
  <2>2. /\ \E x : Handled(p, x) /\ x.kind = "PlayerCommandResult" /\ ~ x.late
        /\ p \in transfers' => p \in transfers
        /\ players'[p] # None => ~ players'[p].inCombat
    BY <1>1, <2>1, RelocationHandles
  <2> QED
    BY <1>0, <1>1, <1>2, <2>1, <2>2, RequestKeeps
<1>7. CASE Attack(p)
  <2>1. Calls(p, "attack", "attack") /\ UNCHANGED crossing /\ HandleSubmitAction(p)
    BY <1>7 DEF Attack
  <2>2. /\ \E x : Handled(p, x) /\ x.kind = "SubmitActionResult" /\ ~ x.late
        /\ transfers' = transfers
    BY <1>1, <2>1, AttackHandles
  <2>3. "attack" \notin FledCalls
    BY DEF FledCalls
  <2> QED
    BY <1>0, <1>1, <1>2, <2>1, <2>2, <2>3, RequestKeeps
<1>8. CASE Trade(p)
  <2>1. /\ Calls(p, "trade", "trade") /\ UNCHANGED crossing
        /\ JustReply(p, Answer("TradeResult", IsHere(p), 0))
    BY <1>8 DEF Trade
  <2>2. /\ "TradeResult" \in AnswerKinds /\ "TradeResult" \notin Placing
        /\ IsHere(p) \in BOOLEAN /\ "trade" \notin FledCalls
    BY DEF AnswerKinds, Placing, FledCalls, IsHere
  <2>3. /\ \E x : Handled(p, x) /\ x.kind = "TradeResult" /\ ~ x.late
        /\ transfers' = transfers
    BY <1>1, <2>1, <2>2, AnswerHandles
  <2> QED
    BY <1>0, <1>1, <1>2, <2>1, <2>2, <2>3, RequestKeeps
<1>9. CASE Say(p)
  <2>1. /\ Acts(p) /\ HandleSay(p) /\ UNCHANGED <<client, crossing, timeouts>>
    BY <1>9 DEF Say
  <2>2. Asking(p)
    BY <2>1, ActsAsks DEF Acts
  <2>3. Unanswered(p)
    BY <2>1, <2>2, SayHandles
  <2>4. client' = [client EXCEPT ![p].call = None]
    <3>1. client \in [Players -> Clients] /\ client[p] \in Clients /\ client[p].call = None
      BY <2>1, InvServer DEF Acts
    <3>2. [client[p] EXCEPT !.call = None] = client[p]
      BY <3>1 DEF Clients
    <3> QED
      BY <2>1, <3>1, <3>2
  <2>5. None # "talk"
    BY CallsAssumption DEF Answers
  <2> QED
    BY <2>1, <2>3, <2>4, <2>5, SilenceKeeps
<1>10. CASE SpawnAi(p) \/ SpawnMob(p) \/ ForceCombatEnd(p)
  <2>1. /\ Calls(p, "debug", "debug") /\ UNCHANGED crossing
        /\ HandleSpawnAi(p) \/ HandleSpawnMob(p) \/ HandleForceCombatEnd(p)
    BY <1>10 DEF SpawnAi, SpawnMob, ForceCombatEnd
  <2>2. /\ \E x : Handled(p, x) /\ x.kind = "DebugCommandResponse" /\ ~ x.late
        /\ transfers' = transfers
    BY <1>1, <2>1, SpawnAiHandles, SpawnMobHandles, ForceCombatEndHandles
  <2>3. "debug" \notin FledCalls
    BY DEF FledCalls
  <2> QED
    BY <1>0, <1>1, <1>2, <2>1, <2>2, <2>3, RequestKeeps
<1>11. CASE TeleportHere(p)
  <2>1. /\ Calls(p, "teleport", "recall") /\ UNCHANGED crossing
        /\ HandleRelocation(p, "DebugCommandResponse")
    BY <1>11 DEF TeleportHere
  <2>2. /\ \E x : Handled(p, x) /\ x.kind = "DebugCommandResponse" /\ ~ x.late
        /\ p \in transfers' => p \in transfers
        /\ players'[p] # None => ~ players'[p].inCombat
    BY <1>1, <2>1, RelocationHandles
  <2> QED
    BY <1>0, <1>1, <1>2, <2>1, <2>2, RequestKeeps
<1>12. CASE TeleportAway(p)
  <2>1. /\ Calls(p, "teleport", "teleport") /\ HandleTeleportAway(p)
        /\ IF IsHere(p) THEN AsksWorldLogin(p) ELSE UNCHANGED crossing
    BY <1>12 DEF TeleportAway
  <2>2. /\ \E x : /\ Handled(p, x) /\ x.kind = "DebugCommandResponse" /\ ~ x.late
                  /\ p \notin transfers => (x.ok <=> p \in transfers')
        /\ p \notin transfers => (IsHere(p) <=> p \in transfers')
        /\ players'[p] # None => ~ players'[p].inCombat
    BY <1>1, <2>1, TeleportHandles
  <2>3. /\ crossing' \in [Players -> Crossing]
        /\ \A q \in Players \ {p} : crossing'[q] = crossing[q]
        /\ IsHere(p) => Owes(crossing'[p])
    BY <1>0, <2>1, AskingTyped
  <2> QED
    BY <1>0, <1>1, <1>2, <2>1, <2>2, <2>3, RequestKeeps
<1> QED
  BY <1>3, <1>4, <1>5, <1>6, <1>7, <1>8, <1>9, <1>10, <1>11, <1>12 DEF Asks
-----------------------------------------------------------------------------
(* What a client does by itself *)

\* The zone takes no part in it. What is under way to the client is queue, and the client
\* is d.
LEMMA OwnStep ==
    ASSUME Inv, NEW p \in Players, UNCHANGED zone, UNCHANGED crossing,
           NEW queue \in Queues,
           wire' = [wire EXCEPT ![p] = queue] \/ (wire' = wire /\ queue = wire[p]),
           NEW d \in Clients, client' = [client EXCEPT ![p] = d],
           acts' \in 0 .. MaxActs, timeouts' \in 0 .. acts', timeouts' = 0 => timeouts = 0,
           client[p].phase \notin Away, d.phase \notin Away,
           d.phase # "in" => d.call = None /\ p \notin transfers /\ "snapshot" \notin d.missed,
           \/ d.phase \in {"draining", "tiles", "in"}
           \/ d.phase = "resuming" /\ "SessionResumeResponse" \in d.got
           => d.tile \in Street,
           players[p] # None /\ players[p].inCombat => d.call \notin FledCalls,
           timeouts' = 0 =>
               Expecting(queue, d, p \in transfers, crossing[p], IsHere(p)),
           Ordered(p, queue, d.phase),
           Reachable(players, p) =>
               /\ Told(queue, d, players[p].inCombat)
               /\ Picture(queue, d, players, companion, spawns)
               /\ Place(p, queue, d, players[p].tile)
    PROVE  Inv'
<1>1. /\ ServerInv /\ client \in [Players -> Clients]
      /\ Connection(p) /\ Combat(p)
  BY InvServer DEF Inv
<1>2. UNCHANGED <<players, saved, companion, spawns, fights, mapped, transfers, hangups>>
  BY DEF zone
<1>3. /\ wire' \in Wires /\ wire'[p] = queue
      /\ \A q \in Players \ {p} : wire'[q] = wire[q]
  BY <1>1 DEF ServerInv, Wires
<1>4. /\ client' \in [Players -> Clients] /\ client'[p] = d
      /\ \A q \in Players \ {p} : client'[q] = client[q]
  BY <1>1
<1>5. ServerInv'
  BY <1>1, <1>2, <1>3 DEF ServerInv
<1>6. Others(p)
  <2>1. ZoneStill
    BY <1>2 DEF ZoneStill, StillTrue
  <2> QED
    BY <1>1, <1>2, <1>3, <2>1, QuietSpares DEF Others
<1>7. Connection(p)'
  <2>1. d.phase \notin Away /\ IsHere(p)' => p \notin hangups'
    BY <1>1, <1>2 DEF Connection, IsHere
  <2> QED
    BY <1>2, <1>4, <2>1 DEF Connection
<1>8. Combat(p)'
  BY <1>1, <1>2, <1>4 DEF Combat
<1>9. Follows(p)'
  <2>1. IsHere(p)' <=> IsHere(p)
    BY <1>2 DEF IsHere
  <2>2. timeouts' = 0 =>
            Expecting(wire'[p], client'[p], p \in transfers', crossing'[p], IsHere(p)')
    BY <1>2, <1>3, <1>4, <2>1 DEF Expecting, Waiting
  <2>3. Ordered(p, wire'[p], client'[p].phase)
    BY <1>3, <1>4
  <2>4. Reachable(players, p)' => Reachable(players, p)
    BY <1>2 DEF Reachable
  <2>5. Reachable(players, p)' =>
            /\ Told(wire'[p], client'[p], players'[p].inCombat)
            /\ Picture(wire'[p], client'[p], players', companion', spawns')
            /\ Place(p, wire'[p], client'[p], players'[p].tile)
    BY <1>2, <1>3, <1>4, <2>4
  <2> QED
    BY <2>2, <2>3, <2>5 DEF Follows
<1>10. crossing' \in [Players -> Crossing]
  BY DEF Inv, TypeInv
<1> QED
  BY <1>4, <1>5, <1>6, <1>7, <1>8, <1>9, <1>10, OneStep

\* A packet that is read in one of these ways leaves the screen as right as it was.
LEMMA ReadScreen ==
    ASSUME Inv, NEW p \in Players, wire[p] # <<>>, client[p].phase \notin Away,
           NEW d \in Clients, Reachable(players, p),
           Takes(p, client[p], Head(wire[p]), d, players[p].inCombat)
    PROVE  /\ Told(Tail(wire[p]), d, players[p].inCombat)
           /\ Picture(Tail(wire[p]), d, players, companion, spawns)
           /\ Place(p, Tail(wire[p]), d, players[p].tile)
<1>1. /\ wire[p] \in Queues /\ client[p] \in Clients
      /\ Connection(p) /\ Follows(p)
      /\ players[p].inCombat \in BOOLEAN
  BY InvServer DEF Inv, ServerInv, Insides, Entities, Reachable
<1>2. /\ Told(wire[p], client[p], players[p].inCombat)
      /\ Picture(wire[p], client[p], players, companion, spawns)
      /\ Place(p, wire[p], client[p], players[p].tile)
  BY <1>1 DEF Follows
<1>3. Head(wire[p]).kind = "EntitySnapshot" /\ ~ Own(p, Head(wire[p]).shown)
          => "snapshot" \notin client[p].missed
  <2>1. CASE client[p].phase = "in"
    <3>1. ShownIn(wire[p]) \subseteq OwnIn(p, wire[p])
      BY <1>1, <2>1 DEF Follows, Ordered
    <3>2. 1 \in ShownIn(wire[p]) <=> Head(wire[p]).kind = "EntitySnapshot"
      BY <1>1, TailPlaces DEF ShownIn
    <3>3. 1 \in OwnIn(p, wire[p]) => Own(p, Head(wire[p]).shown)
      BY <1>1, TailOwn
    <3> QED
      BY <3>1, <3>2, <3>3
  <2>2. CASE client[p].phase # "in"
    BY <1>1, <2>2 DEF Connection
  <2> QED
    BY <2>1, <2>2
<1>4. Told(Tail(wire[p]), d, players[p].inCombat)
  BY <1>1, <1>2, ReadTold
<1>5. Picture(Tail(wire[p]), d, players, companion, spawns)
  BY <1>1, <1>2, ReadPicture
<1>6. Place(p, Tail(wire[p]), d, players[p].tile)
  BY <1>1, <1>2, <1>3, ReadPlace
<1> QED
  BY <1>4, <1>5, <1>6

\* A client that plays finds itself in every snapshot.
LEMMA FindsItself ==
    ASSUME Inv, NEW p \in Players, wire[p] # <<>>, client[p].phase = "in"
    PROVE  Head(wire[p]).kind # "EntitySnapshot" \/ Own(p, Head(wire[p]).shown)
<1>1. wire[p] \in Queues /\ Follows(p)
  BY InvServer DEF Inv
<1>2. ShownIn(wire[p]) \subseteq OwnIn(p, wire[p])
  BY <1>1 DEF Follows, Ordered
<1>3. 1 \in ShownIn(wire[p]) <=> Head(wire[p]).kind = "EntitySnapshot"
  BY <1>1, TailPlaces DEF ShownIn
<1>4. 1 \in OwnIn(p, wire[p]) => Own(p, Head(wire[p]).shown)
  BY <1>1, TailOwn
<1> QED
  BY <1>2, <1>3, <1>4

\* The answers move up.
LEMMA TailAnswers ==
    ASSUME NEW queue \in Queues, queue # <<>>
    PROVE  /\ Tail(queue) \in Queues /\ Head(queue) = queue[1] /\ Head(queue) \in Packets
           /\ 1 \in AnswersIn(queue) <=> Head(queue).kind \in AnswerKinds
           /\ AnswersIn(queue) \subseteq Nat \ {0}
           /\ AnswersIn(Tail(queue)) \subseteq Nat \ {0}
           /\ \A i \in AnswersIn(Tail(queue)) :
                  i + 1 \in AnswersIn(queue) /\ Tail(queue)[i] = queue[i + 1]
           /\ \A i \in AnswersIn(queue) : i = 1 \/ i - 1 \in AnswersIn(Tail(queue))
           /\ AnswersIn(queue) \subseteq {1} => AnswersIn(Tail(queue)) = {}
<1>1. /\ Tail(queue) \in Queues /\ Head(queue) = queue[1] /\ Head(queue) \in Packets
      /\ \A i \in DOMAIN Tail(queue) : Tail(queue)[i] = queue[i + 1]
      /\ \A i \in Nat : i \in AnswersIn(Tail(queue)) <=> i # 0 /\ i + 1 \in AnswersIn(queue)
      /\ AnswersIn(Tail(queue)) \subseteq Nat \ {0}
      /\ AnswersIn(queue) \subseteq Nat \ {0}
      /\ 1 \in AnswersIn(queue) <=> Head(queue).kind \in AnswerKinds
  BY TailPlaces DEF AnswersIn
<1>2. \A i \in AnswersIn(Tail(queue)) :
          i + 1 \in AnswersIn(queue) /\ Tail(queue)[i] = queue[i + 1]
  <2>1. AnswersIn(Tail(queue)) \subseteq DOMAIN Tail(queue)
    BY DEF AnswersIn, Places
  <2> QED
    BY <1>1, <2>1
<1>3. \A i \in AnswersIn(queue) : i = 1 \/ i - 1 \in AnswersIn(Tail(queue))
  <2>1. ASSUME NEW i \in AnswersIn(queue), i # 1 PROVE i - 1 \in AnswersIn(Tail(queue))
    <3>1. i - 1 \in Nat /\ i - 1 # 0 /\ (i - 1) + 1 = i
      BY <1>1, <2>1
    <3> QED
      BY <1>1, <3>1
  <2> QED
    BY <2>1
<1>4. ASSUME AnswersIn(queue) \subseteq {1} PROVE AnswersIn(Tail(queue)) = {}
  <2>1. \A i \in AnswersIn(Tail(queue)) : i + 1 = 1 /\ i \in Nat \ {0}
    BY <1>1, <1>2, <1>4
  <2> QED
    BY <2>1
<1> QED
  BY <1>1, <1>2, <1>3, <1>4
-----------------------------------------------------------------------------
(* The login of a client *)

\* What a wait of the login does, whatever else it notes.
LEMMA LoginReads ==
    ASSUME Inv, NEW p \in Players, wire[p] # <<>>,
           client[p].phase \in {"resuming", "draining", "tiles"},
           NEW d \in Clients,
           Takes(p, client[p], Head(wire[p]), d, players[p].inCombat),
           client' = [client EXCEPT ![p] = d], Received(p),
           UNCHANGED <<zone, crossing, timeouts, acts>>,
           d.phase \notin Away, d.call = None, "snapshot" \notin d.missed,
           \/ d.phase \in {"draining", "tiles", "in"}
           \/ d.phase = "resuming" /\ "SessionResumeResponse" \in d.got
           => d.tile \in Street,
           timeouts = 0 =>
               Expecting(Tail(wire[p]), d, p \in transfers, crossing[p], IsHere(p)),
           Ordered(p, Tail(wire[p]), d.phase)
    PROVE  Inv'
<1>1. /\ wire[p] \in Queues /\ wire \in Wires
      /\ acts \in 0 .. MaxActs /\ timeouts \in 0 .. acts
  BY InvServer DEF Inv, TypeInv, ServerInv
<1>2. Tail(wire[p]) \in Queues /\ wire' = [wire EXCEPT ![p] = Tail(wire[p])]
  BY <1>1, TailPlaces DEF Received
<1>3. client[p].phase \notin Away /\ client[p].phase # "in"
  BY DEF Away
<1>4. p \notin transfers
  BY <1>3 DEF Inv, Connection
<1>5. d.call \notin FledCalls
  BY CallsAssumption DEF FledCalls, Answers
<1>6. Reachable(players, p) =>
          /\ Told(Tail(wire[p]), d, players[p].inCombat)
          /\ Picture(Tail(wire[p]), d, players, companion, spawns)
          /\ Place(p, Tail(wire[p]), d, players[p].tile)
  BY <1>3, ReadScreen
<1>7. UNCHANGED zone /\ UNCHANGED crossing /\ acts' \in 0 .. MaxActs /\ timeouts' \in 0 .. acts'
      /\ timeouts' = timeouts
  BY <1>1
<1> QED
  BY <1>2, <1>3, <1>4, <1>5, <1>6, <1>7, OwnStep

\* sessionResume reads a packet.
LEMMA ResumingKeeps ==
    ASSUME Inv, NEW p \in Players, Resuming(p)
    PROVE  Inv'
<1> DEFINE x == Head(wire[p])
           c == AtLogin(p, client[p], x)
           got == c.got \cup ({x.kind} \cap {"SessionResumeResponse", "ZoneSnapshot"})
           tile == IF x.kind = "SessionResumeResponse" THEN x.tile ELSE c.tile
           phase == IF Cardinality(got) = 2 THEN "draining" ELSE c.phase
           d == IF x.kind = "SessionResumeResponse" /\ ~ x.ok THEN [c EXCEPT !.phase = "failed"]
                ELSE [c EXCEPT !.tile = tile, !.got = got, !.phase = phase]
<1>1. /\ client[p].phase = "resuming" /\ wire[p] # <<>>
      /\ client' = [client EXCEPT ![p] = d]
      /\ Received(p) /\ UNCHANGED <<zone, crossing, timeouts, acts>>
  BY DEF Resuming, Update
<1>2. /\ wire[p] \in Queues /\ client[p] \in Clients /\ Connection(p) /\ Follows(p)
  BY InvServer DEF Inv
<1>3. x \in Packets
  BY <1>1, <1>2, TailAnswers
<1>4. /\ c \in Clients /\ c.phase = "resuming" /\ c.got = client[p].got
      /\ c.call = None /\ "snapshot" \notin c.missed
      /\ client[p].tile \in Street => c.tile \in Street
      /\ \A fighting : Takes(p, client[p], x, c, fighting)
  <2>1. client[p].call = None /\ "snapshot" \notin client[p].missed
    BY <1>1, <1>2 DEF Connection
  <2> QED
    BY <1>1, <1>2, <1>3, <2>1, AtLoginTakes
<1> HIDE DEF x, c
<1>5. x.kind = "SessionResumeResponse" => x.tile \in Tiles /\ (x.ok => x.tile \in Street)
  BY <1>3, PlacingTyped DEF Placing
<1>6. /\ got \in SUBSET {"SessionResumeResponse", "ZoneSnapshot"}
      /\ "SessionResumeResponse" \in got <=>
             x.kind = "SessionResumeResponse" \/ "SessionResumeResponse" \in client[p].got
  BY <1>4 DEF Clients
<1>7. Cardinality(got) = 2 => "SessionResumeResponse" \in got
  <2>1. ASSUME "SessionResumeResponse" \notin got PROVE Cardinality(got) # 2
    <3>1. got = {} \/ got = {"ZoneSnapshot"}
      BY <1>6, <2>1
    <3>2. Cardinality({}) = 0 /\ Cardinality({"ZoneSnapshot"}) = 1
      BY FS_EmptySet, FS_Singleton
    <3> QED
      BY <3>1, <3>2
  <2> QED
    BY <2>1
<1>8. tile \in Tiles /\ phase \in {"resuming", "draining"}
      /\ (phase = "draining" => "SessionResumeResponse" \in got)
  BY <1>4, <1>5, <1>7 DEF Clients
<1> HIDE DEF got, tile, phase
<1>9. /\ d \in Clients
      /\ d.call = None /\ d.missed = c.missed /\ d.window = c.window
      /\ d.queue = c.queue /\ d.view = c.view
      /\ IF x.kind = "SessionResumeResponse" /\ ~ x.ok
         THEN d.phase = "failed" /\ d.tile = c.tile
         ELSE d.phase = phase /\ d.tile = tile /\ d.got = got
  <2>1. {"failed", "resuming", "draining"} \subseteq Phases
    BY DEF Phases
  <2> QED
    BY <1>4, <1>6, <1>8, <2>1 DEF Clients
<1> HIDE DEF d
<1>10. Takes(p, client[p], x, d, players[p].inCombat)
  <2>1. Takes(p, client[p], x, c, players[p].inCombat)
    BY <1>4
  <2>2. Behind(d) = Behind(c)
    BY <1>9 DEF Behind
  <2>3. CASE x.kind = "SessionResumeResponse"
    <3>1. /\ x.kind # "EntitySnapshot" /\ x.kind \notin FightKinds /\ x.kind \in Placing
      BY <2>3 DEF FightKinds, Placing
    <3>2. d.tile = c.tile \/ (x.ok /\ d.tile = x.tile)
      BY <1>9, <2>3 DEF tile
    <3>3. /\ "fight" \in client[p].missed => "fight" \in c.missed
          /\ c.window = client[p].window \/ c.window = players[p].inCombat
          /\ "snapshot" \in client[p].missed => "snapshot" \in c.missed
          /\ Behind(c) = Behind(client[p])
          /\ c.tile = client[p].tile \/ (x.ok /\ c.tile = x.tile)
      BY <2>1, <3>1 DEF Takes
    <3> QED
      BY <1>9, <2>2, <3>1, <3>2, <3>3 DEF Takes
  <2>4. CASE x.kind # "SessionResumeResponse"
    <3>1. d.tile = c.tile
      BY <1>9, <2>4 DEF tile
    <3> QED
      BY <1>9, <2>1, <2>2, <3>1 DEF Takes
  <2> QED
    BY <2>3, <2>4
<1>11. d.phase \notin Away
  BY <1>8, <1>9 DEF Away
<1>12. \/ d.phase \in {"draining", "tiles", "in"}
       \/ d.phase = "resuming" /\ "SessionResumeResponse" \in d.got
       => d.tile \in Street
  <2>1. "SessionResumeResponse" \in client[p].got => client[p].tile \in Street
    BY <1>1, <1>2 DEF Connection
  <2> QED
    BY <1>4, <1>5, <1>6, <1>8, <1>9, <2>1 DEF tile
<1>13. ASSUME timeouts = 0
       PROVE  Expecting(Tail(wire[p]), d, p \in transfers, crossing[p], IsHere(p))
  <2>1. IF "SessionResumeResponse" \in client[p].got THEN AnswersIn(wire[p]) = {}
        ELSE AnswersIn(wire[p]) = {1} /\ x.kind = "SessionResumeResponse"
    BY <1>1, <1>2, <1>13, TailAnswers DEF Follows, Expecting, x
  <2>2. AnswersIn(Tail(wire[p])) = {}
    BY <1>1, <1>2, <2>1, TailAnswers
  <2>3. d.phase = "failed" \/ "SessionResumeResponse" \in d.got
    BY <1>6, <1>9, <2>1
  <2> QED
    BY <1>8, <1>9, <2>2, <2>3 DEF Expecting
<1>14. Ordered(p, Tail(wire[p]), d.phase)
  <2>1. Ordered(p, wire[p], "resuming")
    BY <1>1, <1>2 DEF Follows
  <2>2. Ordered(p, Tail(wire[p]), "resuming") /\ Ordered(p, Tail(wire[p]), "draining")
    BY <1>1, <1>2, <2>1, ReadOrdered
  <2>3. Ordered(p, Tail(wire[p]), "failed")
    BY DEF Ordered
  <2> QED
    BY <1>8, <1>9, <2>2, <2>3
<1> QED
  BY <1>1, <1>4, <1>9, <1>10, <1>11, <1>12, <1>13, <1>14, LoginReads DEF x

\* The snapshots that follow are drained.
LEMMA DrainingKeeps ==
    ASSUME Inv, NEW p \in Players, Draining(p)
    PROVE  Inv'
<1> DEFINE x == Head(wire[p])
           d == Queued(p, client[p], x)
<1>1. /\ client[p].phase = "draining" /\ wire[p] # <<>> /\ x.kind = "EntitySnapshot"
      /\ client' = [client EXCEPT ![p] = d]
      /\ Received(p) /\ UNCHANGED <<zone, crossing, timeouts, acts>>
  BY DEF Draining, Update
<1>2. /\ wire[p] \in Queues /\ client[p] \in Clients /\ Connection(p) /\ Follows(p)
  BY InvServer DEF Inv
<1>3. x \in Packets
  BY <1>1, <1>2, TailAnswers
<1>4. client[p].call = None /\ "snapshot" \notin client[p].missed /\ client[p].tile \in Street
  BY <1>1, <1>2 DEF Connection
<1>5. /\ d \in Clients /\ d.phase = "draining" /\ d.call = None /\ "snapshot" \notin d.missed
      /\ d.tile \in Street
      /\ Takes(p, client[p], x, d, players[p].inCombat)
  BY <1>1, <1>2, <1>3, <1>4, QueuedTakes
<1> HIDE DEF d
<1>6. ASSUME timeouts = 0
      PROVE  Expecting(Tail(wire[p]), d, p \in transfers, crossing[p], IsHere(p))
  <2>1. AnswersIn(wire[p]) = {}
    BY <1>1, <1>2, <1>6 DEF Follows, Expecting
  <2>2. AnswersIn(Tail(wire[p])) = {}
    BY <1>1, <1>2, <2>1, TailAnswers
  <2> QED
    BY <1>5, <2>2 DEF Expecting
<1>7. Ordered(p, Tail(wire[p]), d.phase)
  BY <1>1, <1>2, <1>5, ReadOrdered DEF Follows
<1>8. d.phase \notin Away
  BY <1>5 DEF Away
<1> QED
  BY <1>1, <1>5, <1>6, <1>7, <1>8, LoginReads

\* The tiles are waited for.
LEMMA AwaitingTilesKeeps ==
    ASSUME Inv, NEW p \in Players, AwaitingTiles(p)
    PROVE  Inv'
<1> DEFINE x == Head(wire[p])
           c == AtLogin(p, client[p], x)
           d == IF x.kind = "ZoneTileGrid" THEN [c EXCEPT !.phase = "in", !.got = {}] ELSE c
<1>1. /\ client[p].phase = "tiles" /\ wire[p] # <<>>
      /\ client' = [client EXCEPT ![p] = d]
      /\ Received(p) /\ UNCHANGED <<zone, crossing, timeouts, acts>>
  BY DEF AwaitingTiles, Update
<1>2. /\ wire[p] \in Queues /\ client[p] \in Clients /\ Connection(p) /\ Follows(p)
  BY InvServer DEF Inv
<1>3. x \in Packets
  BY <1>1, <1>2, TailAnswers
<1>4. /\ client[p].call = None /\ "snapshot" \notin client[p].missed /\ client[p].tile \in Street
      /\ p \notin transfers
  BY <1>1, <1>2 DEF Connection
<1>5. /\ c \in Clients /\ c.phase = "tiles" /\ c.call = None /\ "snapshot" \notin c.missed
      /\ c.tile \in Street
      /\ Takes(p, client[p], x, c, players[p].inCombat)
  BY <1>1, <1>2, <1>3, <1>4, AtLoginTakes
<1> HIDE DEF c, x
<1>6. /\ d \in Clients /\ d.phase = IF x.kind = "ZoneTileGrid" THEN "in" ELSE "tiles"
      /\ d.call = None /\ d.missed = c.missed /\ d.window = c.window
      /\ d.queue = c.queue /\ d.view = c.view /\ d.tile = c.tile
  <2>1. "in" \in Phases
    BY DEF Phases
  <2> QED
    BY <1>5, <2>1 DEF Clients
<1> HIDE DEF d
<1>7. Takes(p, client[p], x, d, players[p].inCombat)
  <2>1. Behind(d) = Behind(c)
    BY <1>6 DEF Behind
  <2> QED
    BY <1>5, <1>6, <2>1 DEF Takes
<1>8. ASSUME timeouts = 0
      PROVE  Expecting(Tail(wire[p]), d, p \in transfers, crossing[p], IsHere(p))
  <2>1. \A i, j \in AnswersIn(wire[p]) : i = j /\ wire[p][i].kind = "ZoneTileGrid"
    BY <1>1, <1>2, <1>8 DEF Follows, Expecting
  <2>2. /\ 1 \in AnswersIn(wire[p]) <=> x.kind \in AnswerKinds
        /\ AnswersIn(wire[p]) \subseteq {1} => AnswersIn(Tail(wire[p])) = {}
        /\ AnswersIn(Tail(wire[p])) \subseteq Nat \ {0}
        /\ \A i \in AnswersIn(Tail(wire[p])) :
               i + 1 \in AnswersIn(wire[p]) /\ Tail(wire[p])[i] = wire[p][i + 1]
    BY <1>1, <1>2, TailAnswers DEF x
  <2>3. CASE x.kind = "ZoneTileGrid"
    <3>1. 1 \in AnswersIn(wire[p])
      BY <2>2, <2>3, KindsApart
    <3>2. AnswersIn(Tail(wire[p])) = {}
      BY <2>1, <2>2, <3>1
    <3> QED
      BY <1>4, <1>6, <2>3, <3>2 DEF Expecting, Waiting
  <2>4. CASE x.kind # "ZoneTileGrid"
    <3>1. \A i, j \in AnswersIn(Tail(wire[p])) :
              i = j /\ Tail(wire[p])[i].kind = "ZoneTileGrid"
      <4> SUFFICES ASSUME NEW i \in AnswersIn(Tail(wire[p])), NEW j \in AnswersIn(Tail(wire[p]))
                   PROVE  i = j /\ Tail(wire[p])[i].kind = "ZoneTileGrid"
        OBVIOUS
      <4>1. i \in Nat /\ j \in Nat
        BY <2>2
      <4>2. i + 1 \in AnswersIn(wire[p]) /\ j + 1 \in AnswersIn(wire[p])
            /\ Tail(wire[p])[i] = wire[p][i + 1]
        BY <2>2
      <4>3. i + 1 = j + 1
        BY <2>1, <4>2
      <4>4. i = j
        BY <4>1, <4>3
      <4>5. wire[p][i + 1].kind = "ZoneTileGrid"
        BY <2>1, <4>2
      <4>6. Tail(wire[p])[i].kind = "ZoneTileGrid"
        BY <4>2, <4>5
      <4> QED
        BY <4>4, <4>6
    <3> QED
      BY <1>6, <2>4, <3>1 DEF Expecting
  <2> QED
    BY <2>3, <2>4
<1>9. Ordered(p, Tail(wire[p]), d.phase)
  <2>1. Ordered(p, wire[p], "tiles")
    BY <1>1, <1>2 DEF Follows
  <2>2. /\ Ordered(p, Tail(wire[p]), "tiles")
        /\ x.kind = "ZoneTileGrid" => Ordered(p, Tail(wire[p]), "in")
    BY <1>1, <1>2, <2>1, ReadOrdered DEF x
  <2> QED
    BY <1>6, <2>2
<1>10. d.phase \notin Away
  BY <1>6 DEF Away
<1> QED
  BY <1>1, <1>5, <1>6, <1>7, <1>8, <1>9, <1>10, LoginReads DEF x

\* The wait of a login is over without an answer.
LEMMA LoginTimesOutKeeps ==
    ASSUME Inv, NEW p \in Players, LoginTimesOut(p)
    PROVE  Inv'
<1> DEFINE d == [client[p] EXCEPT !.phase = "failed"]
<1>1. /\ client[p].phase \in {"resuming", "tiles"}
      /\ client' = [client EXCEPT ![p] = d]
      /\ acts < MaxActs /\ acts' = acts + 1 /\ timeouts' = timeouts + 1
      /\ UNCHANGED <<zone, wire, crossing>>
  BY DEF LoginTimesOut
<1>2. /\ wire[p] \in Queues /\ client[p] \in Clients /\ Connection(p) /\ Follows(p)
      /\ acts \in 0 .. MaxActs /\ timeouts \in 0 .. acts
  BY InvServer DEF Inv, TypeInv
<1>3. /\ d \in Clients /\ d.phase = "failed" /\ d.call = client[p].call
      /\ d.missed = client[p].missed /\ d.window = client[p].window
      /\ d.queue = client[p].queue /\ d.view = client[p].view /\ d.tile = client[p].tile
  BY <1>2 DEF Clients, Phases
<1> HIDE DEF d
<1>4. d.call = None /\ p \notin transfers /\ "snapshot" \notin d.missed
  BY <1>1, <1>2, <1>3 DEF Connection
<1>5. d.call \notin FledCalls
  BY <1>4, CallsAssumption DEF FledCalls, Answers
<1>6. Ordered(p, wire[p], d.phase)
  BY <1>3 DEF Ordered
<1>7. Reachable(players, p) =>
          /\ Told(wire[p], d, players[p].inCombat)
          /\ Picture(wire[p], d, players, companion, spawns)
          /\ Place(p, wire[p], d, players[p].tile)
  BY <1>2, <1>3, SameScreen DEF Follows
<1>8. /\ acts' \in 0 .. MaxActs /\ timeouts' \in 0 .. acts' /\ timeouts' # 0
  BY <1>1, <1>2, BoundsAssumption
<1>9. /\ client[p].phase \notin Away /\ d.phase \notin Away
      /\ d.phase \notin {"draining", "tiles", "in", "resuming"}
  BY <1>1, <1>3 DEF Away
<1> QED
  BY <1>1, <1>2, <1>3, <1>4, <1>5, <1>6, <1>7, <1>8, <1>9, OwnStep

\* The client closes its connection.
LEMMA HangUpKeeps ==
    ASSUME Inv, NEW p \in Players, HangUp(p), UNCHANGED <<crossing, timeouts, acts>>
    PROVE  Inv'
<1>1. /\ ServerInv /\ client \in [Players -> Clients] /\ Combat(p)
  BY InvServer DEF Inv
<1>2. /\ client' = [client EXCEPT ![p] = NoClient]
      /\ hangups' = hangups \cup {p}
      /\ transfers' = transfers \ {p}
      /\ wire' = [wire EXCEPT ![p] = <<>>]
      /\ UNCHANGED <<players, saved, companion, spawns, fights, mapped>>
  BY DEF HangUp, Update
<1>3. NoClient \in Clients /\ <<>> \in Queues
  BY TilesAssumption DEF NoClient, Clients, Phases, Tiles, Queues
<1>4. /\ client' \in [Players -> Clients] /\ client'[p] = NoClient
      /\ \A q \in Players \ {p} : client'[q] = client[q]
  BY <1>1, <1>2, <1>3
<1>5. /\ wire' \in Wires /\ wire'[p] = <<>>
      /\ \A q \in Players \ {p} : wire'[q] = wire[q]
  BY <1>1, <1>2, <1>3 DEF ServerInv, Wires
<1>6. ServerInv'
  BY <1>1, <1>2, <1>5 DEF ServerInv
<1>7. Others(p)
  <2>1. ZoneStill
    BY <1>2 DEF ZoneStill, StillTrue
  <2>2. \A q \in Players \ {p} : /\ q \in transfers' <=> q \in transfers
                                 /\ q \in hangups' <=> q \in hangups
    BY <1>2
  <2> QED
    BY <1>1, <1>2, <1>5, <2>1, <2>2, QuietSpares DEF Others
<1>8. /\ NoClient.phase = "out" /\ NoClient.call = None /\ NoClient.missed = {}
      /\ NoClient.got = {} /\ [NoClient EXCEPT !.phase = NoClient.phase] = NoClient
  BY DEF NoClient
<1>9. Connection(p)'
  <2>1. "out" \in Away /\ "out" \notin {"draining", "tiles", "in", "resuming"}
    BY DEF Away
  <2>2. p \in hangups' /\ p \notin transfers'
    BY <1>2
  <2> QED
    BY <1>4, <1>5, <1>8, <2>1, <2>2 DEF Connection
<1>10. Combat(p)'
  <2>1. None \notin FledCalls
    BY CallsAssumption DEF FledCalls, Answers
  <2> QED
    BY <1>1, <1>2, <1>4, <1>8, <2>1 DEF Combat
<1>11. Follows(p)'
  <2>1. ~ Reachable(players, p)'
    BY <1>2 DEF Reachable
  <2>2. client'[p].phase = "out"
    BY <1>4, <1>8
  <2>3. Ordered(p, wire[p], client[p].phase)'
    BY <2>2 DEF Ordered
  <2>4. Expecting(wire[p], client[p], p \in transfers, crossing[p], IsHere(p))'
    BY <2>2 DEF Expecting
  <2> QED
    BY <2>1, <2>3, <2>4 DEF Follows
<1>12. /\ crossing' \in [Players -> Crossing]
       /\ acts' \in 0 .. MaxActs /\ timeouts' \in 0 .. acts' /\ timeouts' = timeouts
       /\ \A q \in Players \ {p} : crossing'[q] = crossing[q]
  BY DEF Inv, TypeInv
<1> QED
  BY <1>4, <1>6, <1>7, <1>9, <1>10, <1>11, <1>12, OneStep

\* A call is over, and nobody is waited for any more.
LEMMA CallEnds ==
    ASSUME Inv, NEW p \in Players, TimeOut(p) \/ RecallEnds(p)
    PROVE  Inv'
<1> DEFINE window == IF client[p].call \in {"teleported", "recalled"} THEN FALSE
                     ELSE client[p].window
           d == [client[p] EXCEPT !.call = None, !.window = window]
<1>1. /\ wire[p] \in Queues /\ client[p] \in Clients /\ Connection(p) /\ Follows(p) /\ Combat(p)
      /\ acts \in 0 .. MaxActs /\ timeouts \in 0 .. acts
      /\ client \in [Players -> Clients]
  BY InvServer DEF Inv, TypeInv
<1>2. client[p].window \in BOOLEAN /\ window \in BOOLEAN
  BY <1>1 DEF Clients
<1>3. /\ client' = [client EXCEPT ![p] = d]
      /\ UNCHANGED <<zone, wire, crossing>>
      /\ client[p].call # None
      /\ \/ timeouts' = timeouts + 1 /\ acts' = acts + 1 /\ acts < MaxActs
         \/ timeouts' = timeouts /\ acts' = acts /\ client[p].call = "recalled"
  <2>1. CASE TimeOut(p)
    <3>1. client[p].call # "recalled" /\ client[p].call # None
      BY <2>1 DEF TimeOut
    <3>2. (client[p].window /\ client[p].call # "teleported") = window
      BY <1>2, <3>1
    <3> HIDE DEF window
    <3> QED
      BY <2>1, <3>1, <3>2 DEF TimeOut
  <2>2. CASE RecallEnds(p)
    <3>1. client[p].call = "recalled" /\ window = FALSE
      BY <2>2 DEF RecallEnds
    <3>2. None # "recalled"
      BY CallsAssumption DEF Answers
    <3> HIDE DEF window
    <3> QED
      BY <2>2, <3>1, <3>2 DEF RecallEnds
  <2> QED
    BY <2>1, <2>2
<1>4. /\ d \in Clients /\ d.phase = client[p].phase /\ d.call = None
      /\ d.missed = client[p].missed /\ d.window = window
      /\ d.queue = client[p].queue /\ d.view = client[p].view /\ d.tile = client[p].tile
  BY <1>1, <1>2 DEF Clients
<1>5. client[p].phase = "in" /\ client[p].tile \in Street
  BY <1>1, <1>3 DEF Connection
<1>6. Reachable(players, p) => window = client[p].window \/ window = players[p].inCombat
  <2>1. CASE client[p].call \in {"teleported", "recalled"}
    <3>1. client[p].call \in FledCalls
      BY <2>1 DEF FledCalls
    <3>2. Reachable(players, p) => players[p] # None /\ players[p] \in Entities
      BY InvServer DEF Reachable, ServerInv, Insides
    <3>3. Reachable(players, p) => players[p].inCombat = FALSE
      BY <1>1, <3>1, <3>2 DEF Combat, Entities
    <3> QED
      BY <2>1, <3>3
  <2>2. CASE client[p].call \notin {"teleported", "recalled"}
    BY <2>2
  <2> QED
    BY <2>1, <2>2
<1> HIDE DEF window, d
<1>7. Reachable(players, p) =>
          /\ Told(wire[p], d, players[p].inCombat)
          /\ Picture(wire[p], d, players, companion, spawns)
          /\ Place(p, wire[p], d, players[p].tile)
  <2> SUFFICES ASSUME Reachable(players, p)
               PROVE  /\ Told(wire[p], d, players[p].inCombat)
                      /\ Picture(wire[p], d, players, companion, spawns)
                      /\ Place(p, wire[p], d, players[p].tile)
    OBVIOUS
  <2>1. /\ Told(wire[p], client[p], players[p].inCombat)
        /\ Picture(wire[p], client[p], players, companion, spawns)
        /\ Place(p, wire[p], client[p], players[p].tile)
    BY <1>1 DEF Follows
  <2>2. Behind(d) = Behind(client[p])
    BY <1>4 DEF Behind
  <2> QED
    BY <1>4, <1>6, <2>1, <2>2 DEF Told, Picture, Place
<1>8. timeouts' = 0 =>
          Expecting(wire[p], d, p \in transfers, crossing[p], IsHere(p))
  <2>1. timeouts' = 0 => timeouts = 0 /\ client[p].call = "recalled"
    BY <1>1, <1>3
  <2> QED
    BY <1>1, <1>4, <1>5, <2>1 DEF Follows, Expecting, Waiting
<1>9. Ordered(p, wire[p], d.phase)
  BY <1>1, <1>4 DEF Follows
<1>10. acts' \in 0 .. MaxActs /\ timeouts' \in 0 .. acts' /\ (timeouts' = 0 => timeouts = 0)
  BY <1>1, <1>3, BoundsAssumption
<1>11. client[p].phase \notin Away /\ d.phase \notin Away /\ d.phase = "in"
  BY <1>4, <1>5 DEF Away
<1>12. d.call \notin FledCalls
  BY <1>4, CallsAssumption DEF FledCalls, Answers
<1> QED
  BY <1>1, <1>3, <1>4, <1>5, <1>7, <1>8, <1>9, <1>10, <1>11, <1>12, OwnStep
-----------------------------------------------------------------------------
(* The calls of a client *)

\* A wait that goes on is for the same answers, even if it is for the destination by now.
LEMMA GrantedDecides ==
    ASSUME NEW call \in Calling, NEW x, ~ Decides(call, x)
    PROVE  /\ \A y : Decides(Granted(call, x), y) <=> Decides(call, y)
           /\ call # "recalled" => Granted(call, x) # "recalled"
           /\ Granted(call, x) \in Calling
           /\ call \in {"portal", "teleport", "teleported"} =>
                  Granted(call, x) \in {"portal", "teleport", "teleported"}
           /\ Granted(call, x) = "talk" <=> call = "talk"
<1>1. CASE x.kind = "DebugCommandResponse" /\ call = "teleport"
  <2>1. Granted(call, x) = "teleported"
    BY <1>1 DEF Granted
  <2>2. Answers["teleported"] = Answers["teleport"] /\ "teleported" \in Calling
    BY DEF Answers, Calling
  <2>3. \A y : Ends("teleported", y) <=> Ends("teleport", y)
    BY <2>2 DEF Ends
  <2>4. \A y : Decides("teleported", y) <=> Decides("teleport", y)
    BY <2>3 DEF Decides
  <2> QED
    BY <1>1, <2>1, <2>2, <2>4
<1>2. CASE ~ (x.kind = "DebugCommandResponse" /\ call = "teleport")
  <2>1. Granted(call, x) = call
    BY <1>2 DEF Granted, Decides
  <2> QED
    BY <2>1
<1> QED
  BY <1>1, <1>2

\* A packet is read: the wait is over, with nothing left under way, or goes on.
LEMMA ReadWaiting ==
    ASSUME NEW queue \in Queues, queue # <<>>, NEW call \in Calling,
           NEW transferred, NEW owing, NEW here, Waiting(queue, call, transferred, owing, here)
    PROVE  IF Ends(call, Head(queue))
           THEN AnswersIn(Tail(queue)) = {} /\ ~ transferred
           ELSE Waiting(Tail(queue), Granted(call, Head(queue)), transferred, owing, here)
<1> DEFINE x == Head(queue)
           next == Granted(call, x)
<1>1. /\ 1 \in AnswersIn(queue) <=> x.kind \in AnswerKinds
      /\ x = queue[1]
      /\ AnswersIn(queue) \subseteq Nat \ {0}
      /\ AnswersIn(Tail(queue)) \subseteq Nat \ {0}
      /\ \A i \in AnswersIn(Tail(queue)) :
             i + 1 \in AnswersIn(queue) /\ Tail(queue)[i] = queue[i + 1]
      /\ \A i \in AnswersIn(queue) : i = 1 \/ i - 1 \in AnswersIn(Tail(queue))
      /\ AnswersIn(queue) \subseteq {1} => AnswersIn(Tail(queue)) = {}
  BY TailAnswers
<1>2. call # None
  BY CallsAssumption DEF Calling
<1> HIDE DEF x
<1>3. x.kind \notin AnswerKinds => ~ Decides(call, x) /\ ~ Ends(call, x)
  <2>1. call = "recall" => "DebugCommandResponse" \in Answers[call]
    BY DEF Answers
  <2> QED
    BY <2>1, KindsApart DEF Decides, Ends
<1>4. ASSUME ~ Decides(call, x)
      PROVE  /\ \A y : Decides(next, y) <=> Decides(call, y)
             /\ call # "recalled" => next \notin {None, "recalled"}
             /\ call \in {"portal", "teleport", "teleported"} =>
                    next \in {"portal", "teleport", "teleported"}
             /\ next = "talk" <=> call = "talk"
  <2>1. None \notin Calling
    BY CallsAssumption DEF Calling
  <2> QED
    BY <1>4, <2>1, GrantedDecides
<1>5. CASE AnswersIn(queue) = {}
  <2>1. x.kind \notin AnswerKinds /\ AnswersIn(Tail(queue)) = {}
    BY <1>1, <1>5
  <2>2. ~ Ends(call, x) /\ ~ Decides(call, x)
    BY <1>3, <2>1
  <2>3. CASE call = "recalled"
    <3>1. next = "recalled" /\ ~ transferred
      BY <1>2, <2>3 DEF Granted, Waiting
    <3> QED
      BY <2>1, <2>2, <3>1 DEF Waiting, x
  <2>4. CASE call # "recalled"
    <3>1. next \notin {None, "recalled"}
      BY <1>4, <2>2, <2>4
    <3>2. ~ Closed(queue, call, owing)
      BY <1>5 DEF Closed
    <3>3. \/ transferred /\ Owes(owing) /\ call \in {"portal", "teleport", "teleported"}
          \/ ~ transferred /\ call = "talk" /\ ~ here
      BY <1>2, <2>4, <3>2 DEF Waiting
    <3>4. Open(Tail(queue), next)
      BY <2>1 DEF Open
    <3>5. Waiting(Tail(queue), next, transferred, owing, here)
      BY <1>4, <2>1, <2>2, <3>1, <3>3, <3>4 DEF Waiting
    <3> QED
      BY <2>2, <3>5 DEF x
  <2> QED
    BY <2>3, <2>4
<1>6. CASE AnswersIn(queue) # {} /\ Closed(queue, call, owing)
  <2>0. call # "recalled" /\ ~ transferred
    <3>1. call # "recalled"
      BY <1>2, <1>6 DEF Waiting
    <3>2. ~ Open(queue, call)
      BY <1>6 DEF Closed, Open
    <3> QED
      BY <1>2, <1>6, <3>1, <3>2 DEF Waiting
  <2>1. PICK i \in AnswersIn(queue) :
            /\ Decides(call, queue[i])
            /\ \A j \in AnswersIn(queue) :
                   Timely(queue[j], owing) /\ j <= i /\ (j < i => ~ Decides(call, queue[j]))
    BY <1>6 DEF Closed
  <2>2. CASE i = 1
    <3>1. \A j \in AnswersIn(queue) : j = 1
      BY <1>1, <2>1, <2>2
    <3>2. AnswersIn(Tail(queue)) = {}
      BY <1>1, <3>1
    <3>3. CASE Ends(call, x)
      BY <2>0, <3>2, <3>3 DEF x
    <3>4. CASE ~ Ends(call, x)
      <4>1. call = "recall" /\ x.kind = "DebugCommandResponse"
        BY <1>1, <2>1, <2>2, <3>4 DEF Decides
      <4>2. next = "recalled"
        BY <4>1 DEF Granted
      <4> QED
        BY <2>0, <3>2, <3>4, <4>2 DEF Waiting, x
    <3> QED
      BY <3>3, <3>4
  <2>3. CASE i # 1
    <3>1. i \in Nat /\ i > 1 /\ i - 1 \in Nat /\ (i - 1) + 1 = i
      BY <1>1, <2>3
    <3>2. ~ Decides(call, x)
      BY <1>1, <1>3, <2>1, <3>1
    <3>3. ~ Ends(call, x)
      BY <3>2 DEF Decides
    <3>4. /\ \A y : Decides(next, y) <=> Decides(call, y)
          /\ next \notin {None, "recalled"}
      BY <1>4, <2>0, <3>2
    <3>5. i - 1 \in AnswersIn(Tail(queue)) /\ Tail(queue)[i - 1] = queue[i]
      <4>1. i - 1 \in AnswersIn(Tail(queue))
        BY <1>1, <2>3
      <4>2. Tail(queue)[i - 1] = queue[(i - 1) + 1]
        BY <1>1, <4>1
      <4> QED
        BY <3>1, <4>1, <4>2
    <3>6. ASSUME NEW j \in AnswersIn(Tail(queue))
          PROVE  /\ Timely(Tail(queue)[j], owing)
                 /\ j <= i - 1
                 /\ j < i - 1 => ~ Decides(call, Tail(queue)[j])
      <4>1. j \in Nat /\ j + 1 \in AnswersIn(queue) /\ Tail(queue)[j] = queue[j + 1]
        BY <1>1
      <4>2. /\ Timely(Tail(queue)[j], owing) /\ j + 1 <= i
            /\ j + 1 < i => ~ Decides(call, Tail(queue)[j])
        BY <2>1, <4>1
      <4>3. j <= i - 1 /\ (j < i - 1 => j + 1 < i)
        <5>1. j \in Nat /\ j + 1 <= i /\ i \in Nat
          BY <3>1, <4>1, <4>2
        <5> QED
          BY <5>1
      <4> QED
        BY <4>2, <4>3
    <3>7. Closed(Tail(queue), next, owing)
      BY <2>1, <3>4, <3>5, <3>6 DEF Closed
    <3> QED
      BY <2>0, <3>3, <3>4, <3>7 DEF Waiting, x
  <2> QED
    BY <2>2, <2>3
<1>7. CASE AnswersIn(queue) # {} /\ ~ Closed(queue, call, owing)
  <2>1. /\ call # "recalled"
        /\ Open(queue, call) /\ transferred /\ Owes(owing)
        /\ call \in {"portal", "teleport", "teleported"}
    BY <1>2, <1>7 DEF Waiting
  <2>2. ~ Decides(call, x)
    BY <1>1, <1>3, <2>1 DEF Open
  <2>3. ~ Ends(call, x)
    BY <2>2 DEF Decides
  <2>4. Open(Tail(queue), next)
    BY <1>1, <1>4, <2>1, <2>2 DEF Open
  <2>5. Waiting(Tail(queue), next, transferred, owing, here)
    BY <1>4, <2>1, <2>2, <2>4 DEF Waiting
  <2> QED
    BY <2>3, <2>5 DEF x
<1> QED
  BY <1>5, <1>6, <1>7

\* A client that plays reads a packet.
LEMMA PlayReads ==
    ASSUME Inv, NEW p \in Players, wire[p] # <<>>, client[p].phase = "in",
           NEW d \in Clients, d.phase = "in", d.tile \in Street,
           Reachable(players, p) =>
               Takes(p, client[p], Head(wire[p]), d, players[p].inCombat),
           client' = [client EXCEPT ![p] = d], Received(p),
           UNCHANGED <<zone, crossing, timeouts, acts>>,
           players[p] # None /\ players[p].inCombat => d.call \notin FledCalls,
           timeouts = 0 =>
               Waiting(Tail(wire[p]), d.call, p \in transfers, crossing[p], IsHere(p))
    PROVE  Inv'
<1>1. /\ wire[p] \in Queues /\ Follows(p)
      /\ acts \in 0 .. MaxActs /\ timeouts \in 0 .. acts
  BY InvServer DEF Inv, TypeInv
<1>2. Tail(wire[p]) \in Queues /\ wire' = [wire EXCEPT ![p] = Tail(wire[p])]
  BY <1>1, TailPlaces DEF Received
<1>3. client[p].phase \notin Away /\ d.phase \notin Away
  BY DEF Away
<1>4. Reachable(players, p) =>
          /\ Told(Tail(wire[p]), d, players[p].inCombat)
          /\ Picture(Tail(wire[p]), d, players, companion, spawns)
          /\ Place(p, Tail(wire[p]), d, players[p].tile)
  BY <1>3, ReadScreen
<1>5. Ordered(p, Tail(wire[p]), d.phase)
  BY <1>1, ReadOrdered DEF Follows
<1>6. timeouts = 0 =>
          Expecting(Tail(wire[p]), d, p \in transfers, crossing[p], IsHere(p))
  BY DEF Expecting
<1>7. UNCHANGED zone /\ UNCHANGED crossing /\ acts' \in 0 .. MaxActs /\ timeouts' \in 0 .. acts'
      /\ timeouts' = timeouts
  BY <1>1
<1> QED
  BY <1>2, <1>3, <1>4, <1>5, <1>6, <1>7, OwnStep

\* A call goes on, or ends, or the way it shows is taken.
LEMMA ReadAnswerKeeps ==
    ASSUME Inv, NEW p \in Players, ReadAnswer(p)
    PROVE  Inv'
<1> DEFINE c == client[p]
           x == Head(wire[p])
           heard == Heard(p, c, x)
           next == Granted(c.call, x)
           window == heard.window /\ ~ (x.kind = "PlayerCommandResult" /\ x.ok /\ c.call = "stuck")
           d == IF Ends(c.call, x) THEN [heard EXCEPT !.call = None, !.window = window]
                ELSE [heard EXCEPT !.call = next]
<1>1. c.call # None /\ wire[p] # <<>> /\ UNCHANGED <<crossing, timeouts, acts>>
  BY DEF ReadAnswer
<1>2. /\ wire[p] \in Queues /\ c \in Clients /\ Connection(p) /\ Combat(p) /\ Follows(p)
  BY InvServer DEF Inv
<1>3. x \in Packets
  BY <1>1, <1>2, TailAnswers
<1>4. c.phase = "in" /\ c.tile \in Street /\ c.call \in Calling
  BY <1>1, <1>2 DEF Connection, Clients
<1>5. x.kind # "EntitySnapshot" \/ Own(p, x.shown)
  BY <1>1, <1>4, FindsItself
<1>6. /\ heard \in Clients /\ heard.phase = "in" /\ heard.call = c.call /\ heard.tile \in Street
      /\ Takes(p, c, x, heard, players[p].inCombat)
  BY <1>2, <1>3, <1>4, <1>5, HeardTakes
<1>7. \/ Ends(c.call, x) /\ HangUp(p)
      \/ client' = [client EXCEPT ![p] = d] /\ Received(p) /\ UNCHANGED zone
  <2>1. CASE ~ Ends(c.call, x)
    <3>1. client' = [client EXCEPT ![p] = [heard EXCEPT !.call = Granted(heard.call, x)]]
          /\ Received(p) /\ UNCHANGED zone
      BY <2>1 DEF ReadAnswer, Update
    <3> HIDE DEF heard
    <3> QED
      BY <1>6, <2>1, <3>1
  <2>2. CASE Ends(c.call, x)
    <3>1. \/ HangUp(p)
          \/ client' = [client EXCEPT ![p] = Concluded(heard, x)] /\ Received(p) /\ UNCHANGED zone
      BY <2>2 DEF ReadAnswer, Update
    <3>2. Concluded(heard, x) =
              [heard EXCEPT !.call = None,
                            !.window = heard.window /\ ~ (x.kind = "PlayerCommandResult" /\ x.ok
                                                          /\ heard.call = "stuck")]
      BY DEF Concluded
    <3> HIDE DEF heard
    <3> QED
      BY <1>6, <2>2, <3>1, <3>2
  <2> QED
    BY <2>1, <2>2
<1>8. CASE HangUp(p)
  BY <1>1, <1>8, HangUpKeeps
<1>9. CASE client' = [client EXCEPT ![p] = d] /\ Received(p) /\ UNCHANGED zone
  <2>0. window \in BOOLEAN /\ next \in Calling
    BY <1>4, <1>6 DEF Clients, Granted, Calling, Answers
  <2> HIDE DEF heard, window, next
  <2>1. /\ d \in Clients /\ d.phase = "in" /\ d.tile = heard.tile /\ d.missed = heard.missed
        /\ d.queue = heard.queue /\ d.view = heard.view
        /\ d.call = IF Ends(c.call, x) THEN None ELSE next
        /\ d.window = IF Ends(c.call, x) THEN window ELSE heard.window
    BY <1>6, <2>0 DEF Clients
  <2> HIDE DEF d
  <2>2. ASSUME Reachable(players, p) PROVE Takes(p, c, x, d, players[p].inCombat)
    <3>1. Behind(d) = Behind(heard)
      BY <2>1 DEF Behind
    <3>2. \/ d.window = heard.window
          \/ /\ x.kind = "PlayerCommandResult"
             /\ d.window = players[p].inCombat
      <4>1. CASE x.kind = "PlayerCommandResult" /\ x.ok /\ c.call = "stuck"
        <5>1. players[p] # None /\ players[p] \in Entities
          BY <2>2, InvServer DEF Reachable, ServerInv, Insides
        <5>2. players[p].inCombat = FALSE
          BY <1>2, <4>1, <5>1 DEF Combat, FledCalls, Entities
        <5>3. window = FALSE
          BY <4>1 DEF window
        <5> QED
          BY <2>1, <4>1, <5>2, <5>3
      <4>2. CASE ~ (x.kind = "PlayerCommandResult" /\ x.ok /\ c.call = "stuck")
        <5>1. window = heard.window
          BY <1>6, <4>2 DEF window, Clients
        <5> QED
          BY <2>1, <5>1
      <4> QED
        BY <4>1, <4>2
    <3>3. "PlayerCommandResult" \notin FightKinds
      BY DEF FightKinds
    <3>4. CASE x.kind \in FightKinds
      <4>1. d.window = heard.window /\ x.kind # "EntitySnapshot"
        BY <3>2, <3>3, <3>4, KindsApart
      <4> QED
        BY <1>6, <2>1, <3>1, <3>4, <4>1 DEF Takes
    <3>5. CASE x.kind \notin FightKinds
      <4>1. d.window = c.window \/ d.window = players[p].inCombat
        BY <1>6, <3>2, <3>5 DEF Takes
      <4> QED
        BY <1>6, <2>1, <3>1, <3>5, <4>1 DEF Takes
    <3> QED
      BY <3>4, <3>5
  <2>3. players[p] # None /\ players[p].inCombat => d.call \notin FledCalls
    <3>1. None \notin FledCalls
      BY CallsAssumption DEF FledCalls, Answers
    <3>2. next = c.call \/ c.call \in {"teleport", "recall"}
      BY DEF next, Granted
    <3>3. {"teleport", "recall"} \subseteq FledCalls
      BY DEF FledCalls
    <3> QED
      BY <1>2, <2>1, <3>1, <3>2, <3>3 DEF Combat
  <2>4. ASSUME timeouts = 0
        PROVE  Waiting(Tail(wire[p]), d.call, p \in transfers, crossing[p], IsHere(p))
    <3>1. Waiting(wire[p], c.call, p \in transfers, crossing[p], IsHere(p))
      BY <1>2, <1>4, <2>4 DEF Follows, Expecting
    <3>2. IF Ends(c.call, x)
          THEN AnswersIn(Tail(wire[p])) = {} /\ p \notin transfers
          ELSE Waiting(Tail(wire[p]), next, p \in transfers, crossing[p], IsHere(p))
      BY <1>1, <1>2, <1>4, <3>1, ReadWaiting DEF next
    <3>3. CASE Ends(c.call, x)
      BY <2>1, <3>2, <3>3 DEF Waiting
    <3>4. CASE ~ Ends(c.call, x)
      BY <2>1, <3>2, <3>4
    <3> QED
      BY <3>3, <3>4
  <2> QED
    BY <1>1, <1>4, <1>6, <1>9, <2>1, <2>2, <2>3, <2>4, PlayReads
<1> QED
  BY <1>7, <1>8, <1>9

\* Of the snapshots put off, the last stays the last while the first is taken.
LEMMA LastOfTail ==
    ASSUME NEW S, NEW queue \in Seq(S), queue # <<>>
    PROVE  /\ Head(queue) \in S /\ Tail(queue) \in Seq(S)
           /\ Tail(queue) = <<>> => Head(queue) = queue[Len(queue)]
           /\ Tail(queue) # <<>> => Tail(queue)[Len(Tail(queue))] = queue[Len(queue)]
<1>1. /\ Tail(queue) \in Seq(S) /\ Head(queue) = queue[1]
      /\ Len(Tail(queue)) = Len(queue) - 1
      /\ \A i \in 1 .. Len(Tail(queue)) : Tail(queue)[i] = queue[i + 1]
  BY HeadTailProperties
<1>2. /\ Len(queue) \in Nat \ {0} /\ \A i \in 1 .. Len(queue) : queue[i] \in S
  BY LenProperties, ElementOfSeq, EmptySeq
<1>3. Tail(queue) = <<>> <=> Len(Tail(queue)) = 0
  BY <1>1, EmptySeq
<1>4. Head(queue) \in S
  BY <1>1, <1>2
<1>5. ASSUME Len(queue) = 1 PROVE Head(queue) = queue[Len(queue)]
  BY <1>1, <1>5
<1>6. ASSUME Len(Tail(queue)) # 0 PROVE Tail(queue)[Len(Tail(queue))] = queue[Len(queue)]
  <2>1. /\ Len(Tail(queue)) \in 1 .. Len(Tail(queue))
        /\ Len(Tail(queue)) + 1 = Len(queue)
    BY <1>1, <1>2, <1>6
  <2> QED
    BY <1>1, <2>1
<1>7. Len(Tail(queue)) = 0 => Len(queue) = 1
  <2>1. Len(queue) \in Nat /\ Len(Tail(queue)) = Len(queue) - 1
    BY <1>1, <1>2
  <2> QED
    BY ONLY <2>1
<1>8. Tail(queue) = <<>> => Head(queue) = queue[Len(queue)]
  BY <1>3, <1>5, <1>7
<1>9. Tail(queue) # <<>> => Tail(queue)[Len(Tail(queue))] = queue[Len(queue)]
  BY <1>3, <1>6
<1> QED
  BY <1>1, <1>4, <1>8, <1>9

\* pollEntitySnapshot
LEMMA PollKeeps ==
    ASSUME Inv, NEW p \in Players, Poll(p)
    PROVE  Inv'
<1> DEFINE c == client[p]
           x == Head(wire[p])
<1>1. c.phase = "in" /\ c.call = None /\ UNCHANGED <<zone, crossing, timeouts, acts>>
  BY DEF Poll
<1>2. /\ wire[p] \in Queues /\ c \in Clients /\ Connection(p) /\ Combat(p) /\ Follows(p)
      /\ acts \in 0 .. MaxActs /\ timeouts \in 0 .. acts
  BY InvServer DEF Inv, TypeInv
<1>3. c.tile \in Street
  BY <1>1, <1>2 DEF Connection
<1>4. None \notin FledCalls
  BY CallsAssumption DEF FledCalls, Answers
<1>5. CASE c.queue # <<>>
  <2> DEFINE d == [c EXCEPT !.view = Head(c.queue), !.queue = Tail(c.queue)]
  <2>1. client' = [client EXCEPT ![p] = d] /\ UNCHANGED wire
    BY <1>5 DEF Poll, Update
  <2>2. c.queue \in Seq(SUBSET Elements)
    BY <1>2 DEF Clients
  <2>3. /\ Head(c.queue) \in SUBSET Elements /\ Tail(c.queue) \in Seq(SUBSET Elements)
        /\ Tail(c.queue) = <<>> => Head(c.queue) = c.queue[Len(c.queue)]
        /\ Tail(c.queue) # <<>> => Tail(c.queue)[Len(Tail(c.queue))] = c.queue[Len(c.queue)]
    BY <1>5, <2>2, LastOfTail
  <2>4. /\ d \in Clients /\ d.phase = "in" /\ d.call = None /\ d.missed = c.missed
        /\ d.window = c.window /\ d.tile = c.tile
        /\ d.view = Head(c.queue) /\ d.queue = Tail(c.queue)
    BY <1>1, <1>2, <2>3 DEF Clients
  <2> HIDE DEF d
  <2>5. Behind(d) = Behind(c)
    BY <1>5, <2>3, <2>4 DEF Behind
  <2>6. Reachable(players, p) =>
            /\ Told(wire[p], d, players[p].inCombat)
            /\ Picture(wire[p], d, players, companion, spawns)
            /\ Place(p, wire[p], d, players[p].tile)
    BY <1>2, <2>4, <2>5 DEF Follows, Told, Picture, Place
  <2>7. timeouts = 0 => Expecting(wire[p], d, p \in transfers, crossing[p], IsHere(p))
    BY <1>1, <1>2, <2>4 DEF Follows, Expecting
  <2>8. Ordered(p, wire[p], d.phase)
    BY <1>1, <1>2, <2>4 DEF Follows
  <2>9. c.phase \notin Away /\ d.phase \notin Away
    BY <1>1, <2>4 DEF Away
  <2>10. UNCHANGED zone /\ UNCHANGED crossing /\ acts' \in 0 .. MaxActs /\ timeouts' \in 0 .. acts'
         /\ timeouts' = timeouts
    BY <1>1, <1>2
  <2> QED
    BY <1>2, <1>3, <1>4, <2>1, <2>4, <2>6, <2>7, <2>8, <2>9, <2>10, OwnStep
<1>6. CASE c.queue = <<>>
  <2> DEFINE tile == OwnTile(p, x.shown, c.tile)
             d == IF x.kind = "EntitySnapshot"
                  THEN [c EXCEPT !.view = x.shown, !.tile = tile,
                                 !.missed = c.missed \ {"snapshot"}]
                  ELSE Dispatched(p, c, x)
  <2>1. wire[p] # <<>> /\ Received(p) /\ client' = [client EXCEPT ![p] = d]
    BY <1>6 DEF Poll, Update
  <2>2. x \in Packets
    BY <1>2, <2>1, TailAnswers
  <2>3. x.kind # "EntitySnapshot" \/ Own(p, x.shown)
    BY <1>1, <2>1, FindsItself
  <2>4. d \in Clients /\ d.phase = "in" /\ d.call = None /\ d.tile \in Street
        /\ Takes(p, c, x, d, players[p].inCombat)
    <3>1. CASE x.kind = "EntitySnapshot"
      <4>1. x.shown \in SUBSET Elements /\ c.missed \in SUBSET {"snapshot", "fight"}
        BY <1>2, <2>2, <3>1, SnapshotTyped DEF Clients
      <4>2. tile \in Street /\ <<"player", p, tile>> \in x.shown
        BY <2>3, <3>1, <4>1, OwnTileShown
      <4>3. tile \in Tiles
        BY <4>2 DEF Street
      <4> HIDE DEF tile
      <4>4. /\ d \in Clients /\ d.phase = "in" /\ d.call = None /\ d.tile = tile
            /\ d.missed = c.missed \ {"snapshot"} /\ d.window = c.window
            /\ d.view = x.shown /\ d.queue = c.queue
        BY <1>1, <1>2, <3>1, <4>1, <4>3 DEF Clients
      <4> HIDE DEF d
      <4>5. Behind(d) = x.shown
        BY <1>6, <4>4 DEF Behind
      <4>6. x.kind \notin FightKinds
        BY <3>1, KindsApart
      <4> QED
        BY <2>3, <3>1, <4>2, <4>4, <4>5, <4>6 DEF Takes
    <3>2. CASE x.kind # "EntitySnapshot"
      <4>1. d = Dispatched(p, c, x)
        BY <3>2
      <4> HIDE DEF d
      <4> QED
        BY <1>1, <1>2, <1>3, <2>2, <4>1, DispatchedTakes
    <3> QED
      BY <3>1, <3>2
  <2> HIDE DEF d
  <2>5. timeouts = 0 =>
            Waiting(Tail(wire[p]), d.call, p \in transfers, crossing[p], IsHere(p))
    <3> SUFFICES ASSUME timeouts = 0
                 PROVE  Waiting(Tail(wire[p]), d.call, p \in transfers, crossing[p],
                                IsHere(p))
      OBVIOUS
    <3>1. AnswersIn(wire[p]) = {} /\ p \notin transfers
      BY <1>1, <1>2 DEF Follows, Expecting, Waiting
    <3>2. AnswersIn(Tail(wire[p])) = {}
      BY <1>2, <2>1, <3>1, TailAnswers
    <3> QED
      BY <2>4, <3>1, <3>2 DEF Waiting
  <2> QED
    BY <1>1, <1>4, <2>1, <2>4, <2>5, PlayReads
<1> QED
  BY <1>5, <1>6
-----------------------------------------------------------------------------
(* Coming in *)

\* The login goes one step further.
LEMMA PhaseTyped ==
    ASSUME Inv, NEW p \in Players, NEW phase \in Phases,
           client' = [client EXCEPT ![p].phase = phase]
    PROVE  /\ client' \in [Players -> Clients]
           /\ \A q \in Players \ {p} : client'[q] = client[q]
           /\ client'[p] = [client[p] EXCEPT !.phase = phase]
           /\ client'[p].phase = phase /\ client'[p].got = client[p].got
           /\ client'[p].call = client[p].call
           /\ client'[p].tile = client[p].tile /\ client'[p].queue = client[p].queue
           /\ client'[p].view = client[p].view /\ client'[p].window = client[p].window
           /\ client'[p].missed = client[p].missed
<1>1. client \in [Players -> Clients] /\ client[p] \in Clients
  BY InvServer
<1> DEFINE d == [client[p] EXCEPT !.phase = phase]
<1>2. /\ d \in Clients
      /\ d.phase = phase /\ d.got = client[p].got /\ d.call = client[p].call
      /\ d.tile = client[p].tile /\ d.queue = client[p].queue
      /\ d.view = client[p].view /\ d.window = client[p].window
      /\ d.missed = client[p].missed
  BY <1>1 DEF Clients
<1>3. client' = [client EXCEPT ![p] = d]
  OBVIOUS
<1> HIDE DEF d
<1>4. client'[p] = d
  BY <1>1, <1>3
<1> QED
  BY <1>1, <1>2, <1>3, <1>4 DEF d

\* handleRequestZoneTiles, for a connection that has its player: the tiles come last.
LEMMA TilesAnswered ==
    ASSUME Inv, NEW p \in Players, client[p].phase = "draining", IsHere(p),
           HandleRequestZoneTiles(p)
    PROVE  /\ ServerInv' /\ Others(p) /\ UNCHANGED zone
           /\ wire'[p] \in Queues /\ Ordered(p, wire'[p], "tiles")
           /\ AnswersIn(wire[p]) = {} =>
                  \A i, j \in AnswersIn(wire'[p]) : i = j /\ wire'[p][i].kind = "ZoneTileGrid"
           /\ Reachable(players, p) => Screen(p, wire'[p], players, companion, spawns)
<1> DEFINE x == Answer("ZoneTileGrid", TRUE, 0)
           queue == Aged(wire[p])
<1>1. /\ ServerInv /\ wire \in Wires /\ wire[p] \in Queues /\ Follows(p) /\ 0 \in Tiles
  BY InvServer, TilesAssumption DEF Inv, ServerInv, Tiles
<1>2. "ZoneTileGrid" \in AnswerKinds /\ "ZoneTileGrid" \notin Placing
  BY DEF AnswerKinds, Placing
<1>3. x \in Packets /\ x.kind = "ZoneTileGrid"
  BY <1>2, ConsentTyped
<1>4. JustReply(p, x)
  BY DEF HandleRequestZoneTiles
<1> HIDE DEF x
<1>5. /\ x.kind \in AnswerKinds /\ x.kind # "EntitySnapshot" /\ x.kind \notin FightKinds
      /\ x.kind \notin Placing
  BY <1>2, <1>3 DEF FightKinds
<1>6. /\ Asked(p) \in Wires /\ Asked(p)[p] = queue
      /\ \A q \in Players : q # p => Asked(p)[q] = wire[q]
  BY <1>1, AskedAt
<1>7. /\ wire' \in Wires /\ wire'[p] = Append(queue, x)
      /\ \A q \in Players : q # p => wire'[q] = wire[q]
  BY <1>3, <1>4, <1>6, RepliedAt DEF JustReply
<1>8. UNCHANGED <<players, saved, companion, spawns, fights, mapped, transfers, hangups>>
  BY <1>4 DEF JustReply, zone
<1>9. ServerInv'
  BY <1>1, <1>7, <1>8 DEF ServerInv
<1>10. ZoneStill
  BY <1>8 DEF ZoneStill, StillTrue
<1>11. Others(p)
  BY <1>1, <1>7, <1>8, <1>10, QuietSpares DEF Others
<1>12. Ready(p, queue, players, companion, spawns)
  BY <1>1, ReadyAsked
<1>13. queue \in Queues /\ Ordered(p, queue, "draining")
  BY <1>12 DEF Ready
<1>14. AnswersIn(wire[p]) = {} => AnswersIn(queue) = {}
  BY <1>12 DEF Ready
<1>15. Reachable(players, p) => Screen(p, queue, players, companion, spawns)
  BY <1>12 DEF Ready
<1> HIDE DEF queue
<1>16. Ordered(p, Append(queue, x), "tiles") /\ Append(queue, x) \in Queues
  BY <1>3, <1>5, <1>13, ShownAppend, AppendPlaces
<1>17. ASSUME AnswersIn(wire[p]) = {}
       PROVE  \A i, j \in AnswersIn(wire'[p]) : i = j /\ wire'[p][i].kind = "ZoneTileGrid"
  <2>1. OneAnswer(Append(queue, x), x)
    BY <1>3, <1>5, <1>13, <1>14, <1>17, AnswerAppended
  <2>2. PICK k \in AnswersIn(Append(queue, x)) :
            AnswersIn(Append(queue, x)) = {k} /\ Append(queue, x)[k] = x
    BY <2>1 DEF OneAnswer
  <2>3. \A i, j \in AnswersIn(Append(queue, x)) :
            i = j /\ Append(queue, x)[i].kind = "ZoneTileGrid"
    BY <1>3, <2>2
  <2> QED
    BY <1>7, <2>3
<1>18. ASSUME Reachable(players, p) PROVE Screen(p, Append(queue, x), players, companion, spawns)
  <2>1. Screen(p, queue, players, companion, spawns)
    BY <1>15, <1>18
  <2>2. Told(Append(queue, x), client[p], players[p].inCombat)
    BY <1>3, <1>5, <1>13, <2>1, ToldAppend DEF Screen
  <2>3. /\ Picture(Append(queue, x), client[p], players, companion, spawns)
        /\ Place(p, Append(queue, x), client[p], players[p].tile)
    BY <1>3, <1>5, <1>13, <2>1, ShownAppend DEF Screen
  <2> QED
    BY <2>2, <2>3 DEF Screen
<1> QED
  BY <1>4, <1>7, <1>9, <1>11, <1>16, <1>17, <1>18 DEF JustReply

\* The tiles are asked for.
LEMMA RequestZoneTilesKeeps ==
    ASSUME Inv, NEW p \in Players, RequestZoneTiles(p)
    PROVE  Inv'
<1>1. /\ client[p].phase = "draining" /\ HandleRequestZoneTiles(p)
      /\ client' = [client EXCEPT ![p].phase = "tiles"]
      /\ UNCHANGED <<crossing, timeouts, acts>>
  BY DEF RequestZoneTiles
<1>2. /\ client' \in [Players -> Clients]
      /\ \A q \in Players \ {p} : client'[q] = client[q]
      /\ client'[p].phase = "tiles" /\ client'[p].call = client[p].call
      /\ client'[p].tile = client[p].tile /\ client'[p].queue = client[p].queue
      /\ client'[p].view = client[p].view /\ client'[p].window = client[p].window
      /\ client'[p].missed = client[p].missed
  BY <1>1, PhaseTyped DEF Phases
<1>3. Connection(p) /\ Combat(p) /\ Follows(p) /\ Asking(p)
  BY <1>1, ActsAsks DEF Inv
<1>4. /\ ServerInv' /\ Others(p) /\ UNCHANGED zone
      /\ wire'[p] \in Queues /\ Ordered(p, wire'[p], "tiles")
      /\ AnswersIn(wire[p]) = {} =>
             \A i, j \in AnswersIn(wire'[p]) : i = j /\ wire'[p][i].kind = "ZoneTileGrid"
      /\ Reachable(players, p) => Screen(p, wire'[p], players, companion, spawns)
  <2>1. CASE IsHere(p)
    BY <1>1, <2>1, TilesAnswered
  <2>2. CASE ~ IsHere(p)
    <3>1. Unanswered(p)
      BY <1>1, <1>3, <2>2, SilenceHandles DEF HandleRequestZoneTiles
    <3>2. Ready(p, wire'[p], players, companion, spawns)
      BY <3>1 DEF Unanswered
    <3>3. Ordered(p, wire'[p], "tiles")
      BY <1>1, <3>2 DEF Ready, Ordered
    <3> QED
      BY <3>1, <3>2, <3>3 DEF Unanswered, Ready
  <2> QED
    BY <2>1, <2>2
<1>5. UNCHANGED <<players, saved, companion, spawns, fights, mapped, transfers, hangups>>
  BY <1>4 DEF zone
<1>6. Connection(p)'
  BY <1>1, <1>2, <1>3, <1>5 DEF Connection, Away, IsHere
<1>7. Combat(p)'
  BY <1>2, <1>3, <1>5 DEF Combat
<1>8. timeouts' = 0 =>
          Expecting(wire'[p], client'[p], p \in transfers', crossing'[p], IsHere(p)')
  BY <1>1, <1>2, <1>3, <1>4 DEF Follows, Expecting
<1>9. Reachable(players, p)' => Reachable(players, p)
  BY <1>5 DEF Reachable
<1>10. ASSUME Reachable(players, p)
       PROVE  /\ Told(wire'[p], client'[p], players'[p].inCombat)
              /\ Picture(wire'[p], client'[p], players', companion', spawns')
              /\ Place(p, wire'[p], client'[p], players'[p].tile)
  <2>1. Screen(p, wire'[p], players, companion, spawns)
    BY <1>4, <1>10
  <2>2. /\ Told(wire'[p], client'[p], players[p].inCombat)
        /\ Picture(wire'[p], client'[p], players, companion, spawns)
        /\ Place(p, wire'[p], client'[p], players[p].tile)
    BY <1>2, <2>1, SameScreen DEF Screen
  <2> QED
    BY <1>5, <2>2
<1>11. Follows(p)'
  BY <1>2, <1>4, <1>8, <1>9, <1>10 DEF Follows
<1>12. /\ acts' \in 0 .. MaxActs /\ timeouts' \in 0 .. acts' /\ timeouts' = timeouts
       /\ crossing' \in [Players -> Crossing] /\ crossing' = crossing
  BY <1>1 DEF Inv, TypeInv
<1> QED
  BY <1>2, <1>4, <1>6, <1>7, <1>11, <1>12, OneStep

\* WorldLogin has the zone admit a character: nobody is bound to it yet.
LEMMA EnterKeeps ==
    ASSUME Inv, NEW p \in Players, Enter(p)
    PROVE  Inv'
<1>1. PICK tile \in {saved[p], EntryTile} : Admit(p, tile)
  BY DEF Enter
<1>2. /\ client[p].phase = "out" /\ acts < MaxActs /\ acts' = acts + 1
      /\ client' = [client EXCEPT ![p].phase = "admitted"]
      /\ UNCHANGED <<crossing, timeouts>>
  BY DEF Enter
<1>3. /\ client' \in [Players -> Clients]
      /\ \A q \in Players \ {p} : client'[q] = client[q]
      /\ client'[p] = [client[p] EXCEPT !.phase = "admitted"]
      /\ client'[p].phase = "admitted" /\ client'[p].call = client[p].call
      /\ client'[p].missed = client[p].missed
  BY <1>2, PhaseTyped DEF Phases
<1>4. Connection(p) /\ ServerInv
  BY InvServer DEF Inv
<1>5. tile \in Street
  BY <1>4, TilesAssumption DEF ServerInv, Street
<1>6. /\ Entity(tile) \in Entities /\ Entity(tile) # None
      /\ Entity(tile).connected = FALSE /\ Entity(tile).inCombat = FALSE
  <2>1. Entity(tile) \in [tile : Tiles, inCombat : BOOLEAN, connected : BOOLEAN]
    BY <1>5 DEF Entity, Street
  <2> QED
    BY <1>5, <2>1, NoneAssumption DEF Entity, Entities
<1>7. /\ players' = [players EXCEPT ![p] = Entity(tile)]
      /\ saved' = [saved EXCEPT ![p] = tile]
      /\ UNCHANGED <<companion, spawns, fights, mapped, transfers, hangups, wire>>
  BY <1>1 DEF Admit
<1>8. /\ players' \in Insides /\ players'[p] = Entity(tile)
      /\ \A q \in Players \ {p} : players'[q] = players[q]
      /\ saved' \in [Players -> Street]
  BY <1>4, <1>5, <1>6, <1>7 DEF ServerInv, Insides
<1>9. ServerInv'
  BY <1>4, <1>7, <1>8 DEF ServerInv
<1>10. ZoneStill
  BY <1>6, <1>7, <1>8 DEF ZoneStill, StillTrue
<1>11. Others(p)
  BY <1>4, <1>7, <1>8, <1>10, QuietSpares DEF Others
<1>12. ~ IsHere(p)' /\ ~ Reachable(players, p)'
  BY <1>6, <1>8 DEF IsHere, Reachable
<1>13. Connection(p)'
  <2>1. client[p] = [NoClient EXCEPT !.phase = "out"] /\ wire'[p] = <<>>
    BY <1>2, <1>4, <1>7 DEF Connection, Away
  <2>2. client'[p] = [NoClient EXCEPT !.phase = client'[p].phase]
    BY <1>3, <2>1 DEF NoClient
  <2>3. client'[p].call = None /\ p \notin transfers' /\ "snapshot" \notin client'[p].missed
    BY <1>2, <1>3, <1>4, <1>7 DEF Connection
  <2> QED
    BY <1>3, <1>12, <2>1, <2>2, <2>3 DEF Connection, Away
<1>14. Combat(p)'
  BY <1>6, <1>8 DEF Combat
<1>15. Follows(p)'
  <2>1. Ordered(p, wire[p], client[p].phase)'
    BY <1>3 DEF Ordered
  <2>2. Expecting(wire[p], client[p], p \in transfers, crossing[p], IsHere(p))'
    BY <1>3 DEF Expecting
  <2> QED
    BY <1>12, <2>1, <2>2 DEF Follows
<1>16. /\ acts' \in 0 .. MaxActs /\ timeouts' \in 0 .. acts' /\ timeouts' = timeouts
  BY <1>2, BoundsAssumption DEF Inv, TypeInv
<1>17. crossing' \in [Players -> Crossing] /\ crossing' = crossing
  BY <1>2 DEF Inv, TypeInv
<1> QED
  BY <1>3, <1>9, <1>11, <1>13, <1>14, <1>15, <1>16, <1>17, OneStep

\* The packets of a connection that has been resumed.
LEMMA FourPackets ==
    ASSUME NEW S, NEW a \in S, NEW b \in S, NEW c \in S, NEW d \in S
    PROVE  /\ Append(<<a, b, c>>, d) \in Seq(S)
           /\ DOMAIN Append(<<a, b, c>>, d) = {1, 2, 3, 4}
           /\ Append(<<a, b, c>>, d)[1] = a /\ Append(<<a, b, c>>, d)[2] = b
           /\ Append(<<a, b, c>>, d)[3] = c /\ Append(<<a, b, c>>, d)[4] = d
<1> DEFINE s == <<a, b, c>>
<1>1. s \in Seq(S) /\ Len(s) = 3 /\ s[1] = a /\ s[2] = b /\ s[3] = c
  OBVIOUS
<1> HIDE DEF s
<1>2. /\ Append(s, d) \in Seq(S) /\ Len(Append(s, d)) = 4
      /\ \A i \in 1 .. 3 : Append(s, d)[i] = s[i]
      /\ Append(s, d)[4] = d
  BY <1>1, AppendProperties
<1>3. DOMAIN Append(s, d) = 1 .. 4
  BY <1>2, LenProperties
<1>4. Append(s, d)[1] = a /\ Append(s, d)[2] = b /\ Append(s, d)[3] = c
  BY <1>1, <1>2
<1>5. 1 .. 4 = {1, 2, 3, 4}
  OBVIOUS
<1> QED
  BY <1>2, <1>3, <1>4, <1>5 DEF s

\* What a client that resumes may have under way to it.
Resumable(p, queue, inside, pets, mobs) ==
    /\ queue \in Queues
    /\ AnswersIn(queue) = {1} /\ queue[1].kind = "SessionResumeResponse"
    /\ Ordered(p, queue, "resuming")
    /\ \A c : c.window = FALSE =>
           /\ Told(queue, c, inside[p].inCombat)
           /\ Picture(queue, c, inside, pets, mobs)
           /\ Place(p, queue, c, inside[p].tile)

\* handleSessionResume finds the player: an answer, the zone, the zone with the player in
\* it, and what the others are shown, where he is not.
LEMMA ResumedQueue ==
    ASSUME NEW p \in Players,
           NEW inside \in Insides, NEW pets \in Pets, NEW mobs \in Mobs, inside[p] # None,
           inside[p].inCombat = FALSE,
           NEW a \in Packets, NEW z \in Packets,
           a.kind = "SessionResumeResponse", z.kind = "ZoneSnapshot",
           NEW part, part \in SUBSET Shown(inside, pets, mobs), ~ Own(p, part),
           NEW queue, queue = Append(<<a, z, Snapshot(Shown(inside, pets, mobs))>>, Snapshot(part))
    PROVE  Resumable(p, queue, inside, pets, mobs)
<1> DEFINE s1 == Snapshot(Shown(inside, pets, mobs))
           s2 == Snapshot(part)
<1>0. s1 \in Packets /\ s2 \in Packets
  <2>1. Shown(inside, pets, mobs) \in SUBSET Elements
    BY ShownTyped
  <2> QED
    BY <2>1, PushTyped
<1>1. /\ queue \in Queues /\ DOMAIN queue = {1, 2, 3, 4}
      /\ queue[1] = a /\ queue[2] = z /\ queue[3] = s1 /\ queue[4] = s2
  <2>1. queue = Append(<<a, z, s1>>, s2)
    OBVIOUS
  <2> HIDE DEF s1, s2
  <2> QED
    BY <1>0, <2>1, FourPackets DEF Queues
<1>2. /\ s1.kind = "EntitySnapshot" /\ s1.shown = Shown(inside, pets, mobs)
      /\ s2.kind = "EntitySnapshot" /\ s2.shown = part
  BY DEF Snapshot
<1>3. /\ "SessionResumeResponse" \in AnswerKinds /\ "SessionResumeResponse" \in Placing
      /\ "ZoneSnapshot" \notin AnswerKinds /\ "EntitySnapshot" \notin AnswerKinds
      /\ "SessionResumeResponse" \notin FightKinds /\ "ZoneSnapshot" \notin FightKinds
      /\ "EntitySnapshot" \notin FightKinds
      /\ "ZoneSnapshot" \notin Placing /\ "EntitySnapshot" \notin Placing
  BY DEF AnswerKinds, Placing, FightKinds
<1>4. /\ Truthful(Shown(inside, pets, mobs), inside, pets, mobs)
      /\ <<"player", p, inside[p].tile>> \in Shown(inside, pets, mobs)
      /\ \A t : <<"player", p, t>> \in Shown(inside, pets, mobs) => t = inside[p].tile
  BY ShownIsTrue
<1>5. Truthful(part, inside, pets, mobs)
  BY <1>4 DEF Truthful
<1>6. Own(p, s1.shown) /\ ~ Own(p, s2.shown)
  BY <1>2, <1>4 DEF Own, Insides, Entities
<1>7. AnswersIn(queue) = {1} /\ FightsIn(queue) = {} /\ GridsIn(queue) = {}
      /\ ShownIn(queue) = {3, 4}
  <2>1. \A i \in {1, 2, 3, 4} :
            /\ queue[i].kind \in AnswerKinds <=> i = 1
            /\ queue[i].kind \notin FightKinds
            /\ queue[i].kind # "ZoneTileGrid"
            /\ queue[i].kind = "EntitySnapshot" <=> i \in {3, 4}
    BY <1>1, <1>2, <1>3
  <2> QED
    BY <1>1, <2>1 DEF AnswersIn, FightsIn, GridsIn, ShownIn, Places
<1>8. OwnIn(p, queue) = {3}
  BY <1>1, <1>6, <1>7 DEF OwnIn
<1>9. PlacedIn(queue) \subseteq {1}
  <2>1. Places(queue, Placing) \subseteq {1}
    BY <1>1, <1>2, <1>3 DEF Places
  <2> QED
    BY <2>1 DEF PlacedIn
<1>10. Ordered(p, queue, "resuming")
  BY <1>7 DEF Ordered
<1>11. \A c : c.window = FALSE => Told(queue, c, inside[p].inCombat)
  BY <1>7 DEF Told, Last
<1>12. \A c : Picture(queue, c, inside, pets, mobs)
  <2>1. \A i : Last(i, {3, 4}) => i = 4
    BY DEF Last
  <2>2. ShownIn(queue) # {} /\ Truthful(queue[4].shown, inside, pets, mobs)
    <3>1. ShownIn(queue) # {}
      BY <1>7
    <3>2. queue[4].shown = part
      BY <1>1, <1>2
    <3> QED
      BY <1>5, <3>1, <3>2, Zenon
  <2> QED
    BY <1>7, <2>1, <2>2 DEF Picture
<1>13. \A c : Place(p, queue, c, inside[p].tile)
  <2>1. \A i : Last(i, {3}) => i = 3
    BY DEF Last
  <2>2. \A i \in PlacedIn(queue) : ~ (3 < i)
    BY <1>9
  <2> QED
    BY <1>1, <1>2, <1>4, <1>8, <2>1, <2>2 DEF Place
<1> QED
  BY <1>1, <1>7, <1>10, <1>11, <1>12, <1>13 DEF Resumable

\* The others are shown the zone without the newcomer, who is nobody they know.
LEMMA NewcomerSpares ==
    ASSUME ServerInv, ServerInv', NEW p \in Players, NEW q \in Players \ {p},
           players'[q] = players[q], UNCHANGED <<mapped, transfers>>,
           q \in hangups' <=> q \in hangups, UNCHANGED <<companion, spawns>>,
           NEW part \in SUBSET Shown(players', companion, spawns),
           players[q] # None => <<"player", q, players[q].tile>> \in part,
           wire'[q] = IF Reachable(players, q) THEN Post(wire[q], Snapshot(part)) ELSE wire[q]
    PROVE  Spared(q)
<1> DEFINE x == Snapshot(part)
<1>1. /\ wire[q] \in Queues /\ players' \in Insides /\ companion \in Pets /\ spawns \in Mobs
      /\ players[q] # None => players[q].tile \in Street
  BY DEF ServerInv, Wires, Insides, Entities
<1>2. /\ x \in Packets /\ x.kind = "EntitySnapshot" /\ x.shown = part
  <2>1. Shown(players', companion, spawns) \in SUBSET Elements
    BY <1>1, ShownTyped
  <2> QED
    BY <2>1, PushTyped
<1>3. CASE ~ Reachable(players, q)
  BY <1>1, <1>3, GrowReflexive DEF Spared
<1>4. CASE Reachable(players, q)
  <2>1. <<"player", q, players[q].tile>> \in part /\ players[q] # None
    BY <1>4 DEF Reachable
  <2>2. Pushable(q, x)
    BY <1>1, <1>2, <2>1 DEF Pushable, Own
  <2>3. /\ Grow(q, wire[q], Post(wire[q], x))
        /\ Post(wire[q], x) \in Queues
        /\ Len(Post(wire[q], x)) \in Nat \ {0}
        /\ Post(wire[q], x)[Len(Post(wire[q], x))] = x
    BY <1>1, <1>2, <2>2, GrowPost, PostCases
  <2>4. Post(wire[q], x) # <<>>
    BY <2>3
  <2>5. wire'[q] = Post(wire[q], x)
    BY <1>4
  <2> HIDE DEF x
  <2>6. Fresh(q, wire'[q], players', companion', spawns')
    BY <2>1, <2>3, <2>4, <2>5 DEF Fresh, x
  <2> QED
    BY <1>4, <2>3, <2>5, <2>6 DEF Spared
<1> QED
  BY <1>3, <1>4

\* What remains to be said of the client that has just connected.
LEMMA ConnectedKeeps ==
    ASSUME Inv, NEW p \in Players, client[p].phase = "admitted",
           client' = [client EXCEPT ![p].phase = "resuming"],
           UNCHANGED <<crossing, timeouts, acts>>,
           ServerInv', Others(p), UNCHANGED transfers, p \notin hangups' \/ ~ IsHere(p)',
           players'[p] # None => ~ players'[p].inCombat,
           AnswersIn(wire'[p]) = {1}, wire'[p][1].kind = "SessionResumeResponse",
           Ordered(p, wire'[p], "resuming"),
           Reachable(players, p)' =>
               \A c : c.window = FALSE =>
                   /\ Told(wire'[p], c, players'[p].inCombat)
                   /\ Picture(wire'[p], c, players', companion', spawns')
                   /\ Place(p, wire'[p], c, players'[p].tile)
    PROVE  Inv'
<1>1. /\ client' \in [Players -> Clients]
      /\ \A q \in Players \ {p} : client'[q] = client[q]
      /\ client'[p].phase = "resuming" /\ client'[p].got = client[p].got
      /\ client'[p].call = client[p].call /\ client'[p].missed = client[p].missed
      /\ client'[p].window = client[p].window
  BY PhaseTyped DEF Phases
<1>2. Connection(p)
  BY DEF Inv
<1>3. client[p].got = {} /\ client[p].window = FALSE
  <2>1. client[p] = [NoClient EXCEPT !.phase = client[p].phase]
    BY <1>2 DEF Connection, Away
  <2>2. /\ [NoClient EXCEPT !.phase = client[p].phase].got = {}
        /\ [NoClient EXCEPT !.phase = client[p].phase].window = FALSE
    BY DEF NoClient
  <2> QED
    BY <2>1, <2>2
<1>4. Connection(p)'
  <2>1. client'[p].phase \notin Away /\ client'[p].phase \notin {"draining", "tiles", "in"}
    BY <1>1 DEF Away
  <2>2. "SessionResumeResponse" \notin client'[p].got
    BY <1>1, <1>3
  <2>3. client'[p].call = None /\ p \notin transfers' /\ "snapshot" \notin client'[p].missed
    BY <1>1, <1>2 DEF Connection
  <2> QED
    BY <2>1, <2>2, <2>3 DEF Connection
<1>5. Combat(p)'
  BY DEF Combat
<1>6. Follows(p)'
  <2>1. Expecting(wire'[p], client'[p], p \in transfers', crossing'[p], IsHere(p)')
    BY <1>1, <1>3 DEF Expecting
  <2> QED
    BY <1>1, <1>3, <2>1 DEF Follows
<1>7. /\ acts' \in 0 .. MaxActs /\ timeouts' \in 0 .. acts' /\ timeouts' = timeouts
      /\ crossing' \in [Players -> Crossing] /\ crossing' = crossing
  BY DEF Inv, TypeInv
<1> QED
  BY <1>1, <1>4, <1>5, <1>6, <1>7, OneStep

\* The others are shown everybody but the newcomer.
LEMMA WithoutNewcomer ==
    ASSUME NEW p \in Players, NEW inside \in Insides, NEW pets \in Pets, NEW mobs \in Mobs,
           NEW part, part = {e \in Shown(inside, pets, mobs) : <<e[1], e[2]>> # <<"player", p>>}
    PROVE  /\ part \in SUBSET Shown(inside, pets, mobs) /\ ~ Own(p, part)
           /\ \A q \in Players \ {p} : inside[q] # None => <<"player", q, inside[q].tile>> \in part
<1>1. ~ Own(p, part)
  <2>1. \A t : << <<"player", p, t>>[1], <<"player", p, t>>[2] >> = <<"player", p>>
    OBVIOUS
  <2> QED
    BY <2>1 DEF Own
<1>2. ASSUME NEW q \in Players \ {p}, inside[q] # None
      PROVE  <<"player", q, inside[q].tile>> \in part
  <2> DEFINE e == <<"player", q, inside[q].tile>>
  <2>1. e \in Shown(inside, pets, mobs)
    BY <1>2, ShownIsTrue
  <2>2. e[1] = "player" /\ e[2] = q
    OBVIOUS
  <2> HIDE DEF e
  <2>3. <<e[1], e[2]>> # <<"player", p>>
    BY <2>2
  <2>4. e \in part
    BY <2>1, <2>3
  <2> QED
    BY <2>4 DEF e
<1> QED
  BY <1>1, <1>2

\* completeEnterZone and reconnectToZone: the player that the zone admitted is bound, or
\* there is none and the client is told so.
LEMMA ConnectKeeps ==
    ASSUME Inv, NEW p \in Players, Connect(p)
    PROVE  Inv'
<1>1. /\ client[p].phase = "admitted" /\ HandleSessionResume(p)
      /\ client' = [client EXCEPT ![p].phase = "resuming"]
      /\ UNCHANGED <<crossing, timeouts, acts>>
  BY DEF Connect
<1>2. /\ ServerInv /\ Connection(p) /\ Combat(p)
      /\ players \in Insides /\ companion \in Pets /\ spawns \in Mobs
      /\ wire \in Wires /\ 0 \in Tiles
  BY InvServer, TilesAssumption DEF Inv, ServerInv, Tiles
<1>3. ~ IsHere(p)
  BY <1>1, <1>2 DEF Connection, Away
<1>4. CASE players[p] = None
  <2> DEFINE a == Answer("SessionResumeResponse", FALSE, 0)
  <2>1. wire' = [wire EXCEPT ![p] = <<a>>] /\ UNCHANGED zone
    BY <1>1, <1>4 DEF HandleSessionResume
  <2>2. a \in Packets /\ a.kind = "SessionResumeResponse" /\ a.kind \in AnswerKinds
    <3>1. "SessionResumeResponse" \in AnswerKinds
      BY DEF AnswerKinds
    <3> QED
      BY <1>2, <3>1, AnswerTyped
  <2> HIDE DEF a
  <2>3. UNCHANGED <<players, saved, companion, spawns, fights, mapped, transfers, hangups>>
    BY <2>1 DEF zone
  <2>4. <<a>> \in Queues /\ DOMAIN <<a>> = {1} /\ <<a>>[1] = a
    BY <2>2 DEF Queues
  <2>5. /\ wire' \in Wires /\ wire'[p] = <<a>>
        /\ \A q \in Players \ {p} : wire'[q] = wire[q]
    BY <1>2, <2>1, <2>4 DEF Wires
  <2>6. ServerInv'
    BY <1>2, <2>3, <2>5 DEF ServerInv
  <2>7. Others(p)
    <3>1. ZoneStill
      BY <2>3 DEF ZoneStill, StillTrue
    <3> QED
      BY <1>2, <2>3, <2>5, <3>1, QuietSpares DEF Others
  <2>8. ~ IsHere(p)' /\ ~ Reachable(players, p)' /\ players'[p] = None
    BY <1>4, <2>3 DEF IsHere, Reachable
  <2>9. AnswersIn(wire'[p]) = {1} /\ GridsIn(wire'[p]) = {}
        /\ wire'[p][1].kind = "SessionResumeResponse"
    BY <2>2, <2>4, <2>5 DEF AnswersIn, GridsIn, Places
  <2>10. Ordered(p, wire'[p], "resuming")
    BY <2>9 DEF Ordered
  <2> QED
    BY <1>1, <2>3, <2>6, <2>7, <2>8, <2>9, <2>10, ConnectedKeeps
<1>5. CASE players[p] # None
  <2> DEFINE tile == players[p].tile
             inside == [players EXCEPT ![p].connected = TRUE]
             a == Answer("SessionResumeResponse", TRUE, tile)
             z == [kind |-> "ZoneSnapshot"]
             s1 == Snapshot(Shown(inside, companion, spawns))
             part == {e \in Shown(inside, companion, spawns) : <<e[1], e[2]>> # <<"player", p>>}
             s2 == Snapshot(part)
             queue == Append(<<a, z, s1>>, s2)
  <2>1. /\ players' = inside /\ hangups' = hangups \ {p}
        /\ wire' = [q \in Players |->
                       IF q = p THEN queue
                       ELSE IF Reachable(players, q) THEN Post(wire[q], s2) ELSE wire[q]]
        /\ UNCHANGED <<saved, companion, spawns, fights, mapped, transfers>>
    BY <1>1, <1>5 DEF HandleSessionResume
  <2>2. players[p] \in Entities /\ ~ players[p].connected /\ ~ players[p].inCombat
    <3>1. players[p] \in Entities
      BY <1>2, <1>5 DEF Insides
    <3> QED
      BY <1>2, <1>3, <1>5, <3>1 DEF IsHere, Combat
  <2>3. /\ inside \in Insides /\ inside[p] # None /\ inside[p].tile = tile
        /\ inside[p].inCombat = FALSE
        /\ \A q \in Players \ {p} : inside[q] = players[q]
    <3> DEFINE after == [players[p] EXCEPT !.connected = TRUE]
    <3>1. after \in Entities /\ after.tile = tile /\ after.inCombat = FALSE
      BY <2>2 DEF Entities
    <3>2. after # None
      <4>1. after \in [tile : Tiles, inCombat : BOOLEAN, connected : BOOLEAN]
        BY <3>1 DEF Entities, Street
      <4> QED
        BY <4>1, NoneAssumption
    <3>3. inside = [players EXCEPT ![p] = after]
      OBVIOUS
    <3> HIDE DEF after
    <3> QED
      BY <1>2, <3>1, <3>2, <3>3 DEF Insides
  <2>4. tile \in Street /\ tile \in Tiles
    BY <2>2 DEF Entities, Street
  <2>5. a \in Packets /\ a.kind = "SessionResumeResponse"
    <3>1. "SessionResumeResponse" \in AnswerKinds
      BY DEF AnswerKinds
    <3> HIDE DEF tile
    <3> QED
      BY <2>4, <3>1, AnswerTyped
  <2>6. z \in Packets /\ z.kind = "ZoneSnapshot"
    BY PushTyped
  <2> HIDE DEF inside
  <2>7. /\ part \in SUBSET Shown(inside, companion, spawns) /\ ~ Own(p, part)
        /\ \A q \in Players \ {p} : inside[q] # None => <<"player", q, inside[q].tile>> \in part
    BY <1>2, <2>3, WithoutNewcomer
  <2> HIDE DEF part
  <2>8. s1 \in Packets /\ s2 \in Packets
    <3>1. Shown(inside, companion, spawns) \in SUBSET Elements
      BY <1>2, <2>3, ShownTyped
    <3> QED
      BY <2>7, <3>1, PushTyped
  <2> HIDE DEF a, z, tile
  <2>9. Resumable(p, queue, inside, companion, spawns)
    <3>1. /\ a \in Packets /\ z \in Packets
          /\ inside \in Insides /\ companion \in Pets /\ spawns \in Mobs
      BY <1>2, <2>3, <2>5, <2>6
    <3>2. /\ a.kind = "SessionResumeResponse" /\ z.kind = "ZoneSnapshot"
          /\ inside[p] # None /\ inside[p].inCombat = FALSE /\ ~ Own(p, part)
          /\ part \in SUBSET Shown(inside, companion, spawns)
      BY <2>3, <2>5, <2>6, <2>7
    <3>3. queue = Append(<<a, z, Snapshot(Shown(inside, companion, spawns))>>, Snapshot(part))
      OBVIOUS
    <3> HIDE DEF s1, s2, queue
    <3> QED
      BY <3>1, <3>2, <3>3, ResumedQueue
  <2> HIDE DEF queue
  <2>10. wire'[p] = queue
    BY <2>1
  <2>11. \A q \in Players \ {p} :
             wire'[q] = IF Reachable(players, q) THEN Post(wire[q], s2) ELSE wire[q]
    BY <2>1
  <2>12. wire' \in Wires
    <3>1. \A q \in Players : wire[q] \in Queues
      BY <1>2 DEF Wires
    <3>2. \A q \in Players : Post(wire[q], s2) \in Queues
      BY <2>8, <3>1, PostCases
    <3>3. \A q \in Players : wire'[q] \in Queues
      BY <2>9, <2>10, <2>11, <3>1, <3>2 DEF Resumable
    <3> QED
      BY <2>1, <3>3 DEF Wires
  <2>13. ServerInv'
    BY <1>2, <2>1, <2>3, <2>12 DEF ServerInv
  <2>14. Others(p)
    <3> SUFFICES ASSUME NEW q \in Players \ {p} PROVE Spared(q)
      BY DEF Others
    <3>1. /\ players'[q] = players[q]
          /\ q \in hangups' <=> q \in hangups
          /\ players[q] # None => <<"player", q, players[q].tile>> \in part
      BY <2>1, <2>3, <2>7
    <3>2. part \in SUBSET Shown(players', companion, spawns)
      BY <2>1, <2>7
    <3> QED
      BY <1>2, <2>1, <2>11, <2>13, <3>1, <3>2, NewcomerSpares
  <2>15. p \notin hangups' /\ players'[p].inCombat = FALSE
    BY <2>1, <2>3
  <2>16. \A c : c.window = FALSE =>
             /\ Told(wire'[p], c, players'[p].inCombat)
             /\ Picture(wire'[p], c, players', companion', spawns')
             /\ Place(p, wire'[p], c, players'[p].tile)
    BY <2>1, <2>9, <2>10 DEF Resumable
  <2>17. AnswersIn(wire'[p]) = {1} /\ wire'[p][1].kind = "SessionResumeResponse"
         /\ Ordered(p, wire'[p], "resuming")
    BY <2>9, <2>10 DEF Resumable
  <2> QED
    BY <1>1, <2>1, <2>13, <2>14, <2>15, <2>16, <2>17, ConnectedKeeps
<1> QED
  BY <1>4, <1>5

-----------------------------------------------------------------------------
(* What the zone does by itself *)

\* As long as WorldLogin owes an answer to who waits for it, it does not matter how many.
LEMMA SameDebt ==
    ASSUME NEW queue, NEW c, NEW transferred, NEW here, NEW x, NEW y,
           Expecting(queue, c, transferred, x, here),
           transferred /\ Owes(x) => Owes(y), y.again = x.again
    PROVE  Expecting(queue, c, transferred, y, here)
<1>1. \A packet : Timely(packet, x) <=> Timely(packet, y)
  BY DEF Timely
<1>2. \A call : Closed(queue, call, x) => Closed(queue, call, y)
  BY <1>1 DEF Closed
<1>3. \A call : Waiting(queue, call, transferred, x, here) =>
                    Waiting(queue, call, transferred, y, here)
  BY <1>2 DEF Waiting
<1> QED
  BY <1>3 DEF Expecting

\* The player is taken out of the zone. Everybody else is shown so, and a client that asks
\* on a connection without a player may be left without an answer.
LEMMA LeaveKeeps ==
    ASSUME Inv, NEW p \in Players, Leave(p), hangups' \in {hangups, hangups \ {p}},
           UNCHANGED <<client, timeouts, acts>>,
           crossing' \in [Players -> Crossing],
           \A q \in Players \ {p} : crossing'[q] = crossing[q],
           Owes(crossing[p]) => Owes(crossing'[p]), crossing'[p].again = crossing[p].again
    PROVE  Inv'
<1> DEFINE inside == [players EXCEPT ![p] = None]
<1>1. /\ ServerInv /\ Connection(p) /\ Follows(p)
      /\ players \in Insides /\ companion \in Pets /\ spawns \in Mobs /\ wire \in Wires
      /\ client \in [Players -> Clients]
      /\ \A q \in Players : wire[q] \in Queues
  BY InvServer DEF Inv, ServerInv
<1>2. /\ saved' = IF players[p] = None THEN saved ELSE [saved EXCEPT ![p] = players[p].tile]
      /\ players' = inside
      /\ wire' = Broadcast(wire, inside, companion, spawns)
      /\ UNCHANGED <<companion, spawns, fights, mapped, transfers>>
  BY DEF Leave
<1>3. /\ inside \in Insides /\ inside[p] = None
      /\ \A q \in Players \ {p} : inside[q] = players[q]
  BY <1>1 DEF Insides
<1>4. saved' \in [Players -> Street]
  <2>1. players[p] # None => players[p].tile \in Street
    BY <1>1 DEF Insides, Entities
  <2> QED
    BY <1>1, <1>2, <2>1 DEF ServerInv
<1> HIDE DEF inside
<1>5. ~ Reachable(inside, p)
  BY <1>3 DEF Reachable
<1>6. wire' \in Wires /\ wire'[p] = wire[p]
  BY <1>1, <1>2, <1>3, <1>5, BroadcastAt
<1>7. ServerInv'
  <2>1. hangups' \in SUBSET Players
    BY <1>1 DEF ServerInv
  <2> QED
    BY <1>1, <1>2, <1>3, <1>4, <1>6, <2>1 DEF ServerInv
<1>8. Others(p)
  <2> SUFFICES ASSUME NEW q \in Players \ {p} PROVE Spared(q)
    BY DEF Others
  <2>1. /\ players'[q] = players[q]
        /\ q \in hangups' <=> q \in hangups
        /\ wire'[q] = Broadcast(wire, inside, companion, spawns)[q]
    BY <1>2, <1>3
  <2>2. Grow(q, wire[q], wire[q])
    BY <1>1, GrowReflexive
  <2>3. /\ inside = players' /\ companion = companion' /\ spawns = spawns'
        /\ players' \in Insides /\ companion' \in Pets /\ spawns' \in Mobs
        /\ q \in mapped' <=> q \in mapped
        /\ q \in transfers' <=> q \in transfers
    BY <1>1, <1>2, <1>3
  <2> QED
    BY <1>1, <2>1, <2>2, <2>3, BroadcastSpares
<1>9. ~ IsHere(p)' /\ ~ Reachable(players, p)' /\ players'[p] = None
  BY <1>2, <1>3 DEF IsHere, Reachable
<1>10. Connection(p)'
  BY <1>1, <1>2, <1>6, <1>9 DEF Connection
<1>11. Combat(p)'
  BY <1>9 DEF Combat
<1>12. Follows(p)'
  <2>1. Ordered(p, wire'[p], client'[p].phase)
    BY <1>1, <1>6 DEF Follows
  <2>2. timeouts = 0 =>
            Expecting(wire[p], client[p], p \in transfers, crossing[p], IsHere(p))
    BY <1>1 DEF Follows
  <2>3. timeouts = 0 => Expecting(wire[p], client[p], p \in transfers, crossing[p], FALSE)
    BY <2>2 DEF Expecting, Waiting
  <2>4. timeouts = 0 => Expecting(wire[p], client[p], p \in transfers, crossing'[p], FALSE)
    BY <2>3, SameDebt
  <2>5. timeouts' = 0 =>
            Expecting(wire'[p], client'[p], p \in transfers', crossing'[p], IsHere(p)')
    BY <1>2, <1>6, <1>9, <2>4 DEF Expecting, Waiting
  <2> QED
    BY <1>9, <2>1, <2>5 DEF Follows
<1>13. /\ acts' \in 0 .. MaxActs /\ timeouts' \in 0 .. acts' /\ timeouts' = timeouts
  BY DEF Inv, TypeInv
<1> QED
  BY <1>1, <1>7, <1>8, <1>10, <1>11, <1>12, <1>13, OneStep

\* handleZoneTransferAuthorize
LEMMA ReleasedKeeps ==
    ASSUME Inv, NEW p \in Players, Released(p)
    PROVE  Inv'
<1> DEFINE x == crossing[p]
           y == [x EXCEPT !.asked = @ - 1, !.released = TRUE]
<1>1. /\ x.asked > 0 /\ ~ x.released
      /\ crossing' = [crossing EXCEPT ![p] = y]
      /\ Leave(p) /\ hangups' = hangups
      /\ UNCHANGED <<client, timeouts, acts>>
  BY DEF Released, HandleZoneTransferAuthorize
<1>2. crossing \in [Players -> Crossing] /\ x \in Crossing
  BY DEF Inv, TypeInv
<1>3. y \in Crossing /\ Owes(y) /\ y.again = x.again
  <2>1. /\ x \in [asked : Nat, released : BOOLEAN, again : BOOLEAN]
        /\ ~ x.again => x.asked <= 1
    BY <1>1, <1>2 DEF Crossing
  <2>2. x.asked > 0
    BY <1>1
  <2>3. x.asked - 1 \in Nat /\ (~ x.again => x.asked - 1 = 0)
    BY <2>1, <2>2
  <2>4. /\ y \in [asked : Nat, released : BOOLEAN, again : BOOLEAN]
        /\ y.asked = x.asked - 1 /\ y.released = TRUE /\ y.again = x.again
    BY <2>1, <2>3, CrossingFields
  <2> HIDE DEF x, y
  <2> QED
    BY <2>1, <2>3, <2>4 DEF Crossing, Owes
<1> HIDE DEF y
<1>4. /\ crossing' \in [Players -> Crossing] /\ crossing'[p] = y
      /\ \A q \in Players \ {p} : crossing'[q] = crossing[q]
  BY <1>1, <1>2, <1>3
<1> QED
  BY <1>1, <1>3, <1>4, LeaveKeeps

\* The zone notices that a connection is closed.
LEMMA NoticeKeeps ==
    ASSUME Inv, NEW p \in Players, Notice(p)
    PROVE  Inv'
<1>1. /\ p \in hangups /\ hangups' = hangups \ {p}
      /\ IF IsHere(p) THEN Leave(p)
         ELSE UNCHANGED <<players, saved, companion, spawns, fights, mapped, transfers, wire>>
      /\ UNCHANGED <<client, crossing, timeouts, acts>>
  BY DEF Notice, HandleClientDisconnect
<1>2. crossing \in [Players -> Crossing]
  BY DEF Inv, TypeInv
<1>3. CASE IsHere(p)
  BY <1>1, <1>2, <1>3, LeaveKeeps
<1>4. CASE ~ IsHere(p)
  <2>1. /\ ServerInv /\ Connection(p) /\ Combat(p) /\ Follows(p)
        /\ client \in [Players -> Clients]
    BY InvServer DEF Inv
  <2>2. UNCHANGED <<players, saved, companion, spawns, fights, mapped, transfers, wire>>
    BY <1>1, <1>4
  <2>3. ServerInv'
    BY <1>1, <2>1, <2>2 DEF ServerInv
  <2>4. Others(p)
    <3>1. ZoneStill
      BY <2>2 DEF ZoneStill, StillTrue
    <3>2. \A q \in Players \ {p} : q \in hangups' <=> q \in hangups
      BY <1>1
    <3> QED
      BY <2>1, <2>2, <3>1, <3>2, QuietSpares DEF Others
  <2>5. ~ IsHere(p)' /\ ~ Reachable(players, p)'
    BY <1>4, <2>2 DEF IsHere, Reachable
  <2>6. Connection(p)'
    BY <1>1, <2>1, <2>2, <2>5 DEF Connection
  <2>7. Combat(p)'
    BY <1>1, <2>1, <2>2 DEF Combat
  <2>8. Follows(p)'
    <3>1. IsHere(p)' <=> IsHere(p)
      BY <1>4, <2>5
    <3>2. timeouts' = 0 =>
              Expecting(wire'[p], client'[p], p \in transfers', crossing'[p], IsHere(p)')
      BY <1>1, <2>1, <2>2, <3>1 DEF Follows, Expecting, Waiting
    <3>3. Ordered(p, wire'[p], client'[p].phase)
      BY <1>1, <2>1, <2>2 DEF Follows
    <3> QED
      BY <2>5, <3>2, <3>3 DEF Follows
  <2>9. /\ acts' \in 0 .. MaxActs /\ timeouts' \in 0 .. acts' /\ timeouts' = timeouts
        /\ crossing' \in [Players -> Crossing] /\ crossing' = crossing
    BY <1>1 DEF Inv, TypeInv
  <2> QED
    BY <1>1, <2>1, <2>3, <2>4, <2>6, <2>7, <2>8, <2>9, OneStep
<1> QED
  BY <1>3, <1>4

\* A step after which everybody is where he was, and nobody's client has done anything.
LEMMA NobodyKeeps ==
    ASSUME Inv, ServerInv', \A q \in Players : Spared(q),
           UNCHANGED <<client, crossing, timeouts, acts>>
    PROVE  Inv'
<1>1. TypeInv'
  BY DEF TypeInv, ServerInv, Wires, Inv
<1>2. ASSUME NEW q \in Players PROVE Connection(q)' /\ Combat(q)' /\ Follows(q)'
  <2>1. ServerInv /\ client[q] \in Clients /\ Connection(q) /\ Combat(q) /\ Follows(q)
    BY InvServer DEF Inv
  <2> QED
    BY <2>1, SparedFollows
<1> QED
  BY <1>1, <1>2 DEF Inv

\* respawnAtUnix passes: the spawn is still out of sight.
LEMMA RespawnDueKeeps ==
    ASSUME Inv, NEW s \in Spawns, RespawnDue(s)
    PROVE  Inv'
<1>1. /\ spawns[s] = "dead" /\ spawns' = [spawns EXCEPT ![s] = "due"]
      /\ UNCHANGED <<players, saved, companion, fights, mapped, transfers, hangups, wire>>
      /\ UNCHANGED <<client, crossing, timeouts, acts>>
  BY DEF RespawnDue, RespawnTime
<1>2. ServerInv
  BY InvServer
<1>3. spawns' \in Mobs /\ \A r \in Spawns : spawns[r] = "active" => spawns'[r] = "active"
  BY <1>1, <1>2 DEF ServerInv, Mobs
<1>4. ServerInv'
  BY <1>1, <1>2, <1>3 DEF ServerInv
<1>5. ZoneStill
  BY <1>1, <1>3 DEF ZoneStill, StillTrue
<1>6. \A q \in Players : Spared(q)
  BY <1>1, <1>2, <1>5, QuietSpares
<1> QED
  BY <1>1, <1>4, <1>6, NobodyKeeps

\* A step that is none.
LEMMA StutterKeeps ==
    ASSUME Inv, UNCHANGED vars
    PROVE  Inv'
<1>1. /\ UNCHANGED <<players, saved, companion, spawns, fights, mapped, transfers, hangups, wire>>
      /\ UNCHANGED <<client, crossing, timeouts, acts>>
  BY DEF vars, zone
<1>2. ServerInv
  BY InvServer
<1>3. ServerInv' /\ ZoneStill
  BY <1>1, <1>2 DEF ServerInv, ZoneStill, StillTrue
<1>4. \A q \in Players : Spared(q)
  BY <1>1, <1>2, <1>3, QuietSpares
<1> QED
  BY <1>1, <1>3, <1>4, NobodyKeeps

\* A client that waits to be told where to go is told, and waits for nothing else.
LEMMA ForwardAnswers ==
    ASSUME NEW queue \in Queues, NEW x \in Packets, x.kind = "ZoneConnectInfo",
           NEW call, NEW owing, NEW here, Waiting(queue, call, TRUE, owing, here),
           x.late => owing.again
    PROVE  Waiting(Append(queue, x), call, FALSE, owing, here)
<1>1. call \notin {None, "recalled"} /\ Open(queue, call)
      /\ call \in {"portal", "teleport", "teleported"}
  BY DEF Waiting
<1>2. Decides(call, x)
  BY <1>1 DEF Decides, Ends, Answers
<1>3. /\ DOMAIN queue = 1 .. Len(queue) /\ Len(queue) \in Nat
      /\ \A i \in DOMAIN queue : Append(queue, x)[i] = queue[i]
      /\ Append(queue, x)[Len(queue) + 1] = x
      /\ \A i : i \in AnswersIn(Append(queue, x)) <=>
                 i \in AnswersIn(queue) \/ (i = Len(queue) + 1 /\ x.kind \in AnswerKinds)
  BY AppendPlaces DEF AnswersIn
<1>4. "ZoneConnectInfo" \in AnswerKinds
  BY DEF AnswerKinds
<1>5. \A j \in AnswersIn(queue) :
          /\ j <= Len(queue) + 1 /\ j # Len(queue) + 1
          /\ ~ Append(queue, x)[j].late /\ ~ Decides(call, Append(queue, x)[j])
  <2>1. AnswersIn(queue) \subseteq 1 .. Len(queue)
    BY <1>3 DEF AnswersIn, Places
  <2>2. \A j \in AnswersIn(queue) : j <= Len(queue) + 1 /\ j # Len(queue) + 1
    BY <1>3, <2>1
  <2>3. \A j \in AnswersIn(queue) : Append(queue, x)[j] = queue[j]
    BY <1>3, <2>1
  <2> QED
    BY <1>1, <2>2, <2>3 DEF Open
<1>6. Closed(Append(queue, x), call, owing)
  <2> DEFINE k == Len(queue) + 1
             new == Append(queue, x)
  <2>1. k \in AnswersIn(new) /\ new[k] = x /\ k \in Nat
    BY <1>3, <1>4
  <2>2. \A j \in AnswersIn(new) : j = k \/ j \in AnswersIn(queue)
    BY <1>3
  <2>3. \A j \in AnswersIn(queue) :
            j <= k /\ j # k /\ ~ new[j].late /\ ~ Decides(call, new[j])
    BY <1>5
  <2> HIDE DEF k, new
  <2>4. \A j \in AnswersIn(new) :
            Timely(new[j], owing) /\ j <= k /\ (j < k => ~ Decides(call, new[j]))
    BY <2>1, <2>2, <2>3 DEF Timely
  <2>5. Closed(new, call, owing)
    BY <1>2, <2>1, <2>4 DEF Closed
  <2> QED
    BY <2>5 DEF new
<1> QED
  BY <1>1, <1>6 DEF Waiting

\* ZoneConnectForward: whoever is still being transferred is told how it ended.
LEMMA ForwardKeeps ==
    ASSUME Inv, NEW p \in Players, NEW ok \in BOOLEAN, NEW late \in BOOLEAN,
           HandleZoneConnectForward(p, ok, late), late => crossing[p].again,
           crossing' \in [Players -> Crossing],
           \A q \in Players \ {p} : crossing'[q] = crossing[q],
           crossing'[p].again = crossing[p].again, UNCHANGED <<client, timeouts, acts>>
    PROVE  Inv'
<1> DEFINE x == [Answer("ZoneConnectInfo", ok, 0) EXCEPT !.late = late]
<1>1. /\ transfers' = transfers \ {p}
      /\ wire' = IF p \in transfers THEN Replied(wire, p, x) ELSE wire
      /\ UNCHANGED <<players, saved, companion, spawns, fights, mapped, hangups>>
  BY DEF HandleZoneConnectForward
<1>2. /\ ServerInv /\ Connection(p) /\ Combat(p) /\ Follows(p)
      /\ client \in [Players -> Clients]
      /\ wire \in Wires /\ wire[p] \in Queues /\ 0 \in Tiles
  BY InvServer, TilesAssumption DEF Inv, ServerInv, Tiles
<1>3. /\ "ZoneConnectInfo" \in AnswerKinds /\ "ZoneConnectInfo" \notin Placing
      /\ "ZoneConnectInfo" \notin FightKinds
  BY DEF AnswerKinds, Placing, FightKinds
<1>4. x \in Packets /\ x.kind = "ZoneConnectInfo" /\ x.late = late
  BY <1>2, <1>3 DEF Answer, Packets, AnswerPackets
<1> HIDE DEF x
<1>5. /\ Replied(wire, p, x) \in Wires /\ Replied(wire, p, x)[p] = Append(wire[p], x)
      /\ \A q \in Players : q # p => Replied(wire, p, x)[q] = wire[q]
  BY <1>2, <1>4, RepliedAt
<1>6. /\ wire' \in Wires
      /\ \A q \in Players \ {p} : wire'[q] = wire[q]
      /\ wire'[p] = IF p \in transfers THEN Append(wire[p], x) ELSE wire[p]
  BY <1>1, <1>2, <1>5
<1>7. ServerInv'
  BY <1>1, <1>2, <1>6 DEF ServerInv
<1>8. Others(p)
  <2>1. ZoneStill
    BY <1>1 DEF ZoneStill, StillTrue
  <2>2. \A q \in Players \ {p} : q \in transfers' <=> q \in transfers
    BY <1>1
  <2> QED
    BY <1>1, <1>2, <1>6, <2>1, <2>2, QuietSpares DEF Others
<1>9. (IsHere(p)' <=> IsHere(p)) /\ (Reachable(players, p)' <=> Reachable(players, p))
  BY <1>1 DEF IsHere, Reachable
<1>10. p \in transfers => client[p].phase = "in"
  BY <1>2 DEF Connection
<1>11. Connection(p)'
  <2>1. client[p].phase \in Away => wire'[p] = <<>>
    BY <1>2, <1>6, <1>10 DEF Connection, Away
  <2>2. p \notin transfers'
    BY <1>1
  <2> QED
    BY <1>1, <1>2, <1>9, <2>1, <2>2 DEF Connection
<1>12. Combat(p)'
  BY <1>1, <1>2 DEF Combat
<1>13. timeouts' = 0 =>
           Expecting(wire'[p], client'[p], p \in transfers', crossing'[p], IsHere(p)')
  <2> SUFFICES ASSUME timeouts = 0
               PROVE  Expecting(wire'[p], client[p], FALSE, crossing'[p], IsHere(p))
    BY <1>1, <1>9 DEF Expecting, Waiting
  <2>1. Expecting(wire[p], client[p], p \in transfers, crossing[p], IsHere(p))
    BY <1>2 DEF Follows
  <2>2. CASE p \notin transfers
    <3>1. Expecting(wire'[p], client[p], FALSE, crossing[p], IsHere(p))
      BY <1>6, <2>1, <2>2 DEF Expecting, Waiting
    <3> QED
      BY <3>1, SameDebt
  <2>3. CASE p \in transfers
    <3>1. Waiting(wire[p], client[p].call, TRUE, crossing[p], IsHere(p))
      BY <1>10, <2>1, <2>3 DEF Expecting, Waiting
    <3>2. Waiting(Append(wire[p], x), client[p].call, FALSE, crossing[p], IsHere(p))
      BY <1>2, <1>4, <3>1, ForwardAnswers
    <3>3. Waiting(wire'[p], client[p].call, FALSE, crossing[p], IsHere(p))
      BY <1>6, <2>3, <3>2
    <3>4. Expecting(wire'[p], client[p], FALSE, crossing[p], IsHere(p))
      BY <1>10, <2>3, <3>3 DEF Expecting
    <3> QED
      BY <3>4, SameDebt
  <2> QED
    BY <2>2, <2>3
<1>14. x.kind # "EntitySnapshot" /\ x.kind # "ZoneTileGrid"
       /\ x.kind \notin FightKinds /\ x.kind \notin Placing
  BY <1>3, <1>4
<1>15. Ordered(p, wire'[p], client'[p].phase)
  BY <1>2, <1>4, <1>6, <1>14, ShownAppend DEF Follows
<1>16. ASSUME Reachable(players, p)
       PROVE  /\ Told(wire'[p], client[p], players[p].inCombat)
              /\ Picture(wire'[p], client[p], players, companion, spawns)
              /\ Place(p, wire'[p], client[p], players[p].tile)
  <2>1. /\ Told(wire[p], client[p], players[p].inCombat)
        /\ Picture(wire[p], client[p], players, companion, spawns)
        /\ Place(p, wire[p], client[p], players[p].tile)
    BY <1>2, <1>16 DEF Follows
  <2>2. Told(Append(wire[p], x), client[p], players[p].inCombat)
    BY <1>2, <1>4, <1>14, <2>1, ToldAppend
  <2>3. /\ Picture(Append(wire[p], x), client[p], players, companion, spawns)
        /\ Place(p, Append(wire[p], x), client[p], players[p].tile)
    BY <1>2, <1>4, <1>14, <2>1, ShownAppend
  <2> QED
    BY <1>6, <2>1, <2>2, <2>3
<1>17. Follows(p)'
  BY <1>1, <1>9, <1>13, <1>15, <1>16 DEF Follows
<1>18. /\ acts' \in 0 .. MaxActs /\ timeouts' \in 0 .. acts' /\ timeouts' = timeouts
  BY DEF Inv, TypeInv
<1> QED
  BY <1>2, <1>7, <1>8, <1>11, <1>12, <1>17, <1>18, OneStep

\* WorldLogin answers one of the requests of a player.
LEMMA AnsweredKeeps ==
    ASSUME Inv, NEW p \in Players, Refused(p) \/ Forwarded(p)
    PROVE  Inv'
<1> DEFINE x == crossing[p]
<1>1. crossing \in [Players -> Crossing] /\ x \in Crossing
  BY DEF Inv, TypeInv
<1>2. /\ x.asked \in Nat /\ x.released \in BOOLEAN /\ x.again \in BOOLEAN
      /\ ~ x.again => x.asked + (IF x.released THEN 1 ELSE 0) <= 1
  BY <1>1 DEF Crossing
<1>3. CASE Refused(p)
  <2> DEFINE y == [x EXCEPT !.asked = @ - 1]
  <2>1. /\ x.asked > 0 /\ crossing' = [crossing EXCEPT ![p] = y]
        /\ UNCHANGED <<client, timeouts, acts>>
    BY <1>3 DEF Refused
  <2>2. PICK late \in {FALSE, x.asked > 1} : HandleZoneConnectForward(p, FALSE, late)
    BY <1>3 DEF Refused
  <2>3. y \in Crossing /\ y.again = x.again
    BY <1>1, <2>1 DEF Crossing
  <2> HIDE DEF y
  <2>4. late \in BOOLEAN /\ (late => x.again)
    <3>1. CASE late = FALSE
      BY <3>1
    <3>2. CASE late = (x.asked > 1)
      <4>1. x.asked > 1 => x.again
        BY <1>2, <2>1
      <4>2. late \in BOOLEAN
        BY <3>2
      <4>3. late => x.again
        BY <3>2, <4>1, Zenon
      <4> QED
        BY <4>2, <4>3
    <3> QED
      BY <2>2, <3>1, <3>2
  <2>5. /\ crossing' \in [Players -> Crossing] /\ crossing'[p] = y
        /\ \A q \in Players \ {p} : crossing'[q] = crossing[q]
    BY <1>1, <2>1, <2>3
  <2> QED
    BY <2>1, <2>2, <2>3, <2>4, <2>5, ForwardKeeps
<1>4. CASE Forwarded(p)
  <2> DEFINE y == [x EXCEPT !.released = FALSE]
  <2>1. /\ x.released /\ crossing' = [crossing EXCEPT ![p] = y]
        /\ UNCHANGED <<client, timeouts, acts>>
    BY <1>4 DEF Forwarded
  <2>2. PICK late \in {FALSE, x.asked > 0} : HandleZoneConnectForward(p, TRUE, late)
    BY <1>4 DEF Forwarded
  <2>3. y \in Crossing /\ y.again = x.again
    <3>1. /\ x \in [asked : Nat, released : BOOLEAN, again : BOOLEAN]
          /\ ~ x.again => x.asked <= 1
      BY <1>1, <1>2 DEF Crossing
    <3>2. /\ y \in [asked : Nat, released : BOOLEAN, again : BOOLEAN]
          /\ y.asked = x.asked /\ y.released = FALSE /\ y.again = x.again
      BY <3>1, CrossingFields
    <3> HIDE DEF x, y
    <3> QED
      BY <3>1, <3>2 DEF Crossing
  <2> HIDE DEF y
  <2>4. late \in BOOLEAN /\ (late => x.again)
    <3>1. CASE late = FALSE
      BY <3>1
    <3>2. CASE late = (x.asked > 0)
      <4>1. x.asked > 0 => x.again
        BY <1>2, <2>1
      <4>2. late \in BOOLEAN
        BY <3>2
      <4>3. late => x.again
        BY <3>2, <4>1, Zenon
      <4> QED
        BY <4>2, <4>3
    <3> QED
      BY <2>2, <3>1, <3>2
  <2>5. /\ crossing' \in [Players -> Crossing] /\ crossing'[p] = y
        /\ \A q \in Players \ {p} : crossing'[q] = crossing[q]
    BY <1>1, <2>1, <2>3
  <2> QED
    BY <2>1, <2>2, <2>3, <2>4, <2>5, ForwardKeeps
<1> QED
  BY <1>3, <1>4

\* Two requests that become one leave one to be answered.
LEMMA MergedKeeps ==
    ASSUME Inv, NEW p \in Players, Merged(p)
    PROVE  Inv'
<1> DEFINE x == crossing[p]
           y == [x EXCEPT !.asked = @ - 1]
<1>1. /\ x.asked > 1 /\ crossing' = [crossing EXCEPT ![p] = y]
      /\ UNCHANGED <<players, saved, companion, spawns, fights, mapped, transfers, hangups>>
      /\ UNCHANGED <<wire, client, timeouts, acts>>
  BY DEF Merged, zone
<1>2. crossing \in [Players -> Crossing] /\ x \in Crossing
  BY DEF Inv, TypeInv
<1>3. y \in Crossing /\ Owes(y) /\ y.again = x.again
  BY <1>1, <1>2 DEF Crossing, Owes
<1> HIDE DEF y
<1>4. /\ crossing' \in [Players -> Crossing] /\ crossing'[p] = y
      /\ \A q \in Players \ {p} : crossing'[q] = crossing[q]
  BY <1>1, <1>2, <1>3
<1>5. ServerInv /\ Connection(p) /\ Combat(p) /\ Follows(p) /\ client \in [Players -> Clients]
  BY InvServer DEF Inv
<1>6. ServerInv' /\ ZoneStill
  BY <1>1, <1>5 DEF ServerInv, ZoneStill, StillTrue
<1>7. Others(p)
  BY <1>1, <1>5, <1>6, QuietSpares DEF Others
<1>8. /\ IsHere(p)' <=> IsHere(p)
      /\ Reachable(players, p)' <=> Reachable(players, p)
  BY <1>1 DEF IsHere, Reachable
<1>9. Connection(p)' /\ Combat(p)'
  BY <1>1, <1>5, <1>8 DEF Connection, Combat
<1>10. Follows(p)'
  <2>1. timeouts = 0 => Expecting(wire[p], client[p], p \in transfers, crossing[p], IsHere(p))
    BY <1>5 DEF Follows
  <2>2. timeouts = 0 => Expecting(wire[p], client[p], p \in transfers, y, IsHere(p))
    BY <1>3, <2>1, SameDebt
  <2>3. timeouts' = 0 =>
            Expecting(wire'[p], client'[p], p \in transfers', crossing'[p], IsHere(p)')
    BY <1>1, <1>4, <1>8, <2>2 DEF Expecting, Waiting
  <2> QED
    BY <1>1, <1>5, <1>8, <2>3 DEF Follows
<1>11. acts' \in 0 .. MaxActs /\ timeouts' \in 0 .. acts' /\ timeouts' = timeouts
  BY <1>1 DEF Inv, TypeInv
<1> QED
  BY <1>1, <1>4, <1>5, <1>6, <1>7, <1>9, <1>10, <1>11, OneStep

\* A fight ends by the hand of another player, or of time.
LEMMA FightOverKeeps ==
    ASSUME Inv, NEW p \in Players, FightOver(p)
    PROVE  Inv'
<1> DEFINE x == [kind |-> "CombatEnd"]
           after == IF players[p] = None THEN players ELSE Fighting(players, p, FALSE)
<1>1. /\ fights[p] > 0
      /\ fights' = [fights EXCEPT ![p] = @ - 1]
      /\ mapped' = mapped \ {p}
      /\ players' = after
      /\ wire' = Send(wire, players, p, x)
      /\ UNCHANGED <<saved, companion, spawns, transfers, hangups>>
      /\ UNCHANGED <<client, crossing, timeouts, acts>>
  BY DEF FightOver, FightEnds, EndFight, Fighting
<1>2. /\ ServerInv /\ Connection(p) /\ Combat(p) /\ Follows(p)
      /\ players \in Insides /\ companion \in Pets /\ spawns \in Mobs
      /\ client \in [Players -> Clients] /\ client[p] \in Clients
      /\ wire \in Wires /\ wire[p] \in Queues
  BY InvServer DEF Inv, ServerInv
<1>3. x \in Packets /\ x.kind = "CombatEnd"
  BY PushTyped
<1> HIDE DEF x
<1>4. /\ after \in Insides
      /\ after[p] = None <=> players[p] = None
      /\ players[p] # None => /\ after[p].connected = players[p].connected
                              /\ after[p].inCombat = FALSE
                              /\ after = Fighting(players, p, FALSE)
      /\ \A q \in Players \ {p} : after[q] = players[q]
      /\ StillTrue(players, companion, spawns, after, companion, spawns)
  <2>1. CASE players[p] = None
    <3>1. after = players
      BY <2>1
    <3>2. StillTrue(players, companion, spawns, players, companion, spawns)
      BY DEF StillTrue
    <3> HIDE DEF after
    <3> QED
      BY <1>2, <2>1, <3>1, <3>2
  <2>2. CASE players[p] # None
    <3>1. after = Fighting(players, p, FALSE)
      BY <2>2
    <3> DEFINE apart == Fighting(players, p, FALSE)
    <3>2. /\ apart \in Insides /\ apart[p] # None
          /\ apart[p].connected = players[p].connected
          /\ apart[p].inCombat = FALSE
          /\ \A q \in Players \ {p} : apart[q] = players[q]
          /\ \A pets, mobs : StillTrue(players, pets, mobs, apart, pets, mobs)
      BY <1>2, <2>2, FightingTyped
    <3>3. StillTrue(players, companion, spawns, apart, companion, spawns)
      BY <3>2
    <3>4. after = apart
      BY <3>1
    <3> HIDE DEF after, apart
    <3>5. after = Fighting(players, p, FALSE)
      BY <3>1
    <3> QED
      BY <2>2, <3>2, <3>3, <3>4, <3>5
  <2> QED
    BY <2>1, <2>2
<1> HIDE DEF after
<1>5. /\ wire' \in Wires
      /\ \A q \in Players \ {p} : wire'[q] = wire[q]
      /\ wire'[p] = IF Reachable(players, p) THEN Post(wire[p], x) ELSE wire[p]
  BY <1>1, <1>2, <1>3, SendAt
<1>6. ServerInv'
  <2>1. fights' \in [Players -> 0 .. MaxFights]
    BY <1>1, <1>2, RadiiAssumption DEF ServerInv
  <2>2. mapped' \in SUBSET Players /\ \A q \in mapped' : fights'[q] > 0
    BY <1>1, <1>2, RadiiAssumption DEF ServerInv
  <2> QED
    BY <1>1, <1>2, <1>4, <1>5, <2>1, <2>2 DEF ServerInv
<1>7. Others(p)
  <2>1. ZoneStill
    BY <1>1, <1>4 DEF ZoneStill
  <2>2. \A q \in Players \ {p} : (q \in mapped' <=> q \in mapped) /\ players'[q] = players[q]
    BY <1>1, <1>4
  <2> QED
    BY <1>1, <1>2, <1>5, <2>1, <2>2, QuietSpares DEF Others
<1>8. (IsHere(p)' <=> IsHere(p)) /\ (Reachable(players, p)' <=> Reachable(players, p))
  BY <1>1, <1>4 DEF IsHere, Reachable
<1>9. Connection(p)'
  <2>1. client[p].phase \in Away => ~ Reachable(players, p)
    BY <1>2 DEF Connection, IsHere, Reachable
  <2>2. client[p].phase \in Away => wire'[p] = wire[p]
    BY <1>5, <2>1
  <2> QED
    BY <1>1, <1>2, <1>8, <2>2 DEF Connection
<1>10. Combat(p)'
  BY <1>1, <1>4 DEF Combat
<1>11. CASE ~ Reachable(players, p)
  <2>1. wire'[p] = wire[p]
    BY <1>5, <1>11
  <2>2. timeouts' = 0 =>
            Expecting(wire'[p], client'[p], p \in transfers', crossing'[p], IsHere(p)')
    BY <1>1, <1>2, <1>8, <2>1 DEF Follows, Expecting, Waiting
  <2>3. Follows(p)'
    BY <1>1, <1>2, <1>8, <1>11, <2>1, <2>2 DEF Follows
  <2>4. acts' \in 0 .. MaxActs /\ timeouts' \in 0 .. acts'
        /\ crossing' \in [Players -> Crossing]
    BY <1>1 DEF Inv, TypeInv
  <2> QED
    BY <1>1, <1>2, <1>6, <1>7, <1>9, <1>10, <2>3, <2>4, OneStep
<1>12. CASE Reachable(players, p)
  <2>1. x.kind # "EntitySnapshot" /\ x.kind \notin AnswerKinds /\ x.kind \in FightKinds
        /\ (FALSE <=> x.kind = "CombatStart")
    BY <1>3 DEF AnswerKinds, FightKinds
  <2>2. Post(wire[p], x) = Append(wire[p], x) /\ Append(wire[p], x) \in Queues
    BY <1>2, <1>3, <2>1, PostCases, AppendPlaces
  <2>3. Ready(p, wire[p], players, companion, spawns)
    BY <1>2 DEF Ready, Screen, Follows
  <2>4. Ready(p, Post(wire[p], x), Fighting(players, p, FALSE), companion, spawns)
    BY <1>2, <1>3, <1>12, <2>1, <2>3, ReadyFight
  <2>5. wire'[p] = Append(wire[p], x) /\ players' = Fighting(players, p, FALSE)
    BY <1>1, <1>4, <1>5, <1>12, <2>2 DEF Reachable
  <2>6. Ready(p, wire'[p], players', companion', spawns')
    BY <1>1, <2>2, <2>4, <2>5
  <2>7. AnswersIn(wire'[p]) = AnswersIn(wire[p])
        /\ \A i \in AnswersIn(wire[p]) : wire'[p][i] = wire[p][i]
    <3>1. AnswersIn(Append(wire[p], x)) = AnswersIn(wire[p])
      BY <1>2, <1>3, <2>1, AnswerAppended
    <3>2. \A i \in DOMAIN wire[p] : Append(wire[p], x)[i] = wire[p][i]
      BY <1>2, <1>3, AppendPlaces
    <3> QED
      BY <2>5, <3>1, <3>2 DEF AnswersIn, Places
  <2>8. timeouts = 0 =>
            Expecting(wire'[p], client[p], p \in transfers, crossing[p], IsHere(p))
    BY <1>2, <2>7, SameAnswers DEF Follows
  <2>9. timeouts' = 0 =>
            Expecting(wire'[p], client'[p], p \in transfers', crossing'[p], IsHere(p)')
    BY <1>1, <1>8, <2>8 DEF Expecting, Waiting
  <2>10. Ordered(p, wire'[p], client'[p].phase)
    BY <1>1, <2>6 DEF Ready
  <2>11. Reachable(players, p)' =>
            /\ Told(wire'[p], client'[p], players'[p].inCombat)
            /\ Picture(wire'[p], client'[p], players', companion', spawns')
            /\ Place(p, wire'[p], client'[p], players'[p].tile)
    <3>1. Reachable(players, p)' => Reachable(players', p)
      BY <1>1 DEF Reachable
    <3> QED
      BY <1>1, <2>6, <3>1 DEF Ready, Screen
  <2>12. Follows(p)'
    BY <2>9, <2>10, <2>11 DEF Follows
  <2>13. acts' \in 0 .. MaxActs /\ timeouts' \in 0 .. acts'
         /\ crossing' \in [Players -> Crossing]
    BY <1>1 DEF Inv, TypeInv
  <2> QED
    BY <1>1, <1>2, <1>6, <1>7, <1>9, <1>10, <2>12, <2>13, OneStep
<1> QED
  BY <1>11, <1>12

-----------------------------------------------------------------------------
(* The invariant holds *)

\* The zone starts empty, and every client outside of it (ZoneServer::initialize).
LEMMA InitInv ==
    Init => Inv
<1> SUFFICES ASSUME Init PROVE Inv
  OBVIOUS
<1>1. /\ players = [p \in Players |-> None]
      /\ saved = [p \in Players |-> EntryTile]
      /\ companion = [p \in Players |-> None]
      /\ spawns = [s \in Spawns |-> "active"]
      /\ fights = [p \in Players |-> 0]
      /\ mapped = {} /\ transfers = {} /\ hangups = {}
      /\ wire = [p \in Players |-> <<>>]
      /\ client = [p \in Players |-> NoClient]
      /\ crossing = [p \in Players |-> NoCrossing]
      /\ timeouts = 0 /\ acts = 0
  BY DEF Init, InitServer
<1>2. NoClient \in Clients /\ <<>> \in Queues
  BY TilesAssumption DEF NoClient, Clients, Phases, Tiles, Queues
<1>3. EntryTile \in Street
  BY TilesAssumption DEF Street
<1>4. 0 \in 0 .. MaxFights /\ 0 \in 0 .. MaxActs /\ 0 \in 0 .. 0
  BY RadiiAssumption, BoundsAssumption
<1>5. TypeInv
  <2>1. NoCrossing \in Crossing
    BY DEF NoCrossing, Crossing
  <2> QED
    BY <1>1, <1>2, <1>3, <1>4, <2>1 DEF TypeInv, Insides, Pets, Mobs
<1>6. ASSUME NEW p \in Players PROVE Connection(p) /\ Combat(p) /\ Follows(p)
  <2>1. /\ players[p] = None /\ wire[p] = <<>> /\ client[p] = NoClient
        /\ p \notin transfers
    BY <1>1
  <2>2. /\ NoClient.phase = "out" /\ NoClient.call = None /\ NoClient.missed = {}
        /\ [NoClient EXCEPT !.phase = NoClient.phase] = NoClient
    BY DEF NoClient
  <2>3. ~ IsHere(p) /\ ~ Reachable(players, p)
    BY <2>1 DEF IsHere, Reachable
  <2>4. Connection(p)
    BY <2>1, <2>2, <2>3 DEF Connection, Away
  <2>5. Combat(p)
    BY <2>1 DEF Combat
  <2>6. Follows(p)
    <3>1. Ordered(p, wire[p], client[p].phase)
      BY <2>1, <2>2 DEF Ordered
    <3>2. Expecting(wire[p], client[p], p \in transfers, crossing[p], IsHere(p))
      BY <2>1, <2>2 DEF Expecting
    <3> QED
      BY <2>3, <3>1, <3>2 DEF Follows
  <2> QED
    BY <2>4, <2>5, <2>6
<1> QED
  BY <1>5, <1>6 DEF Inv

\* Every step of a player, of its client, of WorldLogin for it, and of the zone.
LEMMA NextKeeps ==
    Inv /\ [Next]_vars => Inv'
<1> SUFFICES ASSUME Inv, [Next]_vars PROVE Inv'
  OBVIOUS
<1>1. ASSUME NEW p \in Players, ComesIn(p) PROVE Inv'
  BY <1>1, EnterKeeps, ConnectKeeps, ResumingKeeps, DrainingKeeps, RequestZoneTilesKeeps,
     AwaitingTilesKeeps DEF ComesIn
<1>2. ASSUME NEW p \in Players, Quit(p) PROVE Inv'
  BY <1>2, HangUpKeeps DEF Quit
<1>3. ASSUME NEW p \in Players, Transfer(p) PROVE Inv'
  <2>1. CASE Released(p)
    BY <2>1, ReleasedKeeps
  <2>2. CASE Refused(p) \/ Forwarded(p)
    BY <2>2, AnsweredKeeps
  <2>3. CASE Merged(p)
    BY <2>3, MergedKeeps
  <2> QED
    BY <1>3, <2>1, <2>2, <2>3 DEF Transfer
<1>4. ASSUME NEW p \in Players,
             \/ LoginTimesOut(p) \/ Asks(p) \/ ReadAnswer(p) \/ TimeOut(p) \/ RecallEnds(p)
             \/ Poll(p) \/ Notice(p) \/ FightOver(p)
      PROVE  Inv'
  BY <1>4, LoginTimesOutKeeps, AsksKeeps, ReadAnswerKeeps, CallEnds, PollKeeps, NoticeKeeps,
     FightOverKeeps
<1>5. ASSUME NEW s \in Spawns, RespawnDue(s) PROVE Inv'
  BY <1>5, RespawnDueKeeps
<1>6. CASE UNCHANGED vars
  BY <1>6, StutterKeeps
<1>7. CASE Next
  BY <1>1, <1>2, <1>3, <1>4, <1>5, <1>7 DEF Next
<1> QED
  BY <1>6, <1>7

\* The invariant of every behaviour.
THEOREM Invariance == Spec => []Inv
  BY InitInv, NextKeeps, PTL DEF Spec

\* What the server and the clients keep has its type: nobody stands in a wall or off the
\* map, and a client that is not in the zone waits for no answer.
THEOREM TypeCorrect == Spec => []TypeOK
<1>1. ASSUME Inv PROVE TypeOK
  <2>1. TypeInv
    BY <1>1 DEF Inv
  <2>2. players \in [Players -> [tile : Tiles \ Walls, inCombat : BOOLEAN, connected : BOOLEAN]
                                    \cup {None}]
    BY <2>1 DEF TypeInv, Insides, Entities, Street
  <2>3. /\ saved \in [Players -> Tiles \ Walls]
        /\ companion \in [Players -> (Tiles \ Walls) \cup {None}]
        /\ spawns \in [Spawns -> {"active", "dead", "due"}]
        /\ fights \in [Players -> 0 .. MaxFights]
        /\ mapped \subseteq {p \in Players : fights[p] > 0}
        /\ transfers \subseteq Players /\ hangups \subseteq Players
        /\ crossing \in [Players -> Crossing]
        /\ acts \in 0 .. MaxActs /\ timeouts \in 0 .. acts
    BY <2>1 DEF TypeInv, Pets, Mobs, Street
  <2>4. ASSUME NEW p \in Players
        PROVE  /\ client[p].phase \in Phases
               /\ client[p].call \in DOMAIN Answers \cup {None}
               /\ client[p].tile \in Tiles
               /\ client[p].phase \in {"draining", "tiles", "in"} => client[p].tile \notin Walls
               /\ client[p].missed \subseteq {"snapshot", "fight"}
               /\ client[p].phase \in {"out", "admitted", "failed"} => client[p].call = None
    <3>1. client[p] \in Clients /\ Connection(p)
      BY <1>1, InvServer DEF Inv
    <3> QED
      BY <3>1 DEF Clients, Calling, Connection, Street
  <2> QED
    BY <2>2, <2>3, <2>4 DEF TypeOK
<1> QED
  BY <1>1, Invariance, PTL

\* A client that has nothing left to read is one that the zone reaches.
LEMMA SettledReads ==
    ASSUME Inv, NEW p \in Players, Settled(p)
    PROVE  /\ Told(<<>>, client[p], players[p].inCombat)
           /\ Picture(<<>>, client[p], players, companion, spawns)
           /\ Place(p, <<>>, client[p], players[p].tile)
           /\ Behind(client[p]) = client[p].view
           /\ \A kinds : Places(<<>>, kinds) = {}
<1>1. Reachable(players, p) /\ wire[p] = <<>> /\ client[p].queue = <<>> /\ Follows(p)
  BY DEF Settled, IsHere, Reachable, Inv
<1>2. \A kinds : Places(<<>>, kinds) = {}
  BY DEF Places
<1> QED
  BY <1>1, <1>2 DEF Follows, Behind

\* Once a client has read all it was sent, it shows its own player, the others, their
\* companions and the mobs where the zone has them, and nobody who has left, unless the
\* wait at a portal threw the last snapshot away.
THEOREM ShowsWhereTheyAreAlways == Spec => []ShowsWhereTheyAre
<1>1. ASSUME Inv PROVE ShowsWhereTheyAre
  <2> SUFFICES ASSUME NEW p \in Players, Settled(p), "snapshot" \notin client[p].missed
               PROVE  /\ client[p].tile = players[p].tile
                      /\ \A e \in client[p].view : True(e, players, companion, spawns)
    BY DEF ShowsWhereTheyAre, True
  <2>1. /\ Picture(<<>>, client[p], players, companion, spawns)
        /\ Place(p, <<>>, client[p], players[p].tile)
        /\ Behind(client[p]) = client[p].view
        /\ \A kinds : Places(<<>>, kinds) = {}
    BY <1>1, SettledReads
  <2>2. ShownIn(<<>>) = {} /\ OwnIn(p, <<>>) = {}
    BY <2>1 DEF ShownIn, OwnIn
  <2>3. Truthful(client[p].view, players, companion, spawns)
    BY <2>1, <2>2 DEF Picture
  <2>4. client[p].tile = players[p].tile
    BY <2>1, <2>2 DEF Place
  <2> QED
    BY <2>3, <2>4 DEF Truthful
<1> QED
  BY <1>1, Invariance, PTL

\* And its window of a fight is open if and only if the zone holds the player to be in one,
\* across fights that end in a later visit, relocations and late answers.
THEOREM WindowFollowsTheFightAlways == Spec => []WindowFollowsTheFight
<1>1. ASSUME Inv PROVE WindowFollowsTheFight
  <2> SUFFICES ASSUME NEW p \in Players, Settled(p), "fight" \notin client[p].missed
               PROVE  client[p].window = players[p].inCombat
    BY DEF WindowFollowsTheFight
  <2>1. /\ Told(<<>>, client[p], players[p].inCombat)
        /\ \A kinds : Places(<<>>, kinds) = {}
    BY <1>1, SettledReads
  <2> QED
    BY <2>1 DEF Told, FightsIn
<1> QED
  BY <1>1, Invariance, PTL

\* As long as no deadline has passed, whoever waits has the answer to its call on its way,
\* or WorldLogin still owes one that the zone will pass on, or talks on a connection that
\* has lost its player.
THEOREM AnAnswerIsOnItsWayAlways == Spec => []AnAnswerIsOnItsWay
<1>1. ASSUME Inv PROVE AnAnswerIsOnItsWay
  <2> SUFFICES ASSUME NEW p \in Players, client[p].call \notin {None, "recalled"}, timeouts = 0
               PROVE  \/ \E i \in DOMAIN wire[p] : Ends(client[p].call, wire[p][i])
                      \/ \E i \in DOMAIN wire[p] : /\ client[p].call = "recall"
                                                   /\ wire[p][i].kind = "DebugCommandResponse"
                      \/ p \in transfers /\ Owes(crossing[p])
                      \/ client[p].call = "talk" /\ ~ IsHere(p)
    BY DEF AnAnswerIsOnItsWay
  <2>1. Connection(p) /\ Follows(p)
    BY <1>1 DEF Inv
  <2>2. client[p].phase = "in"
    BY <2>1 DEF Connection
  <2>3. Waiting(wire[p], client[p].call, p \in transfers, crossing[p], IsHere(p))
    BY <2>1, <2>2 DEF Follows, Expecting
  <2>4. CASE Closed(wire[p], client[p].call, crossing[p])
    <3>1. \E i \in AnswersIn(wire[p]) : Decides(client[p].call, wire[p][i])
      BY <2>4 DEF Closed
    <3> QED
      BY <3>1 DEF Decides, AnswersIn, Places
  <2>5. CASE ~ Closed(wire[p], client[p].call, crossing[p])
    BY <2>3, <2>5 DEF Waiting
  <2> QED
    BY <2>4, <2>5
<1> QED
  BY <1>1, Invariance, PTL

\* As long as no deadline has passed, the packet that ends a call is an answer to that call
\* and not to an earlier one, though replies bear no number that a client would look at; but
\* who quits with a transfer unanswered, comes back and uses a portal again is told what
\* became of the first, and only that.
THEOREM AnswersAreTheirOwnAlways == Spec => AnswersAreTheirOwn
<1>1. ASSUME Inv, timeouts = 0, NEW p \in Players, EndsWithALateAnswer(p)
      PROVE  crossing[p].again /\ Head(wire[p]).kind = "ZoneConnectInfo"
  <2>0. /\ client[p].call # None /\ wire[p] # <<>> /\ IsAnswer(Head(wire[p]))
        /\ Head(wire[p]).late
    BY <1>1 DEF EndsWithALateAnswer
  <2>1. Connection(p) /\ Follows(p) /\ wire[p] \in Queues
    BY <1>1, InvServer DEF Inv
  <2>2. client[p].phase = "in"
    BY <2>0, <2>1 DEF Connection
  <2>3. Waiting(wire[p], client[p].call, p \in transfers, crossing[p], IsHere(p))
    BY <1>1, <2>1, <2>2 DEF Follows, Expecting
  <2>4. 1 \in AnswersIn(wire[p]) /\ wire[p][1] = Head(wire[p])
    BY <2>0, <2>1, TailAnswers, PacketKinds
  <2> QED
    BY <2>0, <2>3, <2>4 DEF Waiting, Closed, Open, Timely
<1>2. Inv => (timeouts = 0 =>
                 \A p \in Players : EndsWithALateAnswer(p) =>
                     crossing[p].again /\ Head(wire[p]).kind = "ZoneConnectInfo")
  BY <1>1
<1> QED
  BY <1>2, Invariance, PTL DEF AnswersAreTheirOwn
=============================================================================
