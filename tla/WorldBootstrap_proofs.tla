------------------------ MODULE WorldBootstrap_proofs ------------------------
(***************************************************************************)
(* Proofs about WorldBootstrap: for any zones with a server, any number    *)
(* of starts and kills and any interleaving of the statements, a server    *)
(* that comes up alone is never turned away by the database, and if all of *)
(* them come up one after the other, then what is served is whole and a    *)
(* complete world is kept.                                                 *)
(*                                                                         *)
(* The invariant says what a server knows when it is the only one to come  *)
(* up: what is in the tables at each of its statements.  It knows this     *)
(* only of the tables and not of its own doing, for a server that was      *)
(* killed may have left any prefix of the same statements behind.          *)
(***************************************************************************)
EXTENDS WorldBootstrap, FiniteSetTheorems, TLAPS

Asking == {"column", "alter", "has world", "zones", "links", "metadata", "stale world"}

Inserting == {"insert world", "insert zones", "insert links"}

Filled == {"load portals", "load npcs", "load spawns", "register"}

Loading == {"has content", "read metadata", "read links", "persist", "load tiles"} \cup Filled

PCs == Down \cup {"serving", "clear"} \cup Asking \cup Inserting \cup Loading

Memories ==
    [tiles : {None} \cup SUBSET LinkSet,
     portals : {<<>>} \cup UNION {[Outgoing(z) -> Nat] : z \in ZoneSet},
     spawns : Nat, npcSlots : Nat]

Processes ==
    [pc : PCs, at : Nat \ {0}, links : SUBSET LinkSet, memory : Memories, start : Nat,
     alone : BOOLEAN]

Data ==
    /\ zoneTypeColumn \in BOOLEAN
    /\ starts \in Nat
    /\ worlds \subseteq 0 .. starts
    /\ zones \in [ZoneSet -> worlds \cup {None}]
    /\ links \subseteq LinkSet
    /\ tiles \in [ZoneSet -> {None} \cup SUBSET LinkSet]
    /\ portals \in [LinkSet -> Nat]
    /\ spawns \in [ZoneSet -> Nat]
    /\ npcSlots \in [ZoneSet -> Nat]

TypeInv == Data /\ server \in [Servers -> Processes]

\* Nothing is left of a zone.
Empty(z) ==
    /\ tiles[z] = None /\ spawns[z] = 0 /\ npcSlots[z] = 0
    /\ \A l \in Outgoing(z) : portals[l] = 0

\* What the keys of the schema see to, whoever does what.
Keys ==
    /\ \A z \in ZoneSet : /\ zones[z] = None => Empty(z)
                          /\ tiles[z] # None => tiles[z] \subseteq Outgoing(z)
    /\ \A l \in links : zones[Link(l).from] # None /\ zones[Link(l).to] # None

\* What a server knows of itself.
Itself(p) ==
    /\ server[p].start \in 0 .. starts
    /\ p = Login => server[p].memory = Nothing /\ server[p].pc \notin Loading
    /\ p # Login /\ server[p].pc \in Filled \cup {"serving"} => server[p].memory.tiles # None
    /\ At(p, "clear") => server[p].at \in DOMAIN Cleared
    /\ At(p, "insert zones") => server[p].at \in DOMAIN Zones
    /\ At(p, "insert links") => server[p].at \in DOMAIN Links

WholeSkeleton == links = LinkSet /\ \A z \in ZoneSet : HasMetadata(z)

\* What a server that comes up alone knows of the database at each of its statements.
Progress(p) ==
    /\ At(p, "alter") => ~ zoneTypeColumn
    /\ At(p, "metadata") => links = LinkSet
    /\ At(p, "insert world") => links = {} /\ \A z \in ZoneSet : zones[z] = None
    /\ At(p, "insert zones") =>
        /\ WorldId(p) \in worlds
        /\ links = {}
        /\ \A i \in DOMAIN Zones :
               zones[Zones[i]] = IF i < server[p].at THEN WorldId(p) ELSE None
    /\ At(p, "insert links") =>
        /\ WorldId(p) \in worlds
        /\ \A z \in ZoneSet : zones[z] = WorldId(p)
        /\ links = {Links[i].id : i \in {j \in DOMAIN Links : j < server[p].at}}
    /\ server[p].pc \in Loading => WholeSkeleton
    /\ server[p].pc \in {"read metadata", "read links", "persist"} => tiles[p] = None
    /\ At(p, "persist") => server[p].links = Outgoing(p)
    /\ server[p].pc \in {"load tiles"} \cup Filled => tiles[p] # None

Alone(p) == server[p].alone /\ Booting(p)

Lone ==
    /\ \A p \in Servers : server[p].alone => server[p].pc # "failed"
    /\ \A p, q \in Servers : Alone(p) /\ p # q => ~ Booting(q)
    /\ \A p \in Servers : Alone(p) => Progress(p)

\* All of a zone is there, and once.
Full(z) ==
    /\ tiles[z] = Outgoing(z) /\ spawns[z] = 1 /\ npcSlots[z] = 1
    /\ \A l \in Outgoing(z) : portals[l] = 1

\* What of a full zone has been read.
Read(z, withPortals, withNpcs, withSpawns) ==
    [tiles |-> Outgoing(z),
     portals |-> IF withPortals THEN [l \in Outgoing(z) |-> 1] ELSE <<>>,
     spawns |-> IF withSpawns THEN 1 ELSE 0,
     npcSlots |-> IF withNpcs THEN 1 ELSE 0]

InMemory(p) ==
    /\ At(p, "load portals") => server[p].memory = Read(p, FALSE, FALSE, FALSE)
    /\ At(p, "load npcs") => server[p].memory = Read(p, TRUE, FALSE, FALSE)
    /\ At(p, "load spawns") => server[p].memory = Read(p, TRUE, TRUE, FALSE)
    /\ server[p].pc \in {"register", "serving"} => server[p].memory = Read(p, TRUE, TRUE, TRUE)

\* Whoever finds the skeleton complete finds each zone whole, or still to be made.
Sound == WholeSkeleton => \A z \in ZoneSet : Full(z) \/ Empty(z)

Mine(p) ==
    /\ server[p].pc \in {"stale world", "clear"} => ~ WholeSkeleton
    /\ server[p].pc \in Inserting => \A z \in ZoneSet : Empty(z)
    /\ p # Login => InMemory(p)

\* What holds as long as the servers come up one after the other.
Orderly ==
    /\ \A p \in Servers : Booting(p) => server[p].alone
    /\ Sound
    /\ \A p \in Servers : Mine(p)

OneByOne == ~ overlapped => Orderly

Inv ==
    /\ TypeInv
    /\ Keys
    /\ \A p \in Servers : Itself(p)
    /\ Lone
    /\ OneByOne
-----------------------------------------------------------------------------
(* The starter world *)

\* The zones of zone_templates.json and the links of link_templates.json, as sets: the list of
\* zones has each of them, a link of the list is found by its id, and it leads from a zone of
\* the world to a zone of the world (makeStarterSkeleton).
LEMMA World ==
    /\ DOMAIN Zones = 1 .. Len(Zones)
    /\ Len(Zones) \in Nat \ {0}
    /\ \A i \in DOMAIN Zones : Zones[i] \in ZoneSet
    /\ \A z \in ZoneSet : \E i \in DOMAIN Zones : Zones[i] = z
    /\ \A i, j \in DOMAIN Zones : Zones[i] = Zones[j] => i = j
<1> DEFINE L == Len(Zones)
<1>1. L = 3 /\ DOMAIN Zones = 1 .. 3
  BY DEF Zones
<1>2. \A i \in 1 .. 3 : i = 1 \/ i = 2 \/ i = 3
  OBVIOUS
<1>3. /\ Zones[1] = "starter_city"
      /\ Zones[2] = "starter_hunting"
      /\ Zones[3] = "starter_dungeon"
  BY DEF Zones
<1>4. \A i, j \in DOMAIN Zones : Zones[i] = Zones[j] => i = j
  BY <1>1, <1>2, <1>3
<1> QED
  BY <1>1, <1>4 DEF ZoneSet

LEMMA WorldLinks ==
    /\ DOMAIN Links = 1 .. Len(Links)
    /\ Len(Links) \in Nat \ {0}
    /\ \A i \in DOMAIN Links : Links[i].id \in LinkSet /\ Link(Links[i].id) = Links[i]
    /\ \A l \in LinkSet : \E i \in DOMAIN Links : Links[i].id = l
    /\ \A i, j \in DOMAIN Links : Links[i].id = Links[j].id => i = j
    /\ \A i \in DOMAIN Links : Links[i].from \in ZoneSet /\ Links[i].to \in ZoneSet
<1>1. Len(Links) = 4 /\ DOMAIN Links = 1 .. 4
  BY DEF Links
<1>2. \A i \in 1 .. 4 : i = 1 \/ i = 2 \/ i = 3 \/ i = 4
  OBVIOUS
<1>3. /\ Links[1].id = "city_to_hunting"
      /\ Links[2].id = "hunting_to_city"
      /\ Links[3].id = "hunting_to_dungeon"
      /\ Links[4].id = "dungeon_to_hunting"
  BY DEF Links
<1>4. \A i, j \in DOMAIN Links : Links[i].id = Links[j].id => i = j
  BY <1>1, <1>2, <1>3
<1>5. \A i \in DOMAIN Links : Links[i].id \in LinkSet
  BY DEF LinkSet
<1>6. \A l \in LinkSet : \E i \in DOMAIN Links : Links[i].id = l
  BY DEF LinkSet
<1>7. \A i \in DOMAIN Links : Link(Links[i].id) = Links[i]
  BY <1>4 DEF Link
<1>8. /\ "starter_city" \in ZoneSet /\ "starter_hunting" \in ZoneSet
      /\ "starter_dungeon" \in ZoneSet
  BY DEF ZoneSet, Zones
<1>9. \A i \in 1 .. 4 : Links[i].from \in ZoneSet /\ Links[i].to \in ZoneSet
  BY <1>2, <1>8 DEF Links
<1> QED
  BY <1>1, <1>4, <1>5, <1>6, <1>7, <1>9

\* Four links make up the world: whoever counts four has them all (zoneLinkCount).
LEMMA FourLinks ==
    /\ Cardinality(LinkSet) = 4
    /\ \A S \in SUBSET LinkSet : Cardinality(S) = 4 => S = LinkSet
<1>1. LinkSet = {"city_to_hunting", "hunting_to_city", "hunting_to_dungeon",
                 "dungeon_to_hunting"}
  <2>1. DOMAIN Links = 1 .. 4
    BY DEF Links
  <2>2. \A i \in 1 .. 4 : i = 1 \/ i = 2 \/ i = 3 \/ i = 4
    OBVIOUS
  <2>3. /\ Links[1].id = "city_to_hunting"
        /\ Links[2].id = "hunting_to_city"
        /\ Links[3].id = "hunting_to_dungeon"
        /\ Links[4].id = "dungeon_to_hunting"
    BY DEF Links
  <2> QED
    BY <2>1, <2>2, <2>3 DEF LinkSet
<1> DEFINE two == {"city_to_hunting", "hunting_to_city"}
           three == {"city_to_hunting", "hunting_to_city", "hunting_to_dungeon"}
<1>2. IsFiniteSet({}) /\ Cardinality({}) = 0
  BY FS_EmptySet
<1>3. IsFiniteSet({"city_to_hunting"}) /\ Cardinality({"city_to_hunting"}) = 1
  BY FS_Singleton
<1>4. two = {"city_to_hunting"} \cup {"hunting_to_city"}
      /\ "hunting_to_city" \notin {"city_to_hunting"}
  OBVIOUS
<1>5. IsFiniteSet(two) /\ Cardinality(two) = 2
  <2> HIDE DEF two
  <2> QED
    BY <1>3, <1>4, FS_AddElement
<1>6. three = two \cup {"hunting_to_dungeon"} /\ "hunting_to_dungeon" \notin two
  OBVIOUS
<1>7. IsFiniteSet(three) /\ Cardinality(three) = 3
  <2> HIDE DEF two, three
  <2> QED
    BY <1>5, <1>6, FS_AddElement
<1>8. LinkSet = three \cup {"dungeon_to_hunting"} /\ "dungeon_to_hunting" \notin three
  BY <1>1
<1>9. IsFiniteSet(LinkSet) /\ Cardinality(LinkSet) = 4
  <2> HIDE DEF two, three
  <2> QED
    BY <1>7, <1>8, FS_AddElement
<1>10. ASSUME NEW S \in SUBSET LinkSet, Cardinality(S) = 4
       PROVE  S = LinkSet
  BY <1>9, <1>10, FS_Subset
<1> QED
  BY <1>9, <1>10

\* The world is the last table that clearWorld empties.
LEMMA ClearedAtLast ==
    /\ DOMAIN Cleared = 1 .. Len(Cleared)
    /\ Len(Cleared) \in Nat \ {0}
    /\ Cleared[Len(Cleared)] = "worlds"
BY DEF Cleared

\* A zone is not WorldLogin, and None is none of the things it stands for.
LEMMA Names ==
    /\ Login \notin ZoneSet /\ None \notin Nat /\ None \notin SUBSET LinkSet
    /\ \A p \in Servers : p # Login => p \in ZoneSet
    /\ \A z \in ZoneSet : Outgoing(z) \in SUBSET LinkSet /\ Outgoing(z) # None
    /\ LinkSet # {} /\ ZoneSet # {}
    /\ \A y, z \in ZoneSet : \A l \in Outgoing(y) \cap Outgoing(z) : y = z
<1>1. /\ Login \notin ZoneSet /\ None \notin Nat /\ None \notin SUBSET LinkSet
      /\ \A p \in Servers : p # Login => p \in ZoneSet
  BY ServersAssumption DEF Servers
<1>2. \A z \in ZoneSet : Outgoing(z) \in SUBSET LinkSet
  BY DEF Outgoing
<1>3. LinkSet # {} /\ ZoneSet # {}
  BY World, WorldLinks
<1>4. \A y, z \in ZoneSet : \A l \in Outgoing(y) \cap Outgoing(z) : y = z
  BY DEF Outgoing
<1>5. \A z \in ZoneSet : Outgoing(z) # None
  BY <1>1, <1>2
<1> QED
  BY <1>1, <1>2, <1>3, <1>4, <1>5
-----------------------------------------------------------------------------
(* How a statement moves its server *)

Moved(p, pc, at, drawn, memory, start) ==
    /\ server' \in [Servers -> Processes]
    /\ \A q \in Servers : q # p => server'[q] = server[q]
    /\ server'[p].pc = pc /\ server'[p].at = at /\ server'[p].links = drawn
    /\ server'[p].memory = memory /\ server'[p].start = start
    /\ server'[p].alone = server[p].alone

\* A server that is set to a process of the right type leaves the others alone.
LEMMA Moving ==
    ASSUME TypeInv, NEW p \in Servers, NEW s \in Processes,
           s.alone = server[p].alone, server' = [server EXCEPT ![p] = s]
    PROVE  Moved(p, s.pc, s.at, s.links, s.memory, s.start)
<1>1. server \in [Servers -> Processes]
  BY DEF TypeInv
<1>2. server' \in [Servers -> Processes]
  BY <1>1
<1>3. server'[p] = s /\ \A q \in Servers : q # p => server'[q] = server[q]
  BY <1>1
<1> QED
  BY <1>2, <1>3 DEF Moved

LEMMA NothingTyped ==
    Nothing \in Memories
BY DEF Nothing, Memories

LEMMA ServerTyped ==
    ASSUME TypeInv, NEW p \in Servers
    PROVE  /\ server[p].pc \in PCs /\ server[p].at \in Nat \ {0}
           /\ server[p].links \in SUBSET LinkSet /\ server[p].memory \in Memories
           /\ server[p].start \in Nat /\ server[p].alone \in BOOLEAN
<1>1. server[p] \in Processes
  BY DEF TypeInv
<1> QED
  BY <1>1 DEF Processes

\* The next statement (the return of one function and the call of the next).
LEMMA Going ==
    ASSUME TypeInv, NEW p \in Servers, NEW pc \in PCs, Goto(p, pc)
    PROVE  Moved(p, pc, 1, server[p].links, server[p].memory, server[p].start)
<1> DEFINE s == [server[p] EXCEPT !.pc = pc, !.at = 1]
<1>1. server[p] \in Processes /\ server \in [Servers -> Processes]
  BY DEF TypeInv
<1>2. /\ s.pc = pc /\ s.at = 1 /\ s.links = server[p].links /\ s.memory = server[p].memory
      /\ s.start = server[p].start /\ s.alone = server[p].alone
  BY <1>1 DEF Processes
<1>3. s \in Processes
  <2> DEFINE t == [server[p] EXCEPT !.pc = pc]
  <2>1. t \in Processes
    BY <1>1 DEF Processes
  <2>2. 1 \in Nat \ {0} /\ s = [t EXCEPT !.at = 1]
    OBVIOUS
  <2> HIDE DEF t, s
  <2> QED
    BY <2>1, <2>2 DEF Processes
<1>4. server' = [server EXCEPT ![p] = s]
  BY <1>1 DEF Goto
<1> HIDE DEF s
<1> QED
  BY <1>2, <1>3, <1>4, Moving

\* The end of a process (an exception that main catches, an exit code of 1).
LEMMA Exiting ==
    ASSUME TypeInv, NEW p \in Servers, NEW pc \in PCs, Exit(p, pc)
    PROVE  Moved(p, pc, 1, {}, Nothing, 0)
<1> DEFINE s == Process(pc, 0, server[p].alone)
<1>1. /\ s.pc = pc /\ s.at = 1 /\ s.links = {} /\ s.memory = Nothing /\ s.start = 0
      /\ s.alone = server[p].alone
  BY DEF Process
<1>2. s \in Processes
  BY NothingTyped, ServerTyped DEF Process, Processes
<1>3. server' = [server EXCEPT ![p] = s]
  BY DEF Exit, TypeInv
<1> HIDE DEF s
<1> QED
  BY <1>1, <1>2, <1>3, Moving

\* The next round of a loop over tables, zones or links.
LEMMA Advancing ==
    ASSUME TypeInv, NEW p \in Servers, server' = [server EXCEPT ![p].at = @ + 1]
    PROVE  Moved(p, server[p].pc, server[p].at + 1, server[p].links, server[p].memory,
                 server[p].start)
<1> DEFINE s == [server[p] EXCEPT !.at = @ + 1]
<1>1. server[p] \in Processes /\ server \in [Servers -> Processes]
  BY DEF TypeInv
<1>2. /\ s.pc = server[p].pc /\ s.at = server[p].at + 1 /\ s.links = server[p].links
      /\ s.memory = server[p].memory /\ s.start = server[p].start
      /\ s.alone = server[p].alone
  BY <1>1 DEF Processes
<1>3. s \in Processes
  <2> DEFINE n == server[p].at + 1
  <2>1. n \in Nat \ {0} /\ s = [server[p] EXCEPT !.at = n]
    BY ServerTyped
  <2> HIDE DEF n
  <2> QED
    BY <1>1, <2>1 DEF Processes
<1>4. server' = [server EXCEPT ![p] = s]
  BY <1>1
<1> HIDE DEF s
<1> QED
  BY <1>2, <1>3, <1>4, Moving

\* A query whose rows are kept in memory.
LEMMA LoadingMoves ==
    ASSUME TypeInv, NEW p \in Servers, NEW pc \in PCs, NEW memory \in Memories,
           server' = [server EXCEPT ![p].pc = pc, ![p].memory = memory]
    PROVE  Moved(p, pc, server[p].at, server[p].links, memory, server[p].start)
<1> DEFINE s == [server[p] EXCEPT !.pc = pc, !.memory = memory]
<1>1. server[p] \in Processes /\ server \in [Servers -> Processes]
  BY DEF TypeInv
<1>2. /\ s.pc = pc /\ s.at = server[p].at /\ s.links = server[p].links /\ s.memory = memory
      /\ s.start = server[p].start /\ s.alone = server[p].alone
  BY <1>1 DEF Processes
<1>3. s \in Processes
  BY <1>1 DEF Processes
<1>4. server' = [server EXCEPT ![p] = s]
  BY <1>1
<1> HIDE DEF s
<1> QED
  BY <1>2, <1>3, <1>4, Moving

\* The links of the zone, as ReadLinks keeps them.
LEMMA LinksMove ==
    ASSUME TypeInv, NEW p \in Servers, NEW pc \in PCs, NEW drawn \in SUBSET LinkSet,
           server' = [server EXCEPT ![p].pc = pc, ![p].links = drawn]
    PROVE  Moved(p, pc, server[p].at, drawn, server[p].memory, server[p].start)
<1> DEFINE s == [server[p] EXCEPT !.pc = pc, !.links = drawn]
<1>1. server[p] \in Processes /\ server \in [Servers -> Processes]
  BY DEF TypeInv
<1>2. /\ s.pc = pc /\ s.at = server[p].at /\ s.links = drawn
      /\ s.memory = server[p].memory
      /\ s.start = server[p].start /\ s.alone = server[p].alone
  BY <1>1 DEF Processes
<1>3. s \in Processes
  BY <1>1 DEF Processes
<1>4. server' = [server EXCEPT ![p] = s]
  BY <1>1
<1> HIDE DEF s
<1> QED
  BY <1>2, <1>3, <1>4, Moving
-----------------------------------------------------------------------------
(* What a statement has to keep *)

LEMMA Stages ==
    /\ Down \cap (Asking \cup Inserting \cup Loading \cup {"clear", "serving"}) = {}
    /\ Asking \cap (Inserting \cup Loading \cup {"clear", "serving"}) = {}
    /\ Inserting \cap (Loading \cup {"clear", "serving"}) = {}
    /\ Loading \cap {"clear", "serving"} = {}
BY DEF Down, Asking, Inserting, Loading, Filled

\* A statement of a server keeps the invariant if it keeps the types and the keys, and
\* if, when the server came up alone, it leaves the database as the next statement
\* expects it: what the other servers know is then of no concern, for none of them is at
\* a statement of its own.
LEMMA StatementKeeps ==
    ASSUME Inv, NEW p \in Servers, Booting(p),
           NEW pc, NEW at, NEW drawn, NEW memory, NEW start,
           Moved(p, pc, at, drawn, memory, start),
           starts' = starts, overlapped' = overlapped,
           Data', Keys', Itself(p)',
           Alone(p) /\ Progress(p) => pc # "failed" /\ Progress(p)',
           Orderly /\ Alone(p) /\ Progress(p) => Sound' /\ Mine(p)'
    PROVE  Inv'
<1>1. TypeInv'
  BY DEF TypeInv, Moved
<1>2. \A q \in Servers : Itself(q)'
  <2>1. ASSUME NEW q \in Servers, q # p
        PROVE  Itself(q)'
    BY <2>1 DEF Moved, Inv, Itself, At
  <2> QED
    BY <2>1
<1>3. \A q \in Servers : Alone(p) /\ q # p => ~ Booting(q)
  BY DEF Inv, Lone
<1>4. \A q \in Servers : Alone(q) => q = p
  BY DEF Inv, Lone
<1>5. /\ server'[p].alone = server[p].alone /\ server'[p].pc = pc
      /\ \A q \in Servers : q # p => server'[q] = server[q]
  BY DEF Moved
<1>6. Lone'
  <2>1. ASSUME NEW q \in Servers, server'[q].alone
        PROVE  server'[q].pc # "failed"
    <3>1. CASE q = p
      BY <1>5, <2>1, <3>1 DEF Inv, Lone, Alone
    <3>2. CASE q # p
      BY <1>5, <2>1, <3>2 DEF Inv, Lone
    <3> QED
      BY <3>1, <3>2
  <2>2. ASSUME NEW q \in Servers, Alone(q)'
        PROVE  q = p /\ Alone(p)
    <3>1. CASE q = p
      BY <1>5, <2>2, <3>1 DEF Alone
    <3>2. CASE q # p
      BY <1>4, <1>5, <2>2, <3>2 DEF Alone, Booting
    <3> QED
      BY <3>1, <3>2
  <2>3. ASSUME NEW q \in Servers, NEW r \in Servers, Alone(q)', q # r
        PROVE  ~ Booting(r)'
    BY <1>3, <1>5, <2>2, <2>3 DEF Booting
  <2>4. ASSUME NEW q \in Servers, Alone(q)'
        PROVE  Progress(q)'
    BY <2>2, <2>4 DEF Inv, Lone
  <2> QED
    BY <2>1, <2>3, <2>4 DEF Lone
<1>7. OneByOne'
  <2> SUFFICES ASSUME ~ overlapped
               PROVE  Orderly'
    BY DEF OneByOne
  <2>1. Orderly /\ Alone(p) /\ Progress(p)
    BY DEF Inv, OneByOne, Orderly, Alone, Lone
  <2>2. Sound' /\ Mine(p)'
    BY <2>1
  <2>3. ASSUME NEW q \in Servers, Booting(q)'
        PROVE  server'[q].alone
    <3>1. CASE q = p
      BY <1>5, <2>1, <3>1 DEF Alone
    <3>2. CASE q # p
      BY <1>3, <1>5, <2>1, <2>3, <3>2 DEF Booting
    <3> QED
      BY <3>1, <3>2
  <2>4. ASSUME NEW q \in Servers, q # p
        PROVE  Mine(q)'
    <3>1. ~ Booting(q) /\ server'[q] = server[q] /\ Mine(q)
      BY <1>3, <1>5, <2>1, <2>4 DEF Orderly
    <3>2. server[q].pc \in Down \cup {"serving"}
      BY <3>1 DEF Booting
    <3>3. server'[q].pc \notin {"stale world", "clear"} \cup Inserting
      BY <3>1, <3>2 DEF Down, Inserting
    <3>4. q # Login => InMemory(q)'
      BY <3>1 DEF Mine, InMemory, At
    <3> QED
      BY <3>3, <3>4 DEF Mine
  <2> QED
    BY <2>2, <2>3, <2>4 DEF Orderly
<1> QED
  BY <1>1, <1>2, <1>6, <1>7 DEF Inv

Stays == UNCHANGED <<zoneTypeColumn, world, content, starts, kills, overlapped>>

\* What a query that changes nothing keeps by itself.
LEMMA QueryKeeps ==
    ASSUME Inv, NEW p \in Servers, Booting(p), Stays,
           NEW pc, NEW at, NEW drawn, NEW memory, NEW start,
           Moved(p, pc, at, drawn, memory, start),
           Itself(p)',
           Alone(p) /\ Progress(p) => pc # "failed" /\ Progress(p)',
           Orderly /\ Alone(p) /\ Progress(p) => Mine(p)'
    PROVE  Inv'
<1>1. /\ starts' = starts /\ overlapped' = overlapped
      /\ zoneTypeColumn' = zoneTypeColumn /\ worlds' = worlds /\ zones' = zones
      /\ links' = links /\ tiles' = tiles /\ portals' = portals /\ spawns' = spawns
      /\ npcSlots' = npcSlots
  BY DEF Stays, world, content
<1>2. Data'
  BY <1>1 DEF Inv, TypeInv, Data
<1>3. Keys'
  BY <1>1 DEF Inv, Keys, Empty
<1>4. Sound => Sound'
  BY <1>1 DEF Sound, WholeSkeleton, HasMetadata, Full, Empty
<1>5. Orderly => Sound
  BY DEF Orderly
<1> QED
  BY <1>1, <1>2, <1>3, <1>4, <1>5, StatementKeeps
-----------------------------------------------------------------------------
(* Statement by statement: the queries *)

LEMMA StaysSame ==
    ASSUME Stays
    PROVE  /\ zoneTypeColumn' = zoneTypeColumn /\ worlds' = worlds /\ zones' = zones
           /\ links' = links /\ tiles' = tiles /\ portals' = portals /\ spawns' = spawns
           /\ npcSlots' = npcSlots /\ starts' = starts
           /\ WholeSkeleton' = WholeSkeleton /\ overlapped' = overlapped
           /\ (\A z \in ZoneSet : Empty(z))' = (\A z \in ZoneSet : Empty(z))
BY DEF Stays, world, content, WholeSkeleton, HasMetadata, Empty

\* A zone of a world has a row.
LEMMA MetadataIsARow ==
    ASSUME TypeInv
    PROVE  /\ worlds \subseteq Nat
           /\ \A z \in ZoneSet : HasMetadata(z) => zones[z] # None
<1>1. worlds \subseteq Nat
  BY DEF TypeInv, Data
<1> QED
  BY <1>1, Names DEF HasMetadata

\* Whether the column of zones is there (columnExists).
LEMMA LookForColumnKeeps ==
    ASSUME Inv, NEW p \in Servers, LookForColumn(p)
    PROVE  Inv'
<1> DEFINE pc == IF zoneTypeColumn THEN "has world" ELSE "alter"
<1>1. Stays /\ At(p, "column") /\ Goto(p, pc)
  BY DEF LookForColumn, Stays, Same
<1>2. pc \in PCs /\ pc \in {"has world", "alter"} /\ (pc = "alter" => ~ zoneTypeColumn)
  BY DEF PCs, Asking
<1> HIDE DEF pc
<1>3. TypeInv /\ Itself(p)
  BY DEF Inv
<1>4. Moved(p, pc, 1, server[p].links, server[p].memory, server[p].start)
  BY <1>1, <1>2, <1>3, Going
<1>5. Booting(p)
  BY <1>1 DEF Booting, At, Down
<1>6. Itself(p)'
  BY <1>2, <1>3, <1>4, <1>1, StaysSame DEF Itself, Moved, At, Loading, Filled
<1>7. Progress(p)'
  <2>1. server'[p].pc = pc /\ zoneTypeColumn' = zoneTypeColumn
    BY <1>1, <1>4, StaysSame DEF Moved
  <2>2. At(p, "alter")' => ~ zoneTypeColumn'
    BY <1>2, <2>1 DEF At
  <2>3. server'[p].pc \in {"has world", "alter"}
    BY <1>2, <2>1
  <2> QED
    BY <2>2, <2>3 DEF Progress, At, Loading, Filled
<1>8. Mine(p)'
  BY <1>2, <1>4 DEF Mine, InMemory, Moved, At, Inserting
<1> QED
  BY <1>1, <1>2, <1>4, <1>5, <1>6, <1>7, <1>8, QueryKeeps

\* One of the queries of isWorldSkeletonComplete.
LEMMA LookForWorldKeeps ==
    ASSUME Inv, NEW p \in Servers, LookForWorld(p)
    PROVE  Inv'
<1> DEFINE query == server[p].pc
           pc == IF Complete(p, query) THEN NextQuery(p, query) ELSE "stale world"
<1>1. Stays /\ query \in {"has world", "zones", "links", "metadata"} /\ Goto(p, pc)
  BY DEF LookForWorld, Stays, Same
<1>2. pc \in {"zones", "links", "metadata", "stale world"} \cup {AfterTheWorld(p)}
  BY <1>1 DEF NextQuery
<1>3. AfterTheWorld(p) \in {"serving", "has content"}
  BY DEF AfterTheWorld
<1>4. pc = "metadata" => links = LinkSet
  <2>1. pc = "metadata" => query = "links" /\ Cardinality(links) = 4
    BY <1>1, <1>3 DEF NextQuery, Complete
  <2> QED
    BY <2>1, FourLinks DEF Inv, TypeInv, Data
<1>5. pc \in {"serving", "has content"} =>
          query = "metadata" /\ (\A z \in ZoneSet : HasMetadata(z)) /\ pc = AfterTheWorld(p)
  BY <1>1 DEF NextQuery, Complete
<1>6. pc = "stale world" => ~ WholeSkeleton \/ (query = "links" /\ links # LinkSet)
  <2>1. ASSUME WholeSkeleton, query = "has world"
        PROVE  Complete(p, query)
    <3>1. PICK z \in ZoneSet : TRUE
      BY Names
    <3>2. zones[z] \in worlds
      BY <2>1 DEF WholeSkeleton, HasMetadata
    <3> QED
      BY <2>1, <3>2 DEF Complete
  <2>2. ASSUME WholeSkeleton, query = "zones"
        PROVE  Complete(p, query)
    <3>1. \A z \in ZoneSet : zones[z] # None
      BY <2>2, MetadataIsARow DEF WholeSkeleton, Inv
    <3> QED
      BY <2>2, <3>1 DEF Complete
  <2>3. ASSUME WholeSkeleton, query = "links"
        PROVE  Complete(p, query)
    BY <2>3, FourLinks DEF WholeSkeleton, Complete
  <2>4. ASSUME WholeSkeleton, query = "metadata"
        PROVE  Complete(p, query)
    BY <2>4 DEF WholeSkeleton, Complete
  <2>5. ~ Complete(p, query) => ~ WholeSkeleton
    BY <1>1, <2>1, <2>2, <2>3, <2>4
  <2>6. NextQuery(p, query) # "stale world"
    BY <1>1, <1>3 DEF NextQuery
  <2> QED
    BY <2>5, <2>6
<1>7. pc = "stale world" => ~ WholeSkeleton
  BY <1>6 DEF WholeSkeleton
<1>8. pc \in PCs
  BY <1>2, <1>3 DEF PCs, Asking, Loading
<1> HIDE DEF pc
<1>9. TypeInv /\ Itself(p)
  BY DEF Inv
<1>10. Moved(p, pc, 1, server[p].links, server[p].memory, server[p].start)
  BY <1>1, <1>8, <1>9, Going
<1>11. Booting(p)
  BY <1>1 DEF Booting, Down
<1>12. pc \in {"zones", "links", "metadata", "stale world", "serving", "has content"}
  BY <1>2, <1>3
<1>13. p # Login <=> AfterTheWorld(p) = "has content"
  BY DEF AfterTheWorld
<1>14. Itself(p)'
  BY <1>5, <1>9, <1>10, <1>12, <1>13, <1>1, StaysSame DEF Itself, Moved, At, Loading, Filled
<1>15. ASSUME Progress(p)
       PROVE  Progress(p)'
  <2>1. pc = "has content" => WholeSkeleton
    BY <1>5, <1>15 DEF Progress, WholeSkeleton, At
  <2>2. server'[p].pc = pc /\ WholeSkeleton' = WholeSkeleton /\ links' = links
    BY <1>1, <1>10, StaysSame DEF Moved
  <2>3. At(p, "metadata")' => links' = LinkSet
    BY <1>4, <2>2 DEF At
  <2>4. (server[p].pc \in Loading)' => WholeSkeleton'
    BY <1>12, <2>1, <2>2 DEF Loading, Filled
  <2>5. server'[p].pc \in {"zones", "links", "metadata", "stale world", "serving",
                           "has content"}
    BY <1>12, <2>2
  <2> QED
    BY <2>3, <2>4, <2>5 DEF Progress, At, Filled
<1>16. Mine(p)'
  <2>1. server'[p].pc = pc /\ WholeSkeleton' = WholeSkeleton
    BY <1>1, <1>10, StaysSame DEF Moved
  <2>2. p # Login => pc # "serving"
    BY <1>5, <1>13
  <2>3. p # Login => InMemory(p)'
    BY <1>12, <2>1, <2>2 DEF InMemory, At
  <2>4. pc \notin Inserting /\ pc # "clear"
    BY <1>12 DEF Inserting
  <2> QED
    BY <1>7, <2>1, <2>3, <2>4 DEF Mine
<1>17. pc # "failed"
  BY <1>12
<1> QED
  BY <1>1, <1>10, <1>11, <1>14, <1>15, <1>16, <1>17, QueryKeeps

\* Whether an incomplete world is there.
LEMMA LookForStaleWorldKeeps ==
    ASSUME Inv, NEW p \in Servers, LookForStaleWorld(p)
    PROVE  Inv'
<1> DEFINE pc == StaleWorld(p)
<1>1. Stays /\ At(p, "stale world") /\ Goto(p, pc)
  BY DEF LookForStaleWorld, Stays, Same
<1>2. pc \in {"clear", "insert world"} /\ (pc = "insert world" => worlds = {})
  BY DEF StaleWorld
<1>3. pc \in PCs
  BY <1>2 DEF PCs, Inserting
<1> HIDE DEF pc
<1>4. TypeInv /\ Itself(p) /\ Keys
  BY DEF Inv
<1>5. worlds = {} => \A z \in ZoneSet : zones[z] = None
  BY <1>4 DEF TypeInv, Data
<1>6. worlds = {} => links = {} /\ \A z \in ZoneSet : Empty(z)
  <2>1. \A l \in LinkSet : Link(l).from \in ZoneSet
    BY WorldLinks
  <2> QED
    BY <1>4, <1>5, <2>1 DEF Keys, TypeInv, Data
<1>7. Moved(p, pc, 1, server[p].links, server[p].memory, server[p].start)
  BY <1>1, <1>3, <1>4, Going
<1>8. Booting(p)
  BY <1>1 DEF Booting, At, Down
<1>9. 1 \in DOMAIN Cleared
  BY ClearedAtLast
<1>10. Itself(p)'
  BY <1>1, <1>2, <1>4, <1>7, <1>9, StaysSame DEF Itself, Moved, At, Loading, Filled
<1>11. Progress(p)'
  <2>1. server'[p].pc = pc /\ links' = links /\ zones' = zones
    BY <1>1, <1>7, StaysSame DEF Moved
  <2>2. At(p, "insert world")' => links' = {} /\ \A z \in ZoneSet : zones'[z] = None
    BY <1>2, <1>5, <1>6, <2>1 DEF At
  <2>3. server'[p].pc \in {"clear", "insert world"}
    BY <1>2, <2>1
  <2> QED
    BY <2>2, <2>3 DEF Progress, At, Loading, Filled
<1>12. ASSUME Mine(p)
       PROVE  Mine(p)'
  <2>1. server'[p].pc = pc /\ WholeSkeleton' = WholeSkeleton
    BY <1>1, <1>7, StaysSame DEF Moved
  <2>2. InMemory(p)'
    BY <1>2, <2>1 DEF InMemory, At
  <2>3. ~ WholeSkeleton
    BY <1>1, <1>12 DEF Mine, At
  <2>4. pc = "insert world" => (\A z \in ZoneSet : Empty(z))'
    BY <1>1, <1>2, <1>6, StaysSame
  <2> QED
    BY <1>2, <2>1, <2>2, <2>3, <2>4 DEF Mine, Inserting
<1>13. Orderly => Mine(p)
  BY DEF Orderly
<1>14. pc # "failed"
  BY <1>2
<1> QED
  BY <1>1, <1>7, <1>8, <1>10, <1>11, <1>12, <1>13, <1>14, QueryKeeps
-----------------------------------------------------------------------------
(* Statement by statement: the skeleton *)

\* A server that the database turns away was not alone, or was not where it thought.
LEMMA FailKeeps ==
    ASSUME Inv, NEW p \in Servers, Booting(p), Stays, Fail(p), ~ (Alone(p) /\ Progress(p))
    PROVE  Inv'
<1>1. TypeInv /\ starts \in Nat
  BY DEF Inv, TypeInv, Data
<1>2. "failed" \in PCs
  BY DEF PCs, Down
<1>3. Moved(p, "failed", 1, {}, Nothing, 0)
  BY <1>1, <1>2, Exiting DEF Fail
<1>4. Itself(p)'
  <2>1. /\ server'[p].pc = "failed" /\ server'[p].memory = Nothing /\ server'[p].start = 0
        /\ starts' = starts
    BY <1>3, StaysSame DEF Moved
  <2>2. server'[p].start \in 0 .. starts'
    BY <1>1, <2>1
  <2>3. "failed" \notin Loading /\ "failed" \notin Filled \cup {"serving"}
    BY DEF Loading, Filled
  <2> QED
    BY <2>1, <2>2, <2>3 DEF Itself, At
<1> QED
  BY <1>3, <1>4, QueryKeeps

\* The column is added (ensureColumn).
LEMMA AlterTableKeeps ==
    ASSUME Inv, NEW p \in Servers, AlterTable(p)
    PROVE  Inv'
<1>1. /\ At(p, "alter") /\ Booting(p)
      /\ UNCHANGED <<world, content, starts, kills, overlapped>>
      /\ zoneTypeColumn' = TRUE
  BY DEF AlterTable, Same, Booting, At, Down
<1>2. TypeInv /\ Itself(p)
  BY DEF Inv
<1>3. CASE zoneTypeColumn
  <2>1. Stays
    BY <1>1, <1>2, <1>3 DEF Stays, TypeInv, Data
  <2>2. Fail(p)
    BY <1>3 DEF AlterTable
  <2>3. ~ Progress(p)
    BY <1>1, <1>3 DEF Progress
  <2> QED
    BY <1>1, <2>1, <2>2, <2>3, FailKeeps
<1>4. CASE ~ zoneTypeColumn
  <2>1. Goto(p, "has world") /\ "has world" \in PCs
    BY <1>4 DEF AlterTable, PCs, Asking
  <2>2. Moved(p, "has world", 1, server[p].links, server[p].memory, server[p].start)
    BY <1>2, <2>1, Going
  <2>3. /\ worlds' = worlds /\ zones' = zones /\ links' = links /\ tiles' = tiles
        /\ portals' = portals /\ spawns' = spawns /\ npcSlots' = npcSlots
        /\ starts' = starts /\ overlapped' = overlapped
    BY <1>1 DEF world, content
  <2>4. Data'
    BY <1>1, <1>2, <2>3 DEF TypeInv, Data
  <2>5. Keys'
    BY <2>3 DEF Inv, Keys, Empty
  <2>6. /\ server'[p].pc = "has world" /\ server'[p].start = server[p].start
        /\ server'[p].memory = server[p].memory
    BY <2>2 DEF Moved
  <2>7. Itself(p)'
    BY <1>2, <2>3, <2>6, <1>1 DEF Itself, At, Loading, Filled
  <2>8. Progress(p)'
    BY <2>6 DEF Progress, At, Loading, Filled
  <2>9. Mine(p)'
    BY <2>6 DEF Mine, InMemory, At, Inserting
  <2>10. Orderly => Sound'
    BY <2>3 DEF Orderly, Sound, WholeSkeleton, HasMetadata, Full, Empty
  <2> QED
    BY <1>1, <2>2, <2>3, <2>4, <2>5, <2>7, <2>8, <2>9, <2>10, StatementKeeps
<1> QED
  BY <1>3, <1>4

\* What a DELETE of clearWorld does, in terms of the database before it.
LEMMA ClearTableData ==
    ASSUME Inv, NEW p \in Servers, ClearTable(p)
    PROVE  /\ Data' /\ Keys'
           /\ ~ WholeSkeleton => ~ WholeSkeleton'
           /\ server[p].at = Len(Cleared) =>
                  links' = {} /\ \A z \in ZoneSet : zones'[z] = None /\ Empty(z)'
<1> DEFINE table == Cleared[server[p].at]
           Gone(t) == table \in {t, "zones", "worlds"}
<1>1. /\ worlds' = (IF table = "worlds" THEN {} ELSE worlds)
      /\ zones' = (IF table \in {"zones", "worlds"} THEN [z \in ZoneSet |-> None] ELSE zones)
      /\ links' = (IF Gone("zone_links") THEN {} ELSE links)
      /\ tiles' = (IF Gone("zone_tiles") THEN [z \in ZoneSet |-> None] ELSE tiles)
      /\ portals' = (IF Gone("zone_portals") THEN [l \in LinkSet |-> 0] ELSE portals)
      /\ spawns' = (IF Gone("zone_spawns") THEN [z \in ZoneSet |-> 0] ELSE spawns)
      /\ npcSlots' = (IF Gone("zone_npc_slots") THEN [z \in ZoneSet |-> 0] ELSE npcSlots)
      /\ zoneTypeColumn' = zoneTypeColumn /\ starts' = starts
  BY DEF ClearTable, Same
<1>2. TypeInv /\ Keys /\ Data
  BY DEF Inv, TypeInv
<1>3. server[p].at = Len(Cleared) => table = "worlds"
  BY ClearedAtLast
<1> HIDE DEF table
<1>4. Data'
  <2>1. worlds' \subseteq 0 .. starts' /\ links' \subseteq LinkSet
    BY <1>1, <1>2 DEF Data
  <2>2. zones' \in [ZoneSet -> worlds' \cup {None}]
    BY <1>1, <1>2 DEF Data
  <2>3. /\ tiles' \in [ZoneSet -> {None} \cup SUBSET LinkSet]
        /\ portals' \in [LinkSet -> Nat]
    BY <1>1, <1>2 DEF Data
  <2>4. spawns' \in [ZoneSet -> Nat] /\ npcSlots' \in [ZoneSet -> Nat]
    BY <1>1, <1>2 DEF Data
  <2>5. zoneTypeColumn' \in BOOLEAN /\ starts' \in Nat
    BY <1>1, <1>2 DEF Data
  <2> QED
    BY <2>1, <2>2, <2>3, <2>4, <2>5 DEF Data
<1>5. CASE table \in {"zones", "worlds"}
  <2>1. \A z \in ZoneSet : /\ zones'[z] = None /\ tiles'[z] = None
                           /\ spawns'[z] = 0 /\ npcSlots'[z] = 0
    BY <1>1, <1>5
  <2>2. \A l \in LinkSet : portals'[l] = 0
    BY <1>1, <1>5
  <2>3. \A z \in ZoneSet : Empty(z)'
    BY <2>1, <2>2, Names DEF Empty
  <2>4. links' = {}
    BY <1>1, <1>5
  <2>5. ~ WholeSkeleton'
    BY <2>4, Names DEF WholeSkeleton
  <2> QED
    BY <1>3, <1>4, <2>1, <2>3, <2>4, <2>5 DEF Keys
<1>6. CASE table \notin {"zones", "worlds"}
  <2>1. /\ worlds' = worlds /\ zones' = zones /\ (links' = links \/ links' = {})
        /\ tiles' = tiles \/ tiles' = [z \in ZoneSet |-> None]
        /\ portals' = portals \/ portals' = [l \in LinkSet |-> 0]
        /\ spawns' = spawns \/ spawns' = [z \in ZoneSet |-> 0]
        /\ npcSlots' = npcSlots \/ npcSlots' = [z \in ZoneSet |-> 0]
    BY <1>1, <1>6
  <2>2. ASSUME NEW z \in ZoneSet
        PROVE  /\ tiles'[z] = tiles[z] \/ tiles'[z] = None
               /\ spawns'[z] = spawns[z] \/ spawns'[z] = 0
               /\ npcSlots'[z] = npcSlots[z] \/ npcSlots'[z] = 0
    BY <2>1
  <2>3. ASSUME NEW l \in LinkSet
        PROVE  portals'[l] = portals[l] \/ portals'[l] = 0
    BY <2>1
  <2>4. ASSUME NEW z \in ZoneSet, zones'[z] = None
        PROVE  Empty(z)'
    <3>1. Empty(z)
      BY <1>2, <2>1, <2>4 DEF Keys
    <3> QED
      BY <2>2, <2>3, <3>1, Names DEF Empty
  <2>5. \A z \in ZoneSet : tiles'[z] # None => tiles'[z] \subseteq Outgoing(z)
    BY <1>2, <2>2 DEF Keys
  <2>6. \A l \in links' : zones'[Link(l).from] # None /\ zones'[Link(l).to] # None
    BY <1>2, <2>1 DEF Keys
  <2>7. ~ WholeSkeleton => ~ WholeSkeleton'
    BY <2>1, Names DEF WholeSkeleton, HasMetadata
  <2> QED
    BY <1>3, <1>4, <1>6, <2>4, <2>5, <2>6, <2>7 DEF Keys
<1> QED
  BY <1>5, <1>6

\* A table is emptied.
LEMMA ClearTableKeeps ==
    ASSUME Inv, NEW p \in Servers, ClearTable(p)
    PROVE  Inv'
<1>1. /\ At(p, "clear") /\ Booting(p) /\ starts' = starts /\ overlapped' = overlapped
  BY DEF ClearTable, Same, Booting, At, Down
<1>2. TypeInv /\ Itself(p)
  BY DEF Inv
<1>3. Orderly => ~ WholeSkeleton' /\ Sound'
  BY <1>1, ClearTableData DEF Orderly, Mine, At, Sound
<1>4. Data' /\ Keys'
  BY ClearTableData
<1>5. CASE server[p].at = Len(Cleared)
  <2>1. Goto(p, "insert world") /\ "insert world" \in PCs
    BY <1>5 DEF ClearTable, PCs, Inserting
  <2>2. Moved(p, "insert world", 1, server[p].links, server[p].memory, server[p].start)
    BY <1>2, <2>1, Going
  <2>3. /\ server'[p].pc = "insert world" /\ server'[p].start = server[p].start
        /\ server'[p].memory = server[p].memory
    BY <2>2 DEF Moved
  <2>4. Itself(p)'
    BY <1>1, <1>2, <2>3 DEF Itself, At, Loading, Filled
  <2>5. links' = {} /\ \A z \in ZoneSet : zones'[z] = None /\ Empty(z)'
    BY <1>5, ClearTableData
  <2>6. Progress(p)'
    BY <2>3, <2>5 DEF Progress, At, Loading, Filled
  <2>7. Mine(p)'
    BY <2>3, <2>5 DEF Mine, InMemory, At
  <2> QED
    BY <1>1, <1>3, <1>4, <2>2, <2>4, <2>6, <2>7, StatementKeeps
<1>6. CASE server[p].at # Len(Cleared)
  <2>1. server' = [server EXCEPT ![p].at = @ + 1]
    BY <1>6 DEF ClearTable
  <2>2. Moved(p, server[p].pc, server[p].at + 1, server[p].links, server[p].memory,
              server[p].start)
    BY <1>2, <2>1, Advancing
  <2>3. /\ server'[p].pc = "clear" /\ server'[p].start = server[p].start
        /\ server'[p].memory = server[p].memory /\ server'[p].at = server[p].at + 1
    BY <1>1, <2>2 DEF Moved, At
  <2>4. server[p].at + 1 \in DOMAIN Cleared
    <3>1. server[p].at \in DOMAIN Cleared
      BY <1>1, <1>2 DEF Itself
    <3> QED
      BY <1>6, <3>1, ClearedAtLast
  <2>5. Itself(p)'
    BY <1>1, <1>2, <2>3, <2>4 DEF Itself, At, Loading, Filled
  <2>6. Progress(p)'
    BY <2>3 DEF Progress, At, Loading, Filled
  <2>7. Orderly => Mine(p)'
    BY <1>3, <2>3 DEF Mine, InMemory, At, Inserting
  <2>8. server[p].pc # "failed"
    BY <1>1 DEF At
  <2> QED
    BY <1>1, <1>3, <1>4, <2>2, <2>5, <2>6, <2>7, <2>8, StatementKeeps
<1> QED
  BY <1>5, <1>6
-----------------------------------------------------------------------------
\* The row of the world is written.
LEMMA InsertWorldKeeps ==
    ASSUME Inv, NEW p \in Servers, InsertWorld(p)
    PROVE  Inv'
<1>1. /\ At(p, "insert world") /\ Booting(p)
      /\ starts' = starts /\ overlapped' = overlapped /\ zoneTypeColumn' = zoneTypeColumn
      /\ zones' = zones /\ links' = links /\ tiles' = tiles /\ portals' = portals
      /\ spawns' = spawns /\ npcSlots' = npcSlots
      /\ worlds' = worlds \cup {WorldId(p)} /\ Goto(p, "insert zones")
  BY GeneratorAssumption DEF InsertWorld, Same, Booting, At, Down, content
<1>2. TypeInv /\ Itself(p) /\ Data
  BY DEF Inv, TypeInv
<1>3. "insert zones" \in PCs
  BY DEF PCs, Inserting
<1>4. Moved(p, "insert zones", 1, server[p].links, server[p].memory, server[p].start)
  BY <1>1, <1>2, <1>3, Going
<1>5. /\ server'[p].pc = "insert zones" /\ server'[p].start = server[p].start
      /\ server'[p].memory = server[p].memory /\ server'[p].at = 1
  BY <1>4 DEF Moved
<1>6. Data'
  <2>1. worlds' \subseteq 0 .. starts'
    BY <1>1, <1>2 DEF Data, Itself, WorldId
  <2>2. zones' \in [ZoneSet -> worlds' \cup {None}]
    BY <1>1, <1>2 DEF Data
  <2> QED
    BY <1>1, <1>2, <2>1, <2>2 DEF Data
<1>7. Keys'
  BY <1>1 DEF Inv, Keys, Empty
<1>8. Itself(p)'
  <2>1. 1 \in DOMAIN Zones
    BY World
  <2> QED
    BY <1>1, <1>2, <1>5, <2>1 DEF Itself, At, Loading, Filled
<1>9. ASSUME Progress(p)
      PROVE  Progress(p)' /\ links = {}
  <2>1. links = {} /\ \A z \in ZoneSet : zones[z] = None
    BY <1>1, <1>9 DEF Progress
  <2>2. WorldId(p)' \in worlds'
    BY <1>1, <1>5 DEF WorldId
  <2>3. \A i \in DOMAIN Zones : ~ (i < 1) /\ zones'[Zones[i]] = None
    <3>1. \A i \in DOMAIN Zones : ~ (i < 1)
      BY World
    <3> QED
      BY <1>1, <2>1, <3>1, World
  <2>4. \A i \in DOMAIN Zones :
            zones'[Zones[i]] = IF i < server'[p].at THEN WorldId(p)' ELSE None
    BY <1>5, <2>3
  <2>5. server'[p].pc = "insert zones" /\ links' = {}
    BY <1>1, <1>5, <2>1
  <2> QED
    BY <2>1, <2>2, <2>4, <2>5 DEF Progress, At, Loading, Filled
<1>10. ASSUME Orderly, Progress(p)
       PROVE  Sound' /\ Mine(p)'
  <2>1. Sound'
    BY <1>1, <1>9, <1>10, Names DEF Sound, WholeSkeleton
  <2>2. \A z \in ZoneSet : Empty(z)
    BY <1>1, <1>10 DEF Orderly, Mine, At, Inserting
  <2>3. \A z \in ZoneSet : Empty(z)'
    BY <1>1, <2>2 DEF Empty
  <2> QED
    BY <1>5, <2>1, <2>3 DEF Mine, InMemory, At
<1> QED
  BY <1>1, <1>4, <1>6, <1>7, <1>8, <1>9, <1>10, StatementKeeps

\* The row of a zone is written, or a row that another server wrote is in its way.
LEMMA InsertZoneKeeps ==
    ASSUME Inv, NEW p \in Servers, InsertZone(p)
    PROVE  Inv'
<1> DEFINE n == server[p].at
           zone == Zones[n]
<1>1. /\ At(p, "insert zones") /\ Booting(p)
      /\ starts' = starts /\ overlapped' = overlapped /\ zoneTypeColumn' = zoneTypeColumn
      /\ worlds' = worlds /\ links' = links /\ tiles' = tiles /\ portals' = portals
      /\ spawns' = spawns /\ npcSlots' = npcSlots /\ kills' = kills
  BY DEF InsertZone, Same, Booting, At, Down, content
<1>2. TypeInv /\ Itself(p) /\ Data /\ Keys
  BY DEF Inv, TypeInv
<1>3. n \in DOMAIN Zones /\ zone \in ZoneSet /\ n \in Nat \ {0} /\ n \in 1 .. Len(Zones)
  <2>1. n \in DOMAIN Zones
    BY <1>1, <1>2 DEF Itself
  <2> QED
    BY <2>1, World
<1>4. CASE ~ (zones[zone] = None /\ WorldId(p) \in worlds)
  <2>1. zones' = zones /\ Fail(p)
    BY <1>4 DEF InsertZone
  <2>2. Stays
    BY <1>1, <2>1 DEF Stays, world, content
  <2>3. ASSUME Progress(p)
        PROVE  FALSE
    <3>1. WorldId(p) \in worlds /\ zones[zone] = IF n < n THEN WorldId(p) ELSE None
      BY <1>1, <1>3, <2>3 DEF Progress
    <3>2. ~ (n < n)
      BY <1>3
    <3> QED
      BY <1>4, <3>1, <3>2
  <2> QED
    BY <1>1, <2>1, <2>2, <2>3, FailKeeps
<1>5. CASE zones[zone] = None /\ WorldId(p) \in worlds
  <2>1. /\ zones' = [zones EXCEPT ![zone] = WorldId(p)]
        /\ IF n = Len(Zones) THEN Goto(p, "insert links")
           ELSE server' = [server EXCEPT ![p].at = @ + 1]
    BY <1>5 DEF InsertZone
  <2>2. WorldId(p) \in Nat /\ WorldId(p) # None
    BY <1>2, Names, ServerTyped DEF WorldId
  <2>3. zones \in [ZoneSet -> worlds \cup {None}]
    BY <1>2 DEF Data
  <2>4. zones'[zone] = WorldId(p) /\ \A z \in ZoneSet \ {zone} : zones'[z] = zones[z]
    BY <1>3, <2>1, <2>3
  <2>5. Data'
    <3>1. zones' \in [ZoneSet -> worlds' \cup {None}]
      BY <1>1, <1>3, <1>5, <2>1, <2>3
    <3> QED
      BY <1>1, <1>2, <3>1 DEF Data
  <2>6. Keys'
    <3>1. ASSUME NEW z \in ZoneSet, zones'[z] = None
          PROVE  Empty(z)'
      <4>1. zones[z] = None
        BY <2>2, <2>4, <3>1
      <4>2. Empty(z)
        BY <1>2, <4>1 DEF Keys
      <4> QED
        BY <1>1, <4>2 DEF Empty
    <3>2. \A z \in ZoneSet : tiles'[z] # None => tiles'[z] \subseteq Outgoing(z)
      BY <1>1, <1>2 DEF Keys
    <3>3. \A l \in links' : zones'[Link(l).from] # None /\ zones'[Link(l).to] # None
      <4>1. \A l \in LinkSet : Link(l).from \in ZoneSet /\ Link(l).to \in ZoneSet
        BY WorldLinks
      <4> QED
        BY <1>1, <1>2, <2>2, <2>4, <4>1 DEF Keys, Data
    <3> QED
      BY <3>1, <3>2, <3>3 DEF Keys
  <2>7. ASSUME Progress(p)
        PROVE  /\ links' = {} /\ WorldId(p) \in worlds'
               /\ \A i \in DOMAIN Zones :
                      zones'[Zones[i]] = IF i < n + 1 THEN WorldId(p) ELSE None
    <3>1. /\ links = {}
          /\ \A i \in DOMAIN Zones : zones[Zones[i]] = IF i < n THEN WorldId(p) ELSE None
      BY <1>1, <2>7 DEF Progress
    <3>2. ASSUME NEW i \in DOMAIN Zones
          PROVE  zones'[Zones[i]] = IF i < n + 1 THEN WorldId(p) ELSE None
      <4>1. CASE i = n
        BY <1>3, <2>4, <4>1
      <4>2. CASE i # n
        <5>1. Zones[i] # zone /\ Zones[i] \in ZoneSet
          BY <1>3, <3>2, <4>2, World
        <5>2. zones'[Zones[i]] = IF i < n THEN WorldId(p) ELSE None
          BY <2>4, <3>1, <5>1
        <5>3. i \in Nat /\ (i < n <=> i < n + 1)
          BY <1>3, <4>2, World
        <5> QED
          BY <5>2, <5>3
      <4> QED
        BY <4>1, <4>2
    <3> QED
      BY <1>1, <1>5, <3>1, <3>2
  <2>8. ASSUME Orderly, Progress(p)
        PROVE  Sound' /\ \A z \in ZoneSet : Empty(z)'
    <3>1. Sound'
      BY <2>7, <2>8, Names DEF Sound, WholeSkeleton
    <3>2. \A z \in ZoneSet : Empty(z)
      BY <1>1, <2>8 DEF Orderly, Mine, At, Inserting
    <3> QED
      BY <1>1, <3>1, <3>2 DEF Empty
  <2>9. CASE n = Len(Zones)
    <3>1. Moved(p, "insert links", 1, server[p].links, server[p].memory, server[p].start)
      <4>1. "insert links" \in PCs /\ Goto(p, "insert links")
        BY <2>1, <2>9 DEF PCs, Inserting
      <4> QED
        BY <1>2, <4>1, Going
    <3>2. /\ server'[p].pc = "insert links" /\ server'[p].start = server[p].start
          /\ server'[p].memory = server[p].memory /\ server'[p].at = 1
      BY <3>1 DEF Moved
    <3>3. Itself(p)'
      <4>1. 1 \in DOMAIN Links
        BY WorldLinks
      <4> QED
        BY <1>1, <1>2, <3>2, <4>1 DEF Itself, At, Loading, Filled
    <3>4. ASSUME Progress(p)
          PROVE  Progress(p)'
      <4>1. \A z \in ZoneSet : zones'[z] = WorldId(p)
        <5>1. ASSUME NEW i \in DOMAIN Zones
              PROVE  zones'[Zones[i]] = WorldId(p)
          <6>1. i < n + 1
            BY <2>9, World
          <6> QED
            BY <2>7, <3>4, <6>1
        <5> QED
          BY <5>1, World
      <4>2. {Links[i].id : i \in {j \in DOMAIN Links : j < 1}} = {}
        BY WorldLinks
      <4>3. WorldId(p)' = WorldId(p)
        BY <3>2 DEF WorldId
      <4> QED
        BY <2>7, <3>2, <3>4, <4>1, <4>2, <4>3 DEF Progress, At, Loading, Filled
    <3>5. ASSUME Orderly, Progress(p)
          PROVE  Mine(p)'
      BY <2>8, <3>2, <3>5 DEF Mine, InMemory, At
    <3> QED
      BY <1>1, <2>5, <2>6, <2>8, <3>1, <3>3, <3>4, <3>5, StatementKeeps
  <2>10. CASE n # Len(Zones)
    <3>1. Moved(p, "insert zones", n + 1, server[p].links, server[p].memory,
                server[p].start)
      BY <1>1, <1>2, <2>1, <2>10, Advancing DEF At
    <3>2. /\ server'[p].pc = "insert zones" /\ server'[p].start = server[p].start
          /\ server'[p].memory = server[p].memory /\ server'[p].at = n + 1
      BY <3>1 DEF Moved
    <3>3. Itself(p)'
      <4>1. n + 1 \in DOMAIN Zones
        BY <1>3, <2>10, World
      <4> QED
        BY <1>1, <1>2, <3>2, <4>1 DEF Itself, At, Loading, Filled
    <3>4. ASSUME Progress(p)
          PROVE  Progress(p)'
      <4>1. WorldId(p)' = WorldId(p)
        BY <3>2 DEF WorldId
      <4> HIDE DEF n
      <4> QED
        BY <2>7, <3>2, <3>4, <4>1 DEF Progress, At, Loading, Filled
    <3>5. ASSUME Orderly, Progress(p)
          PROVE  Mine(p)'
      BY <2>8, <3>2, <3>5 DEF Mine, InMemory, At
    <3> QED
      BY <1>1, <2>5, <2>6, <2>8, <3>1, <3>3, <3>4, <3>5, StatementKeeps
  <2> QED
    BY <2>9, <2>10
<1> QED
  BY <1>4, <1>5

\* The row of a link is written, or one that another server wrote is in its way.
LEMMA InsertLinkKeeps ==
    ASSUME Inv, NEW p \in Servers, InsertLink(p)
    PROVE  Inv'
<1> DEFINE n == server[p].at
           link == Links[n]
<1>1. /\ At(p, "insert links") /\ Booting(p)
      /\ starts' = starts /\ overlapped' = overlapped /\ zoneTypeColumn' = zoneTypeColumn
      /\ worlds' = worlds /\ zones' = zones /\ tiles' = tiles /\ portals' = portals
      /\ spawns' = spawns /\ npcSlots' = npcSlots /\ kills' = kills
  BY DEF InsertLink, Same, Booting, At, Down, content
<1>2. TypeInv /\ Itself(p) /\ Data /\ Keys
  BY DEF Inv, TypeInv
<1>3. n \in DOMAIN Links /\ n \in Nat \ {0} /\ n \in 1 .. Len(Links)
  <2>1. n \in DOMAIN Links
    BY <1>1, <1>2 DEF Itself
  <2> QED
    BY <2>1, WorldLinks
<1>4. /\ link.id \in LinkSet /\ Link(link.id) = link
      /\ link.from \in ZoneSet /\ link.to \in ZoneSet
  BY <1>3, WorldLinks
<1> DEFINE done == {Links[i].id : i \in {j \in DOMAIN Links : j < n}}
           free == link.id \notin links /\ zones[link.from] # None /\ zones[link.to] # None
<1>5. ASSUME Progress(p)
      PROVE  /\ WorldId(p) \in worlds /\ links = done
             /\ \A z \in ZoneSet : zones[z] = WorldId(p) /\ zones[z] # None
  <2>1. WorldId(p) # None
    BY <1>2, Names, ServerTyped DEF WorldId
  <2> QED
    BY <1>1, <1>5, <2>1 DEF Progress
<1>6. link.id \notin done
  <2>1. ASSUME NEW i \in DOMAIN Links, i < n
        PROVE  Links[i].id # link.id
    <3>1. i # n
      BY <1>3, <2>1, WorldLinks
    <3> QED
      BY <1>3, <3>1, WorldLinks
  <2> QED
    BY <2>1
<1>7. CASE ~ free
  <2>1. links' = links /\ Fail(p)
    BY <1>7 DEF InsertLink
  <2>2. Stays
    BY <1>1, <2>1 DEF Stays, world, content
  <2>3. ~ Progress(p)
    BY <1>4, <1>5, <1>6, <1>7
  <2> QED
    BY <1>1, <2>1, <2>2, <2>3, FailKeeps
<1>8. CASE free
  <2>1. /\ links' = links \cup {link.id}
        /\ IF n = Len(Links) THEN Goto(p, AfterTheWorld(p))
           ELSE server' = [server EXCEPT ![p].at = @ + 1]
    BY <1>8 DEF InsertLink
  <2>2. Data'
    BY <1>1, <1>2, <1>4, <2>1 DEF Data
  <2>3. Keys'
    <3>1. ASSUME NEW z \in ZoneSet
          PROVE  /\ zones'[z] = None => Empty(z)'
                 /\ tiles'[z] # None => tiles'[z] \subseteq Outgoing(z)
      BY <1>1, <1>2 DEF Keys, Empty
    <3>2. \A l \in links' : zones'[Link(l).from] # None /\ zones'[Link(l).to] # None
      BY <1>1, <1>2, <1>4, <1>8, <2>1 DEF Keys
    <3> QED
      BY <3>1, <3>2 DEF Keys
  <2>4. ASSUME Progress(p)
        PROVE  links' = {Links[i].id : i \in {j \in DOMAIN Links : j < n + 1}}
    <3> DEFINE more == {Links[i].id : i \in {j \in DOMAIN Links : j < n + 1}}
    <3>1. \A j \in DOMAIN Links : j < n + 1 <=> j < n \/ j = n
      BY <1>3, WorldLinks
    <3>2. more = done \cup {link.id}
      BY <1>3, <3>1
    <3> QED
      BY <1>5, <2>1, <2>4, <3>2
  <2>5. ASSUME Orderly
        PROVE  Sound' /\ \A z \in ZoneSet : Empty(z)'
    <3>1. \A z \in ZoneSet : Empty(z)
      BY <1>1, <2>5 DEF Orderly, Mine, At, Inserting
    <3>2. \A z \in ZoneSet : Empty(z)'
      BY <1>1, <3>1 DEF Empty
    <3> QED
      BY <3>2 DEF Sound
  <2>6. CASE n = Len(Links)
    <3> DEFINE pc == AfterTheWorld(p)
    <3>1. pc = (IF p = Login THEN "serving" ELSE "has content") /\ pc \in PCs
      BY DEF AfterTheWorld, PCs, Loading
    <3>2. Goto(p, pc)
      BY <2>1, <2>6
    <3> HIDE DEF pc
    <3>3. Moved(p, pc, 1, server[p].links, server[p].memory, server[p].start)
      BY <1>2, <3>1, <3>2, Going
    <3>4. /\ server'[p].pc = pc /\ server'[p].start = server[p].start
          /\ server'[p].memory = server[p].memory
      BY <3>3 DEF Moved
    <3>5. pc \in {"serving", "has content"}
      BY <3>1
    <3>6. Itself(p)'
      BY <1>1, <1>2, <3>1, <3>4, <3>5 DEF Itself, At, Loading, Filled
    <3>7. ASSUME Progress(p)
          PROVE  Progress(p)'
      <4>1. \A i \in DOMAIN Links : i < n + 1
        BY <1>3, <2>6, WorldLinks
      <4>2. links' = {Links[i].id : i \in DOMAIN Links}
        <5> HIDE DEF n, done
        <5> QED
          BY <2>4, <3>7, <4>1
      <4>3. links' = LinkSet
        BY <4>2 DEF LinkSet
      <4>4. \A z \in ZoneSet : zones'[z] \in worlds'
        BY <1>1, <1>5, <3>7
      <4>5. WholeSkeleton'
        BY <4>3, <4>4 DEF WholeSkeleton, HasMetadata
      <4> QED
        BY <3>4, <3>5, <4>5 DEF Progress, At, Filled
    <3>8. Mine(p)'
      BY <3>1, <3>4, <3>5 DEF Mine, InMemory, At, Inserting
    <3>9. pc # "failed"
      BY <3>5
    <3> QED
      BY <1>1, <2>2, <2>3, <2>5, <3>3, <3>6, <3>7, <3>8, <3>9, StatementKeeps
  <2>7. CASE n # Len(Links)
    <3>1. Moved(p, "insert links", n + 1, server[p].links, server[p].memory,
                server[p].start)
      BY <1>1, <1>2, <2>1, <2>7, Advancing DEF At
    <3>2. /\ server'[p].pc = "insert links" /\ server'[p].start = server[p].start
          /\ server'[p].memory = server[p].memory /\ server'[p].at = n + 1
      BY <3>1 DEF Moved
    <3>3. Itself(p)'
      <4>1. n + 1 \in DOMAIN Links
        BY <1>3, <2>7, WorldLinks
      <4> QED
        BY <1>1, <1>2, <3>2, <4>1 DEF Itself, At, Loading, Filled
    <3>4. ASSUME Progress(p)
          PROVE  Progress(p)'
      <4>1. WorldId(p)' = WorldId(p)
        BY <3>2 DEF WorldId
      <4>2. /\ links' = {Links[i].id : i \in {j \in DOMAIN Links : j < n + 1}}
            /\ WorldId(p) \in worlds' /\ \A z \in ZoneSet : zones'[z] = WorldId(p)
        BY <1>1, <1>5, <2>4, <3>4
      <4> HIDE DEF n, done
      <4> QED
        BY <3>2, <4>1, <4>2 DEF Progress, At, Loading, Filled
    <3>5. Orderly => Mine(p)'
      BY <2>5, <3>2 DEF Mine, InMemory, At
    <3> QED
      BY <1>1, <2>2, <2>3, <2>5, <3>1, <3>3, <3>4, <3>5, StatementKeeps
  <2> QED
    BY <2>6, <2>7
<1> QED
  BY <1>7, <1>8
-----------------------------------------------------------------------------
(* Statement by statement: the content of a zone *)

\* Whether the zone has tiles (hasZoneContent).
LEMMA LookForContentKeeps ==
    ASSUME Inv, NEW p \in Servers, LookForContent(p)
    PROVE  Inv'
<1> DEFINE pc == IF tiles[p] # None THEN "load tiles" ELSE "read metadata"
<1>1. Stays /\ At(p, "has content") /\ Booting(p) /\ Goto(p, pc)
  BY DEF LookForContent, Stays, Same, Booting, At, Down
<1>2. pc \in PCs /\ pc \in {"load tiles", "read metadata"}
  BY DEF PCs, Loading
<1>3. /\ pc = "load tiles" => tiles[p] # None
      /\ pc = "read metadata" => tiles[p] = None
  OBVIOUS
<1> HIDE DEF pc
<1>4. TypeInv /\ Itself(p)
  BY DEF Inv
<1>5. Moved(p, pc, 1, server[p].links, server[p].memory, server[p].start)
  BY <1>1, <1>2, <1>4, Going
<1>6. /\ server'[p].pc = pc /\ server'[p].start = server[p].start
      /\ server'[p].memory = server[p].memory
      /\ starts' = starts /\ tiles' = tiles /\ WholeSkeleton' = WholeSkeleton
  BY <1>1, <1>5, StaysSame DEF Moved
<1>7. Itself(p)'
  BY <1>1, <1>2, <1>4, <1>6 DEF Itself, At, Loading, Filled
<1>8. ASSUME Progress(p)
      PROVE  Progress(p)'
  <2>1. WholeSkeleton
    BY <1>1, <1>8 DEF Progress, At, Loading
  <2> QED
    BY <1>2, <1>3, <1>6, <2>1 DEF Progress, At, Filled
<1>9. Mine(p)'
  BY <1>2, <1>6 DEF Mine, InMemory, At, Inserting
<1>10. pc # "failed"
  BY <1>2
<1> QED
  BY <1>1, <1>5, <1>7, <1>8, <1>9, <1>10, QueryKeeps

\* The template of the zone is read from its row and its world (loadZoneMetadata).
LEMMA ReadMetadataKeeps ==
    ASSUME Inv, NEW p \in Servers, ReadMetadata(p)
    PROVE  Inv'
<1>1. Stays /\ At(p, "read metadata") /\ Booting(p) /\ p \in ZoneSet /\ p # Login
  <2>1. Stays /\ At(p, "read metadata") /\ Booting(p)
    BY DEF ReadMetadata, Stays, Same, Booting, At, Down
  <2>2. p # Login
    BY <2>1 DEF Inv, Itself, At, Loading
  <2> QED
    BY <2>1, <2>2, Names
<1>2. TypeInv /\ Itself(p)
  BY DEF Inv
<1>3. Progress(p) => WholeSkeleton /\ tiles[p] = None
  BY <1>1 DEF Progress, At, Loading
<1>4. CASE ~ HasMetadata(p)
  <2>1. Fail(p) /\ ~ Progress(p)
    BY <1>1, <1>3, <1>4 DEF ReadMetadata, WholeSkeleton
  <2> QED
    BY <1>1, <2>1, FailKeeps
<1>5. CASE HasMetadata(p)
  <2>1. Goto(p, "read links") /\ "read links" \in PCs
    BY <1>5 DEF ReadMetadata, PCs, Loading
  <2>2. Moved(p, "read links", 1, server[p].links, server[p].memory, server[p].start)
    BY <1>2, <2>1, Going
  <2>3. /\ server'[p].pc = "read links" /\ server'[p].start = server[p].start
        /\ server'[p].memory = server[p].memory
        /\ starts' = starts /\ tiles' = tiles /\ WholeSkeleton' = WholeSkeleton
    BY <1>1, <2>2, StaysSame DEF Moved
  <2>4. Itself(p)'
    BY <1>1, <1>2, <2>3 DEF Itself, At, Loading, Filled
  <2>5. Progress(p) => Progress(p)'
    BY <1>3, <2>3 DEF Progress, At, Filled
  <2>6. Mine(p)'
    BY <2>3 DEF Mine, InMemory, At, Inserting
  <2> QED
    BY <1>1, <2>2, <2>4, <2>5, <2>6, QueryKeeps
<1> QED
  BY <1>4, <1>5

\* The links of the zone are read (loadZoneLinksFromDatabase).
LEMMA ReadLinksKeeps ==
    ASSUME Inv, NEW p \in Servers, ReadLinks(p)
    PROVE  Inv'
<1> DEFINE drawn == links \cap Outgoing(p)
<1>1. /\ Stays /\ At(p, "read links") /\ Booting(p)
      /\ server' = [server EXCEPT ![p].pc = "persist", ![p].links = drawn]
  BY DEF ReadLinks, Stays, Same, Booting, At, Down
<1>2. p \in ZoneSet /\ p # Login
  <2>1. p # Login
    BY <1>1 DEF Inv, Itself, At, Loading
  <2> QED
    BY <2>1, Names
<1>3. TypeInv /\ Itself(p)
  BY DEF Inv
<1>4. drawn \in SUBSET LinkSet /\ "persist" \in PCs
  BY <1>3 DEF TypeInv, Data, PCs, Loading
<1>5. Progress(p) => WholeSkeleton /\ tiles[p] = None /\ drawn = Outgoing(p)
  <2>1. Progress(p) => WholeSkeleton /\ tiles[p] = None
    BY <1>1 DEF Progress, At, Loading
  <2> QED
    BY <1>2, <2>1, Names DEF WholeSkeleton
<1> HIDE DEF drawn
<1>6. Moved(p, "persist", server[p].at, drawn, server[p].memory, server[p].start)
  BY <1>1, <1>3, <1>4, LinksMove
<1>7. /\ server'[p].pc = "persist" /\ server'[p].start = server[p].start
      /\ server'[p].memory = server[p].memory /\ server'[p].links = drawn
      /\ starts' = starts /\ tiles' = tiles /\ WholeSkeleton' = WholeSkeleton
  BY <1>1, <1>6, StaysSame DEF Moved
<1>8. Itself(p)'
  BY <1>2, <1>3, <1>7 DEF Itself, At, Loading, Filled
<1>9. Progress(p) => Progress(p)'
  BY <1>5, <1>7 DEF Progress, At, Filled
<1>10. Mine(p)'
  BY <1>7 DEF Mine, InMemory, At, Inserting
<1> QED
  BY <1>1, <1>6, <1>8, <1>9, <1>10, QueryKeeps

\* The zone is generated and written in one transaction, or turned away because another
\* server wrote it (persistZone). What a zone has of rows is then as it was left: empty
\* before, and full after if all its links were read.
LEMMA PersistZoneKeeps ==
    ASSUME Inv, NEW p \in Servers, PersistZone(p)
    PROVE  Inv'
<1> DEFINE drawn == server[p].links
           free == <<p, drawn>> \in ValidPlans /\ tiles[p] = None /\ zones[p] # None
<1>1. /\ At(p, "persist") /\ Booting(p)
      /\ starts' = starts /\ overlapped' = overlapped /\ zoneTypeColumn' = zoneTypeColumn
      /\ worlds' = worlds /\ zones' = zones /\ links' = links /\ kills' = kills
  BY DEF PersistZone, Same, Booting, At, Down, world
<1>2. p \in ZoneSet /\ p # Login /\ p \in Running
  <2>1. p # Login
    BY <1>1 DEF Inv, Itself, At, Loading
  <2> QED
    BY <2>1, Names DEF Servers
<1>3. TypeInv /\ Itself(p) /\ Data /\ Keys
  BY DEF Inv, TypeInv
<1>4. Progress(p) => WholeSkeleton /\ tiles[p] = None /\ drawn = Outgoing(p)
  BY <1>1 DEF Progress, At, Loading
<1>5. CASE ~ free
  <2>1. UNCHANGED content /\ Fail(p)
    BY <1>5 DEF PersistZone
  <2>2. Stays
    BY <1>1, <2>1 DEF Stays, world
  <2>3. ASSUME Progress(p)
        PROVE  free
    <3>1. <<p, drawn>> \in ValidPlans
      BY <1>2, <1>4, <2>3, GeneratorAssumption
    <3>2. zones[p] # None
      BY <1>2, <1>3, <1>4, <2>3, MetadataIsARow DEF WholeSkeleton
    <3> QED
      BY <1>4, <2>3, <3>1, <3>2
  <2> QED
    BY <1>1, <1>5, <2>1, <2>2, <2>3, FailKeeps
<1>6. CASE free
  <2>1. /\ tiles' = [tiles EXCEPT ![p] = drawn]
        /\ portals' = [l \in LinkSet |-> portals[l] + IF l \in drawn THEN 1 ELSE 0]
        /\ spawns' = [spawns EXCEPT ![p] = @ + 1]
        /\ npcSlots' = [npcSlots EXCEPT ![p] = @ + 1]
        /\ Goto(p, "load tiles")
    BY <1>6 DEF PersistZone
  <2>2. drawn \subseteq Outgoing(p)
    <3> DEFINE plan == <<p, drawn>>
    <3>1. plan \in ValidPlans
      BY <1>6
    <3>2. plan[2] \subseteq Outgoing(plan[1])
      BY <3>1 DEF ValidPlans
    <3>3. plan[1] = p /\ plan[2] = drawn
      OBVIOUS
    <3> QED
      BY <3>2, <3>3
  <2>3. drawn \in SUBSET LinkSet /\ drawn # None
    BY <1>3, ServerTyped, Names
  <2>4. /\ tiles \in [ZoneSet -> {None} \cup SUBSET LinkSet] /\ portals \in [LinkSet -> Nat]
        /\ spawns \in [ZoneSet -> Nat] /\ npcSlots \in [ZoneSet -> Nat]
    BY <1>3 DEF Data
  <2> HIDE DEF drawn
  <2>5. /\ tiles'[p] = drawn /\ spawns'[p] = spawns[p] + 1
        /\ npcSlots'[p] = npcSlots[p] + 1
        /\ \A z \in ZoneSet \ {p} : /\ tiles'[z] = tiles[z] /\ spawns'[z] = spawns[z]
                                    /\ npcSlots'[z] = npcSlots[z]
    BY <1>2, <2>1, <2>4
  <2>6. ASSUME NEW l \in LinkSet
        PROVE  portals'[l] = IF l \in drawn THEN portals[l] + 1 ELSE portals[l]
    <3>1. portals[l] \in Nat
      BY <2>4
    <3>2. portals'[l] = portals[l] + IF l \in drawn THEN 1 ELSE 0
      BY <2>1
    <3> QED
      BY <3>1, <3>2
  <2>7. Data'
    <3>1. tiles' \in [ZoneSet -> {None} \cup SUBSET LinkSet]
      <4>1. tiles' = [tiles EXCEPT ![p] = drawn]
        BY <2>1
      <4> QED
        BY <1>2, <2>3, <2>4, <4>1
    <3>2. spawns' \in [ZoneSet -> Nat]
      <4>1. spawns' = [spawns EXCEPT ![p] = @ + 1]
        BY <2>1
      <4> QED
        BY <1>2, <2>4, <4>1
    <3>3. npcSlots' \in [ZoneSet -> Nat]
      <4>1. npcSlots' = [npcSlots EXCEPT ![p] = @ + 1]
        BY <2>1
      <4> QED
        BY <1>2, <2>4, <4>1
    <3>4. portals' \in [LinkSet -> Nat]
      <4>1. \A l \in LinkSet : portals[l] + (IF l \in drawn THEN 1 ELSE 0) \in Nat
        BY <2>4
      <4> QED
        BY <2>1, <4>1
    <3> QED
      BY <1>1, <1>3, <3>1, <3>2, <3>3, <3>4 DEF Data
  <2>8. ASSUME NEW z \in ZoneSet, z # p
        PROVE  /\ Empty(z) => Empty(z)'
               /\ Full(z) => Full(z)'
    <3>1. \A l \in Outgoing(z) : l \in LinkSet /\ l \notin drawn
      BY <1>2, <2>2, <2>8, Names
    <3>2. \A l \in Outgoing(z) : portals'[l] = portals[l]
      BY <2>6, <3>1
    <3> QED
      BY <2>5, <2>8, <3>2 DEF Empty, Full
  <2>9. Keys'
    <3>1. ASSUME NEW z \in ZoneSet, zones'[z] = None
          PROVE  Empty(z)'
      BY <1>1, <1>3, <1>6, <2>8, <3>1 DEF Keys
    <3>2. ASSUME NEW z \in ZoneSet, tiles'[z] # None
          PROVE  tiles'[z] \subseteq Outgoing(z)
      BY <1>3, <2>2, <2>5, <3>2 DEF Keys
    <3>3. \A l \in links' : zones'[Link(l).from] # None /\ zones'[Link(l).to] # None
      BY <1>1, <1>3 DEF Keys
    <3> QED
      BY <3>1, <3>2, <3>3 DEF Keys
  <2>10. Moved(p, "load tiles", 1, drawn, server[p].memory, server[p].start)
    <3>1. "load tiles" \in PCs
      BY DEF PCs, Loading
    <3> QED
      BY <1>3, <2>1, <3>1, Going DEF drawn
  <2>11. /\ server'[p].pc = "load tiles" /\ server'[p].start = server[p].start
         /\ server'[p].memory = server[p].memory
    BY <2>10 DEF Moved
  <2>12. Itself(p)'
    BY <1>1, <1>2, <1>3, <2>11 DEF Itself, At, Loading, Filled
  <2>13. ASSUME Progress(p)
         PROVE  Progress(p)'
    <3>1. WholeSkeleton'
      BY <1>1, <1>4, <2>13 DEF WholeSkeleton, HasMetadata
    <3> QED
      BY <2>3, <2>5, <2>11, <3>1 DEF Progress, At
  <2>14. ASSUME Orderly, Progress(p)
         PROVE  Sound'
    <3>1. WholeSkeleton /\ drawn = Outgoing(p)
      BY <1>4, <2>14 DEF drawn
    <3>2. \A z \in ZoneSet : Full(z) \/ Empty(z)
      BY <2>14, <3>1 DEF Orderly, Sound
    <3>3. Full(p)'
      <4>1. Empty(p)
        BY <1>2, <1>6, <3>1, <3>2, Names DEF Full
      <4>2. ASSUME NEW l \in Outgoing(p)
            PROVE  portals'[l] = 1
        <5>1. l \in LinkSet /\ l \in drawn /\ portals[l] = 0
          BY <1>2, <3>1, <4>1, Names DEF Empty
        <5> QED
          BY <2>6, <5>1
      <4> QED
        BY <2>5, <3>1, <4>1, <4>2 DEF Empty, Full
    <3> QED
      BY <2>8, <3>2, <3>3 DEF Sound
  <2>15. Mine(p)'
    BY <2>11 DEF Mine, InMemory, At, Inserting
  <2> QED
    BY <1>1, <2>7, <2>9, <2>10, <2>12, <2>13, <2>14, <2>15, StatementKeeps
<1> QED
  BY <1>5, <1>6
-----------------------------------------------------------------------------
(* Statement by statement: what is loaded *)

\* What memory holds of a full zone when a query comes back.
Holds(p, pc, memory) ==
    /\ pc = "load portals" => memory = Read(p, FALSE, FALSE, FALSE)
    /\ pc = "load npcs" => memory = Read(p, TRUE, FALSE, FALSE)
    /\ pc = "load spawns" => memory = Read(p, TRUE, TRUE, FALSE)
    /\ pc = "register" => memory = Read(p, TRUE, TRUE, TRUE)

\* A query that puts rows of the zone into memory.
LEMMA LoadKeeps ==
    ASSUME Inv, NEW p \in Servers, server[p].pc \in {"load tiles"} \cup Filled,
           NEW pc \in Filled, NEW memory \in Memories, memory.tiles # None,
           Load(p, memory, pc),
           Full(p) /\ InMemory(p) => Holds(p, pc, memory)
    PROVE  Inv'
<1>1. /\ Stays /\ Booting(p) /\ p # Login /\ p \in ZoneSet
  <2>1. Stays
    BY DEF Load, Stays, Same
  <2>2. Booting(p)
    BY DEF Booting, Down, Filled
  <2>3. p # Login
    BY DEF Inv, Itself, Loading
  <2> QED
    BY <2>1, <2>2, <2>3, Names
<1>2. TypeInv /\ Itself(p)
  BY DEF Inv
<1>3. pc \in PCs
  BY DEF PCs, Loading
<1>4. Moved(p, pc, server[p].at, server[p].links, memory, server[p].start)
  BY <1>2, <1>3, LoadingMoves DEF Load
<1>5. /\ server'[p].pc = pc /\ server'[p].start = server[p].start
      /\ server'[p].memory = memory
      /\ starts' = starts /\ tiles' = tiles /\ WholeSkeleton' = WholeSkeleton
  BY <1>1, <1>4, StaysSame DEF Moved
<1>6. pc \in {"load portals", "load npcs", "load spawns", "register"}
  BY DEF Filled
<1>7. Itself(p)'
  BY <1>1, <1>2, <1>5, <1>6 DEF Itself, At
<1>8. Progress(p) => WholeSkeleton /\ tiles[p] # None
  BY DEF Progress, Loading
<1>9. Progress(p) => Progress(p)'
  <2> HIDE DEF Filled
  <2> QED
    BY <1>5, <1>6, <1>8 DEF Progress, At
<1>10. ASSUME Orderly, Progress(p)
       PROVE  Mine(p)'
  <2>1. InMemory(p)
    BY <1>1, <1>10 DEF Orderly, Mine
  <2>2. Full(p) \/ Empty(p)
    BY <1>1, <1>8, <1>10 DEF Orderly, Sound
  <2>3. Full(p)
    BY <1>8, <1>10, <2>2 DEF Empty
  <2>4. Holds(p, pc, memory)
    BY <2>1, <2>3
  <2>5. InMemory(p)'
    BY <1>5, <1>6, <2>4 DEF InMemory, Holds, At
  <2> QED
    BY <1>5, <1>6, <2>5 DEF Mine, Inserting
<1>11. pc # "failed"
  BY <1>6
<1> QED
  BY <1>1, <1>4, <1>7, <1>9, <1>10, <1>11, QueryKeeps

\* The tiles, if the zone has its row, its world and its tiles (loadZoneData).
LEMMA LoadTilesKeeps ==
    ASSUME Inv, NEW p \in Servers, LoadTiles(p)
    PROVE  Inv'
<1> DEFINE free == HasMetadata(p) /\ tiles[p] # None
<1>1. At(p, "load tiles") /\ Booting(p) /\ p # Login /\ p \in ZoneSet
  <2>1. At(p, "load tiles")
    BY DEF LoadTiles
  <2>2. Booting(p) /\ p # Login
    BY <2>1 DEF Inv, Itself, Loading, Booting, Down, At
  <2> QED
    BY <2>1, <2>2, Names
<1>2. CASE ~ free
  <2>1. Fail(p) /\ Stays
    BY <1>2 DEF LoadTiles, Same, Stays
  <2>2. ~ Progress(p)
    BY <1>1, <1>2 DEF Progress, At, Loading, WholeSkeleton
  <2> QED
    BY <1>1, <2>1, <2>2, FailKeeps
<1>3. CASE free
  <2> DEFINE memory == [Nothing EXCEPT !.tiles = tiles[p]]
  <2>1. Load(p, memory, "load portals")
    BY <1>3 DEF LoadTiles
  <2>2. tiles[p] \in {None} \cup SUBSET LinkSet
    BY <1>1 DEF Inv, TypeInv, Data
  <2>3. memory \in Memories /\ memory.tiles = tiles[p]
    BY <2>2 DEF Memories, Nothing
  <2>4. Full(p) => memory = Read(p, FALSE, FALSE, FALSE)
    BY DEF Full, Read, Nothing
  <2> HIDE DEF memory
  <2>5. Full(p) => Holds(p, "load portals", memory)
    BY <2>4 DEF Holds
  <2>6. server[p].pc \in {"load tiles"} \cup Filled /\ "load portals" \in Filled
    BY <1>1 DEF At, Filled
  <2>7. memory.tiles # None
    BY <1>3, <2>3
  <2> QED
    BY <2>1, <2>3, <2>5, <2>6, <2>7, LoadKeeps
<1> QED
  BY <1>2, <1>3

\* What the three queries after the tiles have in common.
LEMMA InFilled ==
    ASSUME Inv, NEW p \in Servers, server[p].pc \in Filled
    PROVE  /\ server[p].memory \in Memories /\ server[p].memory.tiles # None
           /\ p # Login /\ p \in ZoneSet
<1>1. server[p].memory \in Memories
  BY ServerTyped DEF Inv
<1>2. p # Login
  BY DEF Inv, Itself, Loading
<1>3. server[p].memory.tiles # None
  BY <1>2 DEF Inv, Itself
<1> QED
  BY <1>1, <1>2, <1>3, Names

\* The portals, whose rows are counted (loadZonePortals).
LEMMA LoadPortalsKeeps ==
    ASSUME Inv, NEW p \in Servers, LoadPortals(p)
    PROVE  Inv'
<1> DEFINE rows == [l \in Outgoing(p) |-> portals[l]]
           memory == [server[p].memory EXCEPT !.portals = rows]
<1>1. At(p, "load portals") /\ Load(p, memory, "load npcs")
  BY DEF LoadPortals
<1>2. server[p].pc \in Filled /\ "load npcs" \in Filled
  BY <1>1 DEF At, Filled
<1>3. rows \in [Outgoing(p) -> Nat] /\ p \in ZoneSet
  <2>1. p \in ZoneSet
    BY <1>2, InFilled
  <2>2. \A l \in Outgoing(p) : portals[l] \in Nat
    BY <2>1, Names DEF Inv, TypeInv, Data
  <2> QED
    BY <2>1, <2>2
<1>4. Full(p) => rows = [l \in Outgoing(p) |-> 1]
  BY DEF Full
<1> HIDE DEF rows
<1>5. memory \in Memories /\ memory.tiles # None
  BY <1>2, <1>3, InFilled DEF Memories
<1>6. ASSUME Full(p), InMemory(p)
      PROVE  memory = Read(p, TRUE, FALSE, FALSE)
  <2>1. server[p].memory = Read(p, FALSE, FALSE, FALSE)
    BY <1>1, <1>6 DEF InMemory, At
  <2> QED
    BY <1>4, <1>6, <2>1 DEF Read
<1> HIDE DEF memory
<1>7. Full(p) /\ InMemory(p) => Holds(p, "load npcs", memory)
  BY <1>6 DEF Holds
<1> QED
  BY <1>1, <1>2, <1>5, <1>7, LoadKeeps

\* The NPC slots (spawnNpcEntities).
LEMMA LoadNpcSlotsKeeps ==
    ASSUME Inv, NEW p \in Servers, LoadNpcSlots(p)
    PROVE  Inv'
<1> DEFINE memory == [server[p].memory EXCEPT !.npcSlots = npcSlots[p]]
<1>1. At(p, "load npcs") /\ Load(p, memory, "load spawns")
  BY DEF LoadNpcSlots
<1>2. server[p].pc \in Filled /\ "load spawns" \in Filled
  BY <1>1 DEF At, Filled
<1>3. npcSlots[p] \in Nat
  BY <1>2, InFilled DEF Inv, TypeInv, Data
<1>4. memory \in Memories /\ memory.tiles # None
  BY <1>2, <1>3, InFilled DEF Memories
<1>5. ASSUME Full(p), InMemory(p)
      PROVE  memory = Read(p, TRUE, TRUE, FALSE)
  <2>1. server[p].memory = Read(p, TRUE, FALSE, FALSE) /\ npcSlots[p] = 1
    BY <1>1, <1>5 DEF InMemory, At, Full
  <2> QED
    BY <2>1 DEF Read
<1> HIDE DEF memory
<1>6. Full(p) /\ InMemory(p) => Holds(p, "load spawns", memory)
  BY <1>5 DEF Holds
<1> QED
  BY <1>1, <1>2, <1>4, <1>6, LoadKeeps

\* The spawns (loadZoneSpawns).
LEMMA LoadSpawnsKeeps ==
    ASSUME Inv, NEW p \in Servers, LoadSpawns(p)
    PROVE  Inv'
<1> DEFINE memory == [server[p].memory EXCEPT !.spawns = spawns[p]]
<1>1. At(p, "load spawns") /\ Load(p, memory, "register")
  BY DEF LoadSpawns
<1>2. server[p].pc \in Filled /\ "register" \in Filled
  BY <1>1 DEF At, Filled
<1>3. spawns[p] \in Nat
  BY <1>2, InFilled DEF Inv, TypeInv, Data
<1>4. memory \in Memories /\ memory.tiles # None
  BY <1>2, <1>3, InFilled DEF Memories
<1>5. ASSUME Full(p), InMemory(p)
      PROVE  memory = Read(p, TRUE, TRUE, TRUE)
  <2>1. server[p].memory = Read(p, TRUE, TRUE, FALSE) /\ spawns[p] = 1
    BY <1>1, <1>5 DEF InMemory, At, Full
  <2> QED
    BY <2>1 DEF Read
<1> HIDE DEF memory
<1>6. Full(p) /\ InMemory(p) => Holds(p, "register", memory)
  BY <1>5 DEF Holds
<1> QED
  BY <1>1, <1>2, <1>4, <1>6, LoadKeeps

\* The zone is served, or WorldLogin is gone (connectAndRegister).
LEMMA RegisterKeeps ==
    ASSUME Inv, NEW p \in Servers, Register(p)
    PROVE  Inv'
<1>1. Stays /\ At(p, "register") /\ Booting(p)
  BY DEF Register, Stays, Same, Booting, At, Down
<1>2. TypeInv /\ Itself(p) /\ server[p].pc \in Filled /\ p # Login /\ starts \in Nat
  <2>1. server[p].pc \in Filled
    BY <1>1 DEF At, Filled
  <2> QED
    BY <2>1, InFilled DEF Inv, TypeInv, Data
<1>3. CASE Goto(p, "serving")
  <2>1. Moved(p, "serving", 1, server[p].links, server[p].memory, server[p].start)
    BY <1>2, <1>3, Going DEF PCs
  <2>2. /\ server'[p].pc = "serving" /\ server'[p].start = server[p].start
        /\ server'[p].memory = server[p].memory /\ starts' = starts
    BY <1>1, <2>1, StaysSame DEF Moved
  <2>3. Itself(p)'
    BY <1>2, <2>2 DEF Itself, At, Loading, Filled
  <2>4. Progress(p)'
    BY <2>2 DEF Progress, At, Loading, Filled
  <2>5. ASSUME Orderly
        PROVE  Mine(p)'
    <3>1. server[p].memory = Read(p, TRUE, TRUE, TRUE)
      BY <1>1, <1>2, <2>5 DEF Orderly, Mine, InMemory, At
    <3>2. InMemory(p)'
      BY <2>2, <3>1 DEF InMemory, At
    <3> QED
      BY <2>2, <3>2 DEF Mine, Inserting
  <2> QED
    BY <1>1, <2>1, <2>3, <2>4, <2>5, QueryKeeps
<1>4. CASE Exit(p, "refused")
  <2>1. Moved(p, "refused", 1, {}, Nothing, 0)
    BY <1>2, <1>4, Exiting DEF PCs, Down
  <2>2. /\ server'[p].pc = "refused" /\ server'[p].start = 0
        /\ server'[p].memory = Nothing /\ starts' = starts
    BY <1>1, <2>1, StaysSame DEF Moved
  <2>3. Itself(p)'
    <3>1. server'[p].start \in 0 .. starts'
      BY <1>2, <2>2
    <3> QED
      BY <1>2, <2>2, <3>1 DEF Itself, At, Loading, Filled
  <2>4. Progress(p)'
    BY <2>2 DEF Progress, At, Loading, Filled
  <2>5. Mine(p)'
    BY <2>2 DEF Mine, InMemory, At, Inserting
  <2> QED
    BY <1>1, <2>1, <2>3, <2>4, <2>5, QueryKeeps
<1> QED
  BY <1>3, <1>4 DEF Register
-----------------------------------------------------------------------------
(* Starting and dying *)

\* The first state: a new database, an old one, or a complete one, and nobody up.
LEMMA InitInv ==
    ASSUME Init
    PROVE  Inv
<1>1. \A p \in Servers : server[p] = Process("down", 0, FALSE)
  BY DEF Init
<1>2. \A p \in Servers : /\ server[p].pc = "down" /\ server[p].start = 0
                         /\ server[p].memory = Nothing /\ server[p].alone = FALSE
  BY <1>1 DEF Process
<1>3. Process("down", 0, FALSE) \in Processes
  BY NothingTyped DEF Process, Processes, PCs, Down
<1>4. server \in [Servers -> Processes]
  BY <1>3 DEF Init
<1>5. /\ portals = [l \in LinkSet |-> IF tiles[Link(l).from] = None THEN 0 ELSE 1]
      /\ spawns = [z \in ZoneSet |-> IF tiles[z] = None THEN 0 ELSE 1]
      /\ npcSlots = spawns /\ starts = 0
  BY DEF Init
<1>6. ASSUME NEW z \in ZoneSet
      PROVE  /\ tiles[z] = None => Empty(z)
             /\ tiles[z] = Outgoing(z) => Full(z)
  <2>1. \A l \in Outgoing(z) : l \in LinkSet /\ Link(l).from = z
    BY DEF Outgoing
  <2> QED
    BY <1>5, <2>1, Names DEF Empty, Full
<1>7. portals \in [LinkSet -> Nat] /\ spawns \in [ZoneSet -> Nat]
      /\ npcSlots \in [ZoneSet -> Nat]
  BY <1>5
<1>8. /\ zoneTypeColumn \in BOOLEAN /\ starts \in Nat /\ worlds \subseteq 0 .. starts
      /\ zones \in [ZoneSet -> worlds \cup {None}] /\ links \subseteq LinkSet
      /\ tiles \in [ZoneSet -> {None} \cup SUBSET LinkSet]
      /\ \A z \in ZoneSet : tiles[z] \in {None, Outgoing(z)}
      /\ \A z \in ZoneSet : zones[z] = None => tiles[z] = None
      /\ links # {} => \A z \in ZoneSet : zones[z] # None
  <2>1. CASE /\ zoneTypeColumn = FALSE /\ worlds = {} /\ links = {}
             /\ zones = [z \in ZoneSet |-> None] /\ tiles = [z \in ZoneSet |-> None]
    BY <1>5, <2>1
  <2>2. CASE /\ zoneTypeColumn \in BOOLEAN /\ worlds = {OldWorld}
             /\ zones = [z \in ZoneSet |-> OldWorld]
             /\ links = (IF zoneTypeColumn THEN LinkSet ELSE {})
             /\ tiles = [z \in ZoneSet |-> Outgoing(z)]
    <3>1. OldWorld = 0 /\ OldWorld # None
      BY Names DEF OldWorld
    <3>2. links \subseteq LinkSet
      BY <2>2
    <3>3. worlds \subseteq 0 .. starts
      BY <1>5, <2>2, <3>1
    <3>4. tiles \in [ZoneSet -> {None} \cup SUBSET LinkSet]
      BY <2>2, Names
    <3>5. \A z \in ZoneSet : zones[z] # None /\ tiles[z] = Outgoing(z)
      BY <2>2, <3>1
    <3> QED
      BY <1>5, <2>2, <3>2, <3>3, <3>4, <3>5
  <2> QED
    BY <2>1, <2>2 DEF Init
<1>9. TypeInv
  BY <1>4, <1>7, <1>8 DEF TypeInv, Data
<1>10. \A z \in ZoneSet : Full(z) \/ Empty(z)
  BY <1>6, <1>8
<1>11. Keys
  <2>1. \A l \in LinkSet : Link(l).from \in ZoneSet /\ Link(l).to \in ZoneSet
    BY WorldLinks
  <2> QED
    BY <1>6, <1>8, <2>1 DEF Keys
<1>12. ASSUME NEW p \in Servers
       PROVE  Itself(p) /\ Mine(p)
  <2>1. Itself(p)
    <3>1. server[p].start \in 0 .. starts
      BY <1>2, <1>5
    <3> QED
      BY <1>2, <3>1 DEF Itself, At, Loading, Filled
  <2>2. Mine(p)
    BY <1>2 DEF Mine, InMemory, At, Inserting
  <2> QED
    BY <2>1, <2>2
<1>13. Lone
  BY <1>2 DEF Lone, Alone
<1>14. OneByOne
  <2>1. \A p \in Servers : ~ Booting(p)
    BY <1>2 DEF Booting, Down
  <2> QED
    BY <1>10, <1>12, <2>1 DEF OneByOne, Orderly, Sound
<1> QED
  BY <1>9, <1>11, <1>12, <1>13, <1>14 DEF Inv

\* What other servers do not notice: they and the database stay as they are.
LEMMA Elsewhere ==
    ASSUME Inv, NEW p \in Servers, server'[p].pc = server[p].pc,
           server'[p].at = server[p].at, server'[p].links = server[p].links,
           server'[p].memory = server[p].memory, server'[p].start = server[p].start,
           UNCHANGED <<zoneTypeColumn, world, content>>, starts' \in {starts, starts + 1}
    PROVE  Itself(p)' /\ (Progress(p) => Progress(p)') /\ (Mine(p) => Mine(p)')
<1>1. /\ zoneTypeColumn' = zoneTypeColumn /\ worlds' = worlds /\ zones' = zones
      /\ links' = links /\ tiles' = tiles /\ portals' = portals /\ spawns' = spawns
      /\ npcSlots' = npcSlots
  BY DEF world, content
<1>2. Itself(p)'
  <2>1. Itself(p) /\ starts \in Nat
    BY DEF Inv, TypeInv, Data
  <2>2. server'[p].start \in 0 .. starts'
    <3>1. server[p].start \in 0 .. starts
      BY <2>1 DEF Itself
    <3>2. starts' = starts \/ starts' = starts + 1
      OBVIOUS
    <3>3. server'[p].start = server[p].start
      OBVIOUS
    <3> QED
      BY <2>1, <3>1, <3>2, <3>3
  <2> QED
    BY <2>1, <2>2 DEF Itself, At
<1>3. WholeSkeleton' = WholeSkeleton
  BY <1>1 DEF WholeSkeleton, HasMetadata
<1>4. Progress(p) => Progress(p)'
  <2>1. WorldId(p)' = WorldId(p)
    BY DEF WorldId
  <2>2. ASSUME Progress(p)
        PROVE  /\ At(p, "alter")' => ~ zoneTypeColumn'
               /\ At(p, "metadata")' => links' = LinkSet
               /\ At(p, "insert world")' => links' = {} /\ \A z \in ZoneSet : zones'[z] = None
    <3>1. At(p, "alter")' => ~ zoneTypeColumn'
      <4>1. At(p, "alter") => ~ zoneTypeColumn
        BY <2>2, Zenon DEF Progress
      <4>2. At(p, "alter")' => At(p, "alter")
        BY DEF At
      <4>3. zoneTypeColumn' <=> zoneTypeColumn
        BY <1>1
      <4> QED
        BY <4>1, <4>2, <4>3
    <3>2. At(p, "metadata")' => links' = LinkSet
      BY <1>1, <2>2 DEF Progress, At
    <3>3. At(p, "insert world")' => links' = {} /\ \A z \in ZoneSet : zones'[z] = None
      BY <1>1, <2>2 DEF Progress, At
    <3> QED
      BY <3>1, <3>2, <3>3
  <2>3. ASSUME Progress(p), At(p, "insert zones")'
        PROVE  /\ WorldId(p)' \in worlds'
               /\ links' = {}
               /\ \A i \in DOMAIN Zones :
                      zones'[Zones[i]] = IF i < server'[p].at THEN WorldId(p)' ELSE None
    BY <1>1, <2>1, <2>3 DEF Progress, At
  <2>4. ASSUME Progress(p), At(p, "insert links")'
        PROVE  /\ WorldId(p)' \in worlds'
               /\ \A z \in ZoneSet : zones'[z] = WorldId(p)'
               /\ links' = {Links[i].id : i \in {j \in DOMAIN Links : j < server'[p].at}}
    BY <1>1, <2>1, <2>4 DEF Progress, At
  <2>5. ASSUME Progress(p)
        PROVE  /\ (server[p].pc \in Loading)' => WholeSkeleton'
               /\ (server[p].pc \in {"read metadata", "read links", "persist"})'
                      => tiles'[p] = None
               /\ At(p, "persist")' => server'[p].links = Outgoing(p)
               /\ (server[p].pc \in {"load tiles"} \cup Filled)' => tiles'[p] # None
    BY <1>1, <1>3, <2>5 DEF Progress, At
  <2> QED
    BY <2>2, <2>3, <2>4, <2>5 DEF Progress
<1>5. \A z \in ZoneSet : Empty(z)' = Empty(z)
  BY <1>1 DEF Empty
<1>6. Mine(p) => Mine(p)'
  BY <1>3, <1>5 DEF Mine, InMemory, At
<1> QED
  BY <1>2, <1>4, <1>6

LEMMA DatabaseStays ==
    ASSUME Inv, UNCHANGED <<zoneTypeColumn, world, content>>, starts' \in {starts, starts + 1}
    PROVE  Data' /\ Keys' /\ (Sound => Sound')
<1>1. /\ zoneTypeColumn' = zoneTypeColumn /\ worlds' = worlds /\ zones' = zones
      /\ links' = links /\ tiles' = tiles /\ portals' = portals /\ spawns' = spawns
      /\ npcSlots' = npcSlots
  BY DEF world, content
<1>2. Data /\ Keys
  BY DEF Inv, TypeInv
<1>3. starts' \in Nat /\ worlds' \subseteq 0 .. starts'
  BY <1>1, <1>2 DEF Data
<1>4. Data'
  BY <1>1, <1>2, <1>3 DEF Data
<1>5. Keys'
  BY <1>1, <1>2 DEF Keys, Empty
<1>6. Sound => Sound'
  BY <1>1 DEF Sound, WholeSkeleton, HasMetadata, Full, Empty
<1> QED
  BY <1>4, <1>5, <1>6

\* A server starts: alone if no other one is on its way, and then none of those that are
\* on their way is alone any longer.
LEMMA LaunchKeeps ==
    ASSUME Inv, NEW p \in Servers, Launch(p)
    PROVE  Inv'
<1> DEFINE others == {q \in Servers : Booting(q)}
<1>1. /\ server[p].pc \in Down /\ starts' = starts + 1
      /\ server' = [q \in Servers |->
                        IF q = p THEN Process("column", starts + 1, others = {})
                        ELSE [server[q] EXCEPT !.alone = @ /\ ~ Booting(q)]]
      /\ overlapped' = (overlapped \/ others # {})
      /\ UNCHANGED <<zoneTypeColumn, world, content>>
  BY DEF Launch
<1>2. TypeInv /\ starts \in Nat
  BY DEF Inv, TypeInv, Data
<1>3. server'[p] = Process("column", starts + 1, others = {})
  BY <1>1
<1>4. /\ server'[p].pc = "column" /\ server'[p].start = starts + 1
      /\ server'[p].memory = Nothing /\ server'[p].alone = (others = {})
  BY <1>3 DEF Process
<1>5. ASSUME NEW q \in Servers, q # p
      PROVE  /\ server'[q].pc = server[q].pc /\ server'[q].at = server[q].at
             /\ server'[q].links = server[q].links /\ server'[q].memory = server[q].memory
             /\ server'[q].start = server[q].start
             /\ server'[q].alone = (server[q].alone /\ ~ Booting(q))
             /\ server'[q] \in Processes
  <2> DEFINE a == server[q].alone /\ ~ Booting(q)
  <2>1. server[q] \in Processes
    BY <1>2 DEF TypeInv
  <2>2. server'[q] = [server[q] EXCEPT !.alone = a]
    BY <1>1, <1>5
  <2>3. a \in BOOLEAN
    OBVIOUS
  <2> HIDE DEF a
  <2>4. /\ server'[q].pc = server[q].pc /\ server'[q].at = server[q].at
        /\ server'[q].links = server[q].links /\ server'[q].memory = server[q].memory
        /\ server'[q].start = server[q].start /\ server'[q].alone = a
    BY <2>1, <2>2 DEF Processes
  <2>5. server'[q] \in Processes
    BY <2>1, <2>2, <2>3 DEF Processes
  <2> QED
    BY <2>4, <2>5 DEF a
<1>6. TypeInv'
  <2>1. server'[p] \in Processes
    <3> DEFINE a == others = {}
               n == starts + 1
    <3>1. a \in BOOLEAN /\ n \in Nat /\ "column" \in PCs
      BY <1>2 DEF PCs, Asking
    <3>2. server'[p] = Process("column", n, a)
      BY <1>3
    <3> HIDE DEF a, n
    <3> QED
      BY <3>1, <3>2, NothingTyped DEF Process, Processes
  <2>2. server' \in [Servers -> Processes]
    <3>1. \A q \in Servers : server'[q] \in Processes
      BY <1>5, <2>1
    <3>2. DOMAIN server' = Servers /\ server' = [q \in Servers |-> server'[q]]
      BY <1>1
    <3> QED
      BY <3>1, <3>2
  <2> QED
    BY <1>1, <2>2, DatabaseStays DEF TypeInv
<1>7. Keys' /\ (Sound => Sound')
  BY <1>1, DatabaseStays
<1>8. ASSUME NEW q \in Servers
      PROVE  Itself(q)'
  <2>1. CASE q = p
    <3>1. server'[p].start \in 0 .. starts'
      BY <1>1, <1>2, <1>4
    <3> QED
      BY <1>4, <2>1, <3>1 DEF Itself, At, Loading, Filled
  <2>2. CASE q # p
    BY <1>1, <1>5, <2>2, Elsewhere
  <2> QED
    BY <2>1, <2>2
<1>9. ASSUME NEW q \in Servers, Alone(q)'
      PROVE  q = p /\ others = {}
  BY <1>4, <1>5, <1>9 DEF Alone, Booting
<1>10. Progress(p)' /\ Mine(p)'
  BY <1>4 DEF Progress, Mine, InMemory, At, Loading, Filled, Inserting
<1>11. Lone'
  <2>1. ASSUME NEW q \in Servers, server'[q].alone
        PROVE  server'[q].pc # "failed"
    BY <1>4, <1>5, <2>1 DEF Inv, Lone
  <2>2. ASSUME NEW q \in Servers, NEW r \in Servers, Alone(q)', q # r
        PROVE  ~ Booting(r)'
    <3>1. q = p /\ ~ Booting(r)
      BY <1>9, <2>2
    <3> QED
      BY <1>5, <2>2, <3>1 DEF Booting
  <2>3. ASSUME NEW q \in Servers, Alone(q)'
        PROVE  Progress(q)'
    BY <1>9, <1>10, <2>3
  <2> QED
    BY <2>1, <2>2, <2>3 DEF Lone
<1>12. OneByOne'
  <2> SUFFICES ASSUME ~ overlapped'
               PROVE  Orderly'
    BY DEF OneByOne
  <2>1. others = {} /\ Orderly
    BY <1>1 DEF Inv, OneByOne
  <2>2. ASSUME NEW q \in Servers, Booting(q)'
        PROVE  server'[q].alone
    <3>1. CASE q = p
      BY <1>4, <2>1, <3>1
    <3>2. CASE q # p
      BY <1>5, <2>1, <2>2, <3>2 DEF Booting
    <3> QED
      BY <3>1, <3>2
  <2>3. ASSUME NEW q \in Servers
        PROVE  Mine(q)'
    <3>1. CASE q # p
      BY <1>1, <1>5, <2>1, <3>1, Elsewhere DEF Orderly
    <3> QED
      BY <1>10, <3>1
  <2> QED
    BY <1>7, <2>1, <2>2, <2>3 DEF Orderly
<1> QED
  BY <1>6, <1>7, <1>8, <1>11, <1>12 DEF Inv

\* A server is killed.
LEMMA KillKeeps ==
    ASSUME Inv, NEW p \in Servers, Kill(p)
    PROVE  Inv'
<1>1. /\ server' = [server EXCEPT ![p] = Process("down", 0, FALSE)]
      /\ UNCHANGED <<zoneTypeColumn, world, content>>
      /\ starts' = starts /\ overlapped' = overlapped
  BY DEF Kill
<1>2. TypeInv /\ server \in [Servers -> Processes] /\ starts \in Nat
  BY DEF Inv, TypeInv, Data
<1>3. server'[p] = Process("down", 0, FALSE)
  BY <1>1, <1>2
<1>4. /\ server'[p].pc = "down" /\ server'[p].start = 0
      /\ server'[p].memory = Nothing /\ server'[p].alone = FALSE
  BY <1>3 DEF Process
<1>5. \A q \in Servers : q # p => server'[q] = server[q]
  BY <1>1, <1>2
<1>6. TypeInv'
  <2>1. Process("down", 0, FALSE) \in Processes
    BY NothingTyped DEF Process, Processes, PCs, Down
  <2>2. server' \in [Servers -> Processes]
    BY <1>1, <1>2, <2>1
  <2> QED
    BY <1>1, <2>2, DatabaseStays DEF TypeInv
<1>7. Keys' /\ (Sound => Sound')
  BY <1>1, DatabaseStays
<1>8. ASSUME NEW q \in Servers, q # p
      PROVE  Itself(q)' /\ (Progress(q) => Progress(q)') /\ (Mine(q) => Mine(q)')
  BY <1>1, <1>5, <1>8, Elsewhere
<1>9. Itself(p)' /\ Mine(p)'
  <2>1. server'[p].start \in 0 .. starts'
    <3>1. server'[p].start = 0 /\ starts' \in Nat
      BY <1>1, <1>2, <1>4
    <3> QED
      BY <3>1
  <2>2. Itself(p)'
    BY <1>4, <2>1 DEF Itself, At, Loading, Filled
  <2>3. Mine(p)'
    BY <1>4 DEF Mine, InMemory, At, Inserting
  <2> QED
    BY <2>2, <2>3
<1>10. ASSUME NEW q \in Servers, Booting(q)'
       PROVE  q # p /\ Booting(q)
  BY <1>4, <1>5, <1>10 DEF Booting, Down
<1>11. ASSUME NEW q \in Servers, server'[q].alone
       PROVE  q # p /\ server[q].alone /\ server'[q].pc = server[q].pc
  BY <1>4, <1>5, <1>11
<1>12. \A q \in Servers : Alone(q)' => q # p /\ Alone(q)
  BY <1>10, <1>11 DEF Alone
<1>13. Lone'
  <2>1. \A q \in Servers : server'[q].alone => server'[q].pc # "failed"
    BY <1>11 DEF Inv, Lone
  <2>2. \A q, r \in Servers : Alone(q)' /\ q # r => ~ Booting(r)'
    BY <1>10, <1>12 DEF Inv, Lone
  <2>3. \A q \in Servers : Alone(q)' => Progress(q)'
    BY <1>8, <1>12 DEF Inv, Lone
  <2> QED
    BY <2>1, <2>2, <2>3 DEF Lone
<1>14. OneByOne'
  <2> SUFFICES ASSUME ~ overlapped
               PROVE  Orderly'
    BY <1>1 DEF OneByOne
  <2>1. Orderly
    BY DEF Inv, OneByOne
  <2>2. \A q \in Servers : Booting(q)' => server'[q].alone
    BY <1>5, <1>10, <2>1 DEF Orderly
  <2>3. \A q \in Servers : Mine(q)'
    BY <1>8, <1>9, <2>1 DEF Orderly
  <2> QED
    BY <1>7, <2>1, <2>2, <2>3 DEF Orderly
<1> QED
  BY <1>6, <1>7, <1>8, <1>9, <1>13, <1>14 DEF Inv
-----------------------------------------------------------------------------
(* The theorems *)

LEMMA InvIsInductive ==
    ASSUME Inv, [Next]_vars
    PROVE  Inv'
<1>1. ASSUME NEW p \in Servers, Launch(p)
      PROVE  Inv'
  BY <1>1, LaunchKeeps
<1>2. ASSUME NEW p \in Servers, Kill(p)
      PROVE  Inv'
  BY <1>2, KillKeeps
<1>3. ASSUME NEW p \in Servers, Step(p)
      PROVE  Inv'
  <2>1. CASE LookForColumn(p)
    BY <2>1, LookForColumnKeeps
  <2>2. CASE AlterTable(p)
    BY <2>2, AlterTableKeeps
  <2>3. CASE LookForWorld(p)
    BY <2>3, LookForWorldKeeps
  <2>4. CASE LookForStaleWorld(p)
    BY <2>4, LookForStaleWorldKeeps
  <2>5. CASE ClearTable(p)
    BY <2>5, ClearTableKeeps
  <2>6. CASE InsertWorld(p)
    BY <2>6, InsertWorldKeeps
  <2>7. CASE InsertZone(p)
    BY <2>7, InsertZoneKeeps
  <2>8. CASE InsertLink(p)
    BY <2>8, InsertLinkKeeps
  <2>9. CASE LookForContent(p)
    BY <2>9, LookForContentKeeps
  <2>10. CASE ReadMetadata(p)
    BY <2>10, ReadMetadataKeeps
  <2>11. CASE ReadLinks(p)
    BY <2>11, ReadLinksKeeps
  <2>12. CASE PersistZone(p)
    BY <2>12, PersistZoneKeeps
  <2>13. CASE LoadTiles(p)
    BY <2>13, LoadTilesKeeps
  <2>14. CASE LoadPortals(p)
    BY <2>14, LoadPortalsKeeps
  <2>15. CASE LoadNpcSlots(p)
    BY <2>15, LoadNpcSlotsKeeps
  <2>16. CASE LoadSpawns(p)
    BY <2>16, LoadSpawnsKeeps
  <2>17. CASE Register(p)
    BY <2>17, RegisterKeeps
  <2> QED
    BY <1>3, <2>1, <2>2, <2>3, <2>4, <2>5, <2>6, <2>7, <2>8, <2>9, <2>10, <2>11, <2>12,
       <2>13, <2>14, <2>15, <2>16, <2>17
    DEF Step
<1>4. CASE UNCHANGED vars
  <2>1. /\ UNCHANGED <<zoneTypeColumn, world, content, server, starts, overlapped>>
        /\ \A q \in Servers : server'[q] = server[q]
    BY <1>4 DEF vars
  <2>2. TypeInv' /\ Keys' /\ (Sound => Sound')
    BY <2>1, DatabaseStays DEF Inv, TypeInv
  <2>3. \A q \in Servers : Itself(q)' /\ (Progress(q) => Progress(q)') /\ (Mine(q) => Mine(q)')
    BY <2>1, Elsewhere
  <2>4. \A q \in Servers : Booting(q)' = Booting(q) /\ Alone(q)' = Alone(q)
    BY <2>1 DEF Booting, Alone
  <2>5. Lone'
    BY <2>1, <2>3, <2>4 DEF Inv, Lone
  <2>6. OneByOne'
    BY <2>1, <2>2, <2>3, <2>4 DEF Inv, OneByOne, Orderly
  <2> QED
    BY <2>2, <2>3, <2>5, <2>6 DEF Inv
<1> QED
  BY <1>1, <1>2, <1>3, <1>4 DEF Next

\* In every state of every start-up, what each server knows of the database holds.
THEOREM Invariance == Spec => []Inv
<1>1. Init => Inv
  BY InitInv
<1>2. Inv /\ [Next]_vars => Inv'
  BY InvIsInductive
<1> QED
  BY <1>1, <1>2, PTL DEF Spec

\* The rows of the database keep the types and the keys of the schema whoever writes them
\* in whatever order, and a zone is served with its tiles (initializeSchema, loadZoneData).
THEOREM TypeCorrect == Spec => []TypeOK
<1>1. Inv => TypeOK
  <2> SUFFICES ASSUME Inv
               PROVE  TypeOK
    OBVIOUS
  <2>1. zoneTypeColumn \in BOOLEAN /\ worlds \subseteq 0 .. starts
    BY DEF Inv, TypeInv, Data
  <2>2. ASSUME NEW z \in ZoneSet
        PROVE  /\ zones[z] \in worlds \cup {None}
               /\ tiles[z] # None => zones[z] # None /\ tiles[z] \subseteq Outgoing(z)
               /\ zones[z] = None => spawns[z] = 0 /\ npcSlots[z] = 0
    <3>1. zones[z] \in worlds \cup {None}
      BY DEF Inv, TypeInv, Data
    <3> QED
      BY <3>1 DEF Inv, Keys, Empty
  <2>3. \A l \in links : zones[Link(l).from] # None /\ zones[Link(l).to] # None
    BY DEF Inv, Keys
  <2>4. ASSUME NEW p \in Servers
        PROVE  /\ server[p].start \in 0 .. starts
               /\ At(p, "serving") => (server[p].memory = Nothing <=> p = Login)
    <3>1. Itself(p)
      BY DEF Inv
    <3>2. Nothing.tiles = None
      BY DEF Nothing
    <3> QED
      BY <3>1, <3>2 DEF Itself, At
  <2> QED
    BY <2>1, <2>2, <2>3, <2>4 DEF TypeOK
<1> QED
  BY <1>1, Invariance, PTL

\* Whatever kills and races have left in the database, a server that comes up while no
\* other one does is not turned away by it (isWorldSkeletonComplete and clearWorld against
\* the keys of the schema, hasZoneContent, validateZone).
THEOREM LoneStartsSucceed == Spec => []LoneStartSucceeds
<1>1. Inv => LoneStartSucceeds
  BY DEF Inv, Lone, LoneStartSucceeds
<1> QED
  BY <1>1, Invariance, PTL

\* If servers come up one after the other, wherever they were killed, then a zone server
\* that is up serves its zone whole, with each row of it once (ensureZoneGenerated). That
\* its players get about in it is said of the zones that OpenZones has, an operator that
\* paints and walks the tiles: that it has all of those that run is for TLC to compute.
THEOREM WholeZonesAreServed ==
    ASSUME Running \subseteq OpenZones
    PROVE  Spec => []ServedWhole
<1>1. Inv => ServedWhole
  <2> SUFFICES ASSUME Inv, NEW p \in Running, At(p, "serving"), ~ overlapped
               PROVE  server[p].memory = Whole(p)
    BY DEF ServedWhole
  <2>1. p \in Servers /\ p # Login
    BY ServersAssumption DEF Servers
  <2>2. InMemory(p)
    BY <2>1 DEF Inv, OneByOne, Orderly, Mine
  <2>3. server[p].memory = Read(p, TRUE, TRUE, TRUE)
    BY <2>2 DEF InMemory, At
  <2> QED
    BY <2>3 DEF Read, Whole
<1> QED
  BY <1>1, Invariance, PTL

\* As long as servers come up one after the other, no start clears or replaces a world
\* that is complete, or the tiles of a zone in it (isWorldSkeletonComplete).
THEOREM CompleteWorldsAreKept == Spec => WorldIsKept
<1> DEFINE Kept == ~ overlapped' /\ links = LinkSet /\ (\A z \in ZoneSet : HasMetadata(z))
                       => /\ world' = world
                          /\ \A z \in ZoneSet : tiles[z] # None => tiles'[z] = tiles[z]
<1>1. ASSUME Inv, Next
      PROVE  Kept
  <2> SUFFICES ASSUME ~ overlapped', WholeSkeleton
               PROVE  world' = world /\ \A z \in ZoneSet : tiles[z] # None => tiles'[z] = tiles[z]
    BY DEF WholeSkeleton
  <2>1. PICK p \in Servers : Launch(p) \/ Kill(p) \/ Step(p)
    BY <1>1 DEF Next
  <2>2. CASE Launch(p) \/ Kill(p)
    BY <2>2 DEF Launch, Kill, world, content
  <2>3. CASE UNCHANGED <<world, content>>
    BY <2>3 DEF world, content
  <2>4. ASSUME Booting(p), overlapped' = overlapped
        PROVE  Progress(p) /\ Mine(p)
    BY <1>1, <2>4 DEF Inv, OneByOne, Orderly, Lone, Alone
  <2>5. ~ ClearTable(p)
    <3> SUFFICES ASSUME ClearTable(p)
                 PROVE  FALSE
      OBVIOUS
    <3>1. At(p, "clear") /\ Booting(p) /\ overlapped' = overlapped
      BY DEF ClearTable, Same, Booting, At, Down
    <3> QED
      BY <2>4, <3>1 DEF Mine, At
  <2>6. ~ InsertWorld(p)
    <3> SUFFICES ASSUME InsertWorld(p)
                 PROVE  FALSE
      OBVIOUS
    <3>1. At(p, "insert world") /\ Booting(p) /\ overlapped' = overlapped
      BY DEF InsertWorld, Same, Booting, At, Down
    <3> QED
      BY <2>4, <3>1, Names DEF Progress, WholeSkeleton
  <2>7. ~ InsertZone(p)
    <3> SUFFICES ASSUME InsertZone(p)
                 PROVE  FALSE
      OBVIOUS
    <3>1. At(p, "insert zones") /\ Booting(p) /\ overlapped' = overlapped
      BY DEF InsertZone, Same, Booting, At, Down
    <3> QED
      BY <2>4, <3>1, Names DEF Progress, WholeSkeleton
  <2>8. CASE InsertLink(p)
    <3>1. At(p, "insert links") /\ Booting(p) /\ UNCHANGED <<worlds, zones, content>>
      BY <2>8 DEF InsertLink, Booting, At, Down
    <3>2. Links[server[p].at].id \in LinkSet
      BY <1>1, <3>1, WorldLinks DEF Inv, Itself
    <3>3. links' = links
      BY <2>8, <3>2 DEF InsertLink, WholeSkeleton
    <3> QED
      BY <3>1, <3>3 DEF world, content
  <2>9. CASE PersistZone(p)
    <3>1. /\ UNCHANGED world
          /\ tiles' = tiles \/ (tiles[p] = None /\ tiles' = [tiles EXCEPT ![p] = server[p].links])
      BY <2>9 DEF PersistZone, content
    <3>2. tiles \in [ZoneSet -> {None} \cup SUBSET LinkSet]
      BY <1>1 DEF Inv, TypeInv, Data
    <3> QED
      BY <3>1, <3>2
  <2>10. CASE LookForColumn(p) \/ AlterTable(p) \/ LookForWorld(p) \/ LookForStaleWorld(p)
    BY <2>3, <2>10 DEF LookForColumn, AlterTable, LookForWorld, LookForStaleWorld
  <2>11. CASE LookForContent(p) \/ ReadMetadata(p) \/ ReadLinks(p) \/ Register(p)
    BY <2>3, <2>11 DEF LookForContent, ReadMetadata, ReadLinks, Register
  <2>12. CASE LoadTiles(p) \/ LoadPortals(p) \/ LoadNpcSlots(p) \/ LoadSpawns(p)
    BY <2>3, <2>12 DEF LoadTiles, LoadPortals, LoadNpcSlots, LoadSpawns, Load
  <2> QED
    BY <2>1, <2>2, <2>5, <2>6, <2>7, <2>8, <2>9, <2>10, <2>11, <2>12 DEF Step
<1>2. Inv /\ [Next]_vars => [Kept]_vars
  BY <1>1
<1>3. Spec => [][Kept]_vars
  BY <1>2, Invariance, PTL DEF Spec
<1> QED
  BY <1>3 DEF WorldIsKept
=============================================================================
