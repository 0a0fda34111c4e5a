--------------------------- MODULE WorldBootstrap ---------------------------
(***************************************************************************)
(* How the servers of a cluster come up on one database: WorldLogin and    *)
(* every zone server migrate the schema, look for a complete world, clear  *)
(* an incomplete one and write a new one (ensureWorldInDatabase); a zone   *)
(* server then generates its zone if it has no tiles                       *)
(* (ensureZoneGenerated), loads it and registers with WorldLogin.          *)
(*                                                                         *)
(* Nothing keeps the servers from doing this at the same time: a launcher  *)
(* waits for the port of a server, which is open before the server looks   *)
(* at the database.  Every SQL statement is a step of its own, but for the *)
(* transaction that persists a zone, and a server can be killed between    *)
(* any two of them.  A statement that fails, because the database stayed   *)
(* busy for longer than busy_timeout, say, ends its server as a kill does. *)
(* Statements that change and return nothing modelled here (the CREATE     *)
(* TABLE IF NOT EXISTS ones, the DELETE of the triggers, of which there    *)
(* are none, and WorldLogin's second look at a schema that is complete by  *)
(* then) are part of the step before them.                                 *)
(***************************************************************************)
EXTENDS ZoneGenerator

CONSTANTS
    Login,          \* WorldLogin, next to the zone servers
    Running,        \* the zones that have a server
    None,
    MaxStarts,      \* bound of this model: starts of a server, all told
    MaxBooting,     \* bound of this model: servers that come up at the same time
    MaxKills        \* bound of this model: servers killed while they come up or serve

ASSUME ServersAssumption ==
    /\ Running \subseteq ZoneSet
    /\ Login \notin ZoneSet
    /\ None \notin ZoneSet /\ None \notin Nat
    /\ \A drawn \in SUBSET LinkSet : drawn # None
ASSUME BoundsAssumption ==
    MaxStarts \in Nat /\ MaxBooting \in Nat /\ MaxKills \in Nat

\* What the generator makes passes its own validator.
ASSUME GeneratorAssumption ==
    /\ SkeletonIsValid
    /\ \A zone \in Running : <<zone, Outgoing(zone)>> \in ValidPlans

VARIABLES
    zoneTypeColumn, \* whether the table zones has that column
    worlds,         \* ids of the rows of worlds
    zones,          \* zone -> world id of its row, or None
    links,          \* rows of zone_links
    tiles,          \* zone -> the links whose pads are drawn in its tiles, or None
    portals,        \* link -> rows of zone_portals
    spawns, npcSlots,   \* zone -> copies of its rows
    server,         \* server -> its process
    starts, kills,  \* how much of those bounds is used up
    overlapped      \* whether two servers ever came up at the same time

world   == <<worlds, zones, links>>
content == <<tiles, portals, spawns, npcSlots>>
vars    == <<zoneTypeColumn, world, content, server, starts, kills, overlapped>>

Servers == Running \cup {Login}

Down == {"down", "failed", "refused"}

Booting(p) == server[p].pc \notin Down \cup {"serving"}

\* A server on its way: what it does next, the element of a list it is at, the links it
\* read, the zone it has in memory, which start it was, and whether it came up alone so far.
Nothing == [tiles |-> None, portals |-> <<>>, spawns |-> 0, npcSlots |-> 0]

Process(pc, start, alone) ==
    [pc |-> pc, at |-> 1, links |-> {}, memory |-> Nothing, start |-> start, alone |-> alone]

Goto(p, pc) == server' = [server EXCEPT ![p].pc = pc, ![p].at = 1]

Exit(p, pc) == server' = [server EXCEPT ![p] = Process(pc, 0, @.alone)]

Fail(p) == Exit(p, "failed")

At(p, pc) == server[p].pc = pc

Same == UNCHANGED <<starts, kills, overlapped>>

\* AUTOINCREMENT never gives an id twice; 0 is that of a world from an earlier cluster.
WorldId(p) == server[p].start
OldWorld   == 0

\* JOIN worlds: the metadata of a zone whose world is there.
HasMetadata(zone) == zones[zone] \in worlds
-----------------------------------------------------------------------------
(* Starting and dying *)

\* The launcher starts a zone server once the port of WorldLogin is open.
Launch(p) ==
    LET others == {q \in Servers : Booting(q)}
    IN  /\ server[p].pc \in Down
        /\ starts < MaxStarts
        /\ starts' = starts + 1
        /\ p # Login => server[Login].pc \notin Down
        /\ Cardinality(others) < MaxBooting
        /\ server' = [q \in Servers |->
                          IF q = p THEN Process("column", starts + 1, others = {})
                          ELSE [server[q] EXCEPT !.alone = @ /\ ~ Booting(q)]]
        /\ overlapped' = (overlapped \/ others # {})
        /\ UNCHANGED <<zoneTypeColumn, world, content, kills>>

Kill(p) ==
    /\ server[p].pc \notin Down
    /\ kills < MaxKills
    /\ kills' = kills + 1
    /\ server' = [server EXCEPT ![p] = Process("down", 0, FALSE)]
    /\ UNCHANGED <<zoneTypeColumn, world, content, starts, overlapped>>
-----------------------------------------------------------------------------
(* initializeSchema *)

LookForColumn(p) ==
    /\ At(p, "column")
    /\ Goto(p, IF zoneTypeColumn THEN "has world" ELSE "alter")
    /\ Same /\ UNCHANGED <<zoneTypeColumn, world, content>>

\* ALTER TABLE fails when another server has added the column meanwhile.
AlterTable(p) ==
    /\ At(p, "alter")
    /\ zoneTypeColumn' = TRUE
    /\ IF zoneTypeColumn THEN Fail(p) ELSE Goto(p, "has world")
    /\ Same /\ UNCHANGED <<world, content>>
-----------------------------------------------------------------------------
(* ensureWorldInDatabase *)

AfterTheWorld(p) == IF p = Login THEN "serving" ELSE "has content"

\* Slip: a link too few is asked for, so that the whole world counts as incomplete.
Complete_OldLinks(p, query) ==
    CASE query = "has world" -> worlds # {}
      [] query = "zones"     -> {z \in ZoneSet : zones[z] # None} = ZoneSet
      [] query = "links"     -> Cardinality(links) = 3
      [] query = "metadata"  -> \A z \in ZoneSet : HasMetadata(z)

\* isWorldSkeletonComplete, one query after the other: what it asks, and what comes next.
Complete(p, query) ==
    CASE query = "has world" -> worlds # {}
      [] query = "zones"     -> {z \in ZoneSet : zones[z] # None} = ZoneSet
      [] query = "links"     -> Cardinality(links) = 4
      [] query = "metadata"  -> \A z \in ZoneSet : HasMetadata(z)

NextQuery(p, query) ==
    CASE query = "has world" -> "zones"
      [] query = "zones"     -> "links"
      [] query = "links"     -> "metadata"
      [] query = "metadata"  -> AfterTheWorld(p)

LookForWorld(p) ==
    /\ server[p].pc \in {"has world", "zones", "links", "metadata"}
    /\ Goto(p, IF Complete(p, server[p].pc) THEN NextQuery(p, server[p].pc) ELSE "stale world")
    /\ Same /\ UNCHANGED <<zoneTypeColumn, world, content>>

\* Slip: rows that are there are left there.
StaleWorld_Kept(p) == "insert world"

StaleWorld(p) == IF worlds # {} THEN "clear" ELSE "insert world"

LookForStaleWorld(p) ==
    /\ At(p, "stale world")
    /\ Goto(p, StaleWorld(p))
    /\ Same /\ UNCHANGED <<zoneTypeColumn, world, content>>

\* The tables that clearWorld empties, in its order.
Cleared == <<"zone_npc_slots", "zone_spawns", "zone_portals", "zone_tiles", "zone_links", "zones",
             "worlds">>

\* Slip: the rows of a zone stay when the zone goes (foreign_keys off).
ClearTable_NoCascade(p) ==
    LET table == Cleared[server[p].at]
    IN  /\ At(p, "clear")
        /\ worlds' = IF table = "worlds" THEN {} ELSE worlds
        /\ zones' = IF table \in {"zones", "worlds"} THEN [z \in ZoneSet |-> None] ELSE zones
        /\ links' = IF table = "zone_links" THEN {} ELSE links
        /\ tiles' = IF table = "zone_tiles" THEN [z \in ZoneSet |-> None] ELSE tiles
        /\ portals' = IF table = "zone_portals" THEN [l \in LinkSet |-> 0] ELSE portals
        /\ spawns' = IF table = "zone_spawns" THEN [z \in ZoneSet |-> 0] ELSE spawns
        /\ npcSlots' = IF table = "zone_npc_slots" THEN [z \in ZoneSet |-> 0] ELSE npcSlots
        /\ IF server[p].at = Len(Cleared) THEN Goto(p, "insert world")
           ELSE server' = [server EXCEPT ![p].at = @ + 1]
        /\ Same /\ UNCHANGED zoneTypeColumn

\* A DELETE of clearWorld. Rows that belong to a zone or to a world go with it.
ClearTable(p) ==
    LET table == Cleared[server[p].at]
        Gone(t) == table \in {t, "zones", "worlds"}
    IN  /\ At(p, "clear")
        /\ worlds' = IF table = "worlds" THEN {} ELSE worlds
        /\ zones' = IF table \in {"zones", "worlds"} THEN [z \in ZoneSet |-> None] ELSE zones
        /\ links' = IF Gone("zone_links") THEN {} ELSE links
        /\ tiles' = IF Gone("zone_tiles") THEN [z \in ZoneSet |-> None] ELSE tiles
        /\ portals' = IF Gone("zone_portals") THEN [l \in LinkSet |-> 0] ELSE portals
        /\ spawns' = IF Gone("zone_spawns") THEN [z \in ZoneSet |-> 0] ELSE spawns
        /\ npcSlots' = IF Gone("zone_npc_slots") THEN [z \in ZoneSet |-> 0] ELSE npcSlots
        /\ IF server[p].at = Len(Cleared) THEN Goto(p, "insert world")
           ELSE server' = [server EXCEPT ![p].at = @ + 1]
        /\ Same /\ UNCHANGED zoneTypeColumn

\* writeWorldSkeletonToDatabase validates the skeleton before it writes any of it.
InsertWorld(p) ==
    /\ At(p, "insert world")
    /\ IF SkeletonIsValid
       THEN worlds' = worlds \cup {WorldId(p)} /\ Goto(p, "insert zones")
       ELSE UNCHANGED worlds /\ Fail(p)
    /\ Same /\ UNCHANGED <<zoneTypeColumn, zones, links, content>>

\* The id of a zone is a primary key, its world a foreign one.
InsertZone(p) ==
    LET zone == Zones[server[p].at]
    IN  /\ At(p, "insert zones")
        /\ IF zones[zone] = None /\ WorldId(p) \in worlds
           THEN /\ zones' = [zones EXCEPT ![zone] = WorldId(p)]
                /\ IF server[p].at = Len(Zones) THEN Goto(p, "insert links")
                   ELSE server' = [server EXCEPT ![p].at = @ + 1]
           ELSE UNCHANGED zones /\ Fail(p)
        /\ Same /\ UNCHANGED <<zoneTypeColumn, worlds, links, content>>

InsertLink(p) ==
    LET link == Links[server[p].at]
    IN  /\ At(p, "insert links")
        /\ IF link.id \notin links /\ zones[link.from] # None /\ zones[link.to] # None
           THEN /\ links' = links \cup {link.id}
                /\ IF server[p].at = Len(Links) THEN Goto(p, AfterTheWorld(p))
                   ELSE server' = [server EXCEPT ![p].at = @ + 1]
           ELSE UNCHANGED links /\ Fail(p)
        /\ Same /\ UNCHANGED <<zoneTypeColumn, worlds, zones, content>>
-----------------------------------------------------------------------------
(* ensureZoneGenerated *)

LookForContent(p) ==
    /\ At(p, "has content")
    /\ Goto(p, IF tiles[p] # None THEN "load tiles" ELSE "read metadata")
    /\ Same /\ UNCHANGED <<zoneTypeColumn, world, content>>

ReadMetadata(p) ==
    /\ At(p, "read metadata")
    /\ IF HasMetadata(p) THEN Goto(p, "read links") ELSE Fail(p)
    /\ Same /\ UNCHANGED <<zoneTypeColumn, world, content>>

ReadLinks(p) ==
    /\ At(p, "read links")
    /\ server' = [server EXCEPT ![p].pc = "persist", ![p].links = links \cap Outgoing(p)]
    /\ Same /\ UNCHANGED <<zoneTypeColumn, world, content>>

\* Slip: the tiles are committed before the rest of the zone.
PersistZone_NoTransaction(p) ==
    LET drawn == server[p].links
    IN  /\ At(p, "persist")
        /\ IF zones[p] = None THEN Fail(p) /\ UNCHANGED content
           ELSE IF tiles[p] = None
           THEN /\ tiles' = [tiles EXCEPT ![p] = drawn]
                /\ UNCHANGED <<server, portals, spawns, npcSlots>>
           ELSE /\ portals' = [l \in LinkSet |-> portals[l] + IF l \in drawn THEN 1 ELSE 0]
                /\ spawns' = [spawns EXCEPT ![p] = @ + 1]
                /\ npcSlots' = [npcSlots EXCEPT ![p] = @ + 1]
                /\ Goto(p, "load tiles")
                /\ UNCHANGED tiles
        /\ Same /\ UNCHANGED <<zoneTypeColumn, world>>

\* The zone is generated and validated, and persisted in a transaction, whose first
\* INSERT fails if the zone has tiles by now, or no row any more.
PersistZone(p) ==
    LET drawn == server[p].links
    IN  /\ At(p, "persist")
        /\ IF <<p, drawn>> \in ValidPlans /\ tiles[p] = None /\ zones[p] # None
           THEN /\ tiles' = [tiles EXCEPT ![p] = drawn]
                /\ portals' = [l \in LinkSet |-> portals[l] + IF l \in drawn THEN 1 ELSE 0]
                /\ spawns' = [spawns EXCEPT ![p] = @ + 1]
                /\ npcSlots' = [npcSlots EXCEPT ![p] = @ + 1]
                /\ Goto(p, "load tiles")
           ELSE UNCHANGED content /\ Fail(p)
        /\ Same /\ UNCHANGED <<zoneTypeColumn, world>>
-----------------------------------------------------------------------------
(* loadZoneData, spawnNpcEntities, loadZoneSpawns and connectAndRegister *)

Load(p, memory, next) ==
    /\ server' = [server EXCEPT ![p].pc = next, ![p].memory = memory]
    /\ Same /\ UNCHANGED <<zoneTypeColumn, world, content>>

LoadTiles(p) ==
    /\ At(p, "load tiles")
    /\ IF HasMetadata(p) /\ tiles[p] # None
       THEN Load(p, [Nothing EXCEPT !.tiles = tiles[p]], "load portals")
       ELSE Fail(p) /\ Same /\ UNCHANGED <<zoneTypeColumn, world, content>>

LoadPortals(p) ==
    /\ At(p, "load portals")
    /\ Load(p, [server[p].memory EXCEPT !.portals = [l \in Outgoing(p) |-> portals[l]]], "load npcs")

LoadNpcSlots(p) ==
    /\ At(p, "load npcs")
    /\ Load(p, [server[p].memory EXCEPT !.npcSlots = npcSlots[p]], "load spawns")

LoadSpawns(p) ==
    /\ At(p, "load spawns")
    /\ Load(p, [server[p].memory EXCEPT !.spawns = spawns[p]], "register")

\* Slip: the zone server waits for a WorldLogin to come.
Register_Waits(p) ==
    /\ At(p, "register")
    /\ server[Login].pc = "serving"
    /\ Goto(p, "serving")
    /\ Same /\ UNCHANGED <<zoneTypeColumn, world, content>>

\* WorldLogin accepts, or is gone; until it serves, the zone server waits for its answer.
Register(p) ==
    /\ At(p, "register")
    /\ \/ server[Login].pc = "serving" /\ Goto(p, "serving")
       \/ server[Login].pc \in Down /\ Exit(p, "refused")
    /\ Same /\ UNCHANGED <<zoneTypeColumn, world, content>>
-----------------------------------------------------------------------------
\* A new database, one from before zone_links, and one with a world that is complete.
Init ==
    /\ \/ /\ zoneTypeColumn = FALSE
          /\ worlds = {}
          /\ zones = [z \in ZoneSet |-> None]
          /\ links = {}
          /\ tiles = [z \in ZoneSet |-> None]
       \/ /\ zoneTypeColumn \in BOOLEAN
          /\ worlds = {OldWorld}
          /\ zones = [z \in ZoneSet |-> OldWorld]
          /\ links = IF zoneTypeColumn THEN LinkSet ELSE {}
          /\ tiles = [z \in ZoneSet |-> Outgoing(z)]
    /\ portals = [l \in LinkSet |-> IF tiles[Link(l).from] = None THEN 0 ELSE 1]
    /\ spawns = [z \in ZoneSet |-> IF tiles[z] = None THEN 0 ELSE 1]
    /\ npcSlots = spawns
    /\ server = [p \in Servers |-> Process("down", 0, FALSE)]
    /\ starts = 0 /\ kills = 0
    /\ overlapped = FALSE

Step(p) ==
    \/ LookForColumn(p) \/ AlterTable(p)
    \/ LookForWorld(p) \/ LookForStaleWorld(p) \/ ClearTable(p)
    \/ InsertWorld(p) \/ InsertZone(p) \/ InsertLink(p)
    \/ LookForContent(p) \/ ReadMetadata(p) \/ ReadLinks(p) \/ PersistZone(p)
    \/ LoadTiles(p) \/ LoadPortals(p) \/ LoadNpcSlots(p) \/ LoadSpawns(p) \/ Register(p)

Next == \E p \in Servers : Launch(p) \/ Kill(p) \/ Step(p)

Spec == Init /\ [][Next]_vars

\* A process that runs goes on. Nobody has to start a server, or to kill one.
FairSpec == Spec /\ \A p \in Servers : WF_vars(Step(p))
-----------------------------------------------------------------------------
(* Properties *)

TypeOK ==
    /\ zoneTypeColumn \in BOOLEAN
    /\ worlds \subseteq 0 .. starts
    /\ \A z \in ZoneSet : /\ zones[z] \in worlds \cup {None}
                          /\ tiles[z] # None => zones[z] # None /\ tiles[z] \subseteq Outgoing(z)
                          /\ zones[z] = None => spawns[z] = 0 /\ npcSlots[z] = 0
    /\ \A l \in links : zones[Link(l).from] # None /\ zones[Link(l).to] # None
    /\ \A p \in Servers : /\ server[p].start \in 0 .. starts
                          /\ At(p, "serving") => (server[p].memory = Nothing <=> p = Login)

\* Whatever kills and races have left in the database, a server that comes up while no
\* other one does is never turned away by it (isWorldSkeletonComplete and clearWorld
\* against the keys of the schema, hasZoneContent, validateZone).
LoneStartSucceeds == \A p \in Servers : server[p].alone => server[p].pc # "failed"

Whole(zone) ==
    [tiles |-> Outgoing(zone), portals |-> [l \in Outgoing(zone) |-> 1], spawns |-> 1, npcSlots |-> 1]

\* If servers come up one after the other, then wherever they were killed, a zone server
\* that is up serves its zone with all of its portals, spawns and NPCs, each of them once
\* (the transaction of ensureZoneGenerated, the complete skeleton before it). And whoever
\* comes in anywhere can walk to every portal, spawn and NPC of such a zone, and so reach
\* every zone (the plans of ZoneGenerator.cpp and the table of PortalPlacementResolver.cpp,
\* which no validator compares with each other).
ServedWhole ==
    \A p \in Running : At(p, "serving") =>
        /\ ~ overlapped => server[p].memory = Whole(p)
        /\ server[p].memory = Whole(p) => p \in OpenZones

\* Once complete, a world is never cleared or replaced by a later start, as long as
\* servers come up one after the other: the zones that serve it and the characters in it
\* keep their places (isWorldSkeletonComplete).
WorldIsKept ==
    [][~ overlapped' /\ links = LinkSet /\ (\A z \in ZoneSet : HasMetadata(z))
           => /\ world' = world
              /\ \A z \in ZoneSet : tiles[z] # None => tiles'[z] = tiles[z]]_vars

\* Every start ends, with a server that serves or that has given up: no two servers wait
\* for each other, not even a zone server for a WorldLogin that dies (connectAndRegister).
EveryStartEnds == \A p \in Servers : Booting(p) ~> ~ Booting(p)
=============================================================================
