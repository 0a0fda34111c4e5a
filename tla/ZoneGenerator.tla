--------------------------- MODULE ZoneGenerator ----------------------------
(***************************************************************************)
(* The starter world and its zones as shared/src/worldgen makes them: the  *)
(* graph of zones and links, the strokes that paint each zone, its         *)
(* portals, spawns and NPC slots, and what WorldValidator asks of them.    *)
(*                                                                         *)
(* A tile is an index of the array of tiles, y * width + x, so that a      *)
(* stroke past the right edge goes on in the next row, as setTile does.  A *)
(* plan is a zone with the links that were read for its portals: all the   *)
(* generator depends on, for the seed is read by nothing.                  *)
(***************************************************************************)
EXTENDS Integers, Sequences, FiniteSets

Zones == <<"starter_city", "starter_hunting", "starter_dungeon">>

ZoneSet == {Zones[i] : i \in DOMAIN Zones}

Links ==
    <<[id |-> "city_to_hunting", from |-> "starter_city", to |-> "starter_hunting"],
      [id |-> "hunting_to_city", from |-> "starter_hunting", to |-> "starter_city"],
      [id |-> "hunting_to_dungeon", from |-> "starter_hunting", to |-> "starter_dungeon"],
      [id |-> "dungeon_to_hunting", from |-> "starter_dungeon", to |-> "starter_hunting"]>>

LinkSet == {Links[i].id : i \in DOMAIN Links}

Link(id) == Links[CHOOSE i \in DOMAIN Links : Links[i].id = id]

Outgoing(zone) == {id \in LinkSet : Link(id).from = zone}

\* zone_templates.json.
Width(zone) == CASE zone = "starter_city" -> 64
                 [] zone = "starter_hunting" -> 128
                 [] zone = "starter_dungeon" -> 48
Height(zone) == Width(zone)

\* mvpPortalTable.
Portal(id) ==
    CASE id = "city_to_hunting"    -> [x |-> 32, y |-> 8, destX |-> 64, destY |-> 64]
      [] id = "hunting_to_city"    -> [x |-> 64, y |-> 8, destX |-> 32, destY |-> 56]
      [] id = "hunting_to_dungeon" -> [x |-> 120, y |-> 64, destX |-> 4, destY |-> 24]
      [] id = "dungeon_to_hunting" -> [x |-> 4, y |-> 24, destX |-> 118, destY |-> 64]
-----------------------------------------------------------------------------
(* Painting *)

Rect(tile, x0, y0, x1, y1) == [tile |-> tile, x0 |-> x0, y0 |-> y0, x1 |-> x1, y1 |-> y1]

\* The ring that the loops over x and over y draw around a zone.
Border(tile, w, h) == <<Rect(tile, 0, 0, w - 1, 0), Rect(tile, 0, h - 1, w - 1, h - 1),
                        Rect(tile, 0, 0, 0, h - 1), Rect(tile, w - 1, 0, w - 1, h - 1)>>

\* makeFilledGrid, then carveRect, carveHorizontalPath and carveVerticalPath in their order.
Strokes(zone) ==
    CASE zone = "starter_city" ->
            <<Rect("grass", 0, 0, 63, 63)>> \o Border("stone_wall", 64, 64) \o
            <<Rect("cobble", 20, 20, 43, 43), Rect("cobble", 8, 32, 56, 32), Rect("cobble", 32, 8, 32, 56)>>
      [] zone = "starter_hunting" ->
            <<Rect("grass", 0, 0, 127, 127)>> \o Border("shallow_water", 128, 128) \o
            <<Rect("dirt", 64, 8, 64, 120), Rect("dirt", 32, 64, 96, 64), Rect("dirt", 40, 96, 88, 96)>>
      [] zone = "starter_dungeon" ->
            <<Rect("stone_wall", 0, 0, 47, 47), Rect("stone_floor", 2, 18, 44, 30),
              Rect("stone_floor", 8, 8, 24, 18), Rect("stone_floor", 22, 6, 42, 24),
              Rect("stone_floor", 28, 24, 44, 40), Rect("stone_floor", 12, 30, 26, 40),
              Rect("stone_floor", 2, 24, 8, 24)>>

Spawns(zone) ==
    CASE zone = "starter_city"    -> {}
      [] zone = "starter_hunting" -> {<<40, 88>>, <<88, 96>>, <<96, 40>>, <<48, 104>>, <<78, 56>>}
      [] zone = "starter_dungeon" -> {<<16, 14>>, <<36, 32>>}

NpcSlots(zone) ==
    CASE zone = "starter_city"    -> {<<24, 28>>, <<38, 28>>, <<30, 36>>, <<34, 36>>, <<32, 40>>}
      [] zone = "starter_hunting" -> {<<66, 64>>}
      [] zone = "starter_dungeon" -> {}

Covers(stroke, w, i) ==
    LET Inside(x, y) == x \in stroke.x0 .. stroke.x1 /\ y \in stroke.y0 .. stroke.y1
    IN  Inside(i % w, i \div w) \/ Inside((i % w) + w, i \div w - 1)

Index(zone, x, y) == y * Width(zone) + x

Tiles(zone) == 0 .. Width(zone) * Height(zone) - 1

\* The pads that applyPortals draws for the links it was given.
Pads(zone, drawn) == {Index(zone, Portal(id).x, Portal(id).y) : id \in drawn} \cap Tiles(zone)

TileAt(zone, drawn, i) ==
    IF i \in Pads(zone, drawn) THEN "portal_pad"
    ELSE LET last == CHOOSE n \in DOMAIN Strokes(zone) :
                         /\ Covers(Strokes(zone)[n], Width(zone), i)
                         /\ \A m \in n + 1 .. Len(Strokes(zone)) :
                                ~ Covers(Strokes(zone)[m], Width(zone), i)
         IN  Strokes(zone)[last].tile

\* tile_defs.json: of the tiles in use, only the walls block. Water does not.
Blocked == {"stone_wall"}

Walkable(zone, drawn) == {i \in Tiles(zone) : TileAt(zone, drawn, i) \notin Blocked}
-----------------------------------------------------------------------------
(* WorldValidator *)

Plans == {<<zone, drawn>> : zone \in ZoneSet, drawn \in SUBSET LinkSet}

Beside(zone, i) ==
    LET w == Width(zone)
    IN  (IF i % w # 0 THEN {i - 1} ELSE {}) \cup (IF i % w # w - 1 THEN {i + 1} ELSE {})
        \cup ({i - w, i + w} \cap Tiles(zone))

\* countSingleTileChokes, which leaves the border out.
Chokes(zone, walkable) ==
    {i \in walkable : /\ i % Width(zone) \in 1 .. Width(zone) - 2
                      /\ i \div Width(zone) \in 1 .. Height(zone) - 2
                      /\ Cardinality(Beside(zone, i) \cap walkable) <= 1}

\* validateZone with the rules of world_rules.json: a ratio of 0.35, 4 chokes.
ValidPlans ==
    {plan \in Plans :
        LET zone == plan[1]
            walkable == Walkable(zone, plan[2])
        IN  /\ plan[2] \subseteq Outgoing(zone)
            /\ 100 * Cardinality(walkable) >= 35 * Cardinality(Tiles(zone))
            /\ Cardinality(Chokes(zone, walkable)) <= 4
            /\ \A id \in plan[2] : Index(zone, Portal(id).x, Portal(id).y) \in Pads(zone, plan[2])}

\* validateSkeleton: graphIsConnectedFromLinks from the first zone, and linkEndpointsExist.
ReachedFrom[seen \in SUBSET ZoneSet] ==
    LET more == seen \cup {Link(id).to : id \in {l \in LinkSet : Link(l).from \in seen}}
    IN  IF more = seen THEN seen ELSE ReachedFrom[more]

SkeletonIsValid ==
    /\ \A id \in LinkSet : Link(id).from \in ZoneSet /\ Link(id).to \in ZoneSet
    /\ ReachedFrom[{Zones[1]}] = ZoneSet
-----------------------------------------------------------------------------
(* What the validator does not look at: whether a player gets about *)

\* Where a player may come in: from a portal, or as a new character in the city.
Arrivals(zone) ==
    {<<Portal(id).destX, Portal(id).destY>> : id \in {l \in LinkSet : Link(l).to = zone}}
    \cup (IF zone = "starter_city" THEN {<<32, 32>>} ELSE {})

Places(zone) == Arrivals(zone) \cup Spawns(zone) \cup NpcSlots(zone)
                \cup {<<Portal(id).x, Portal(id).y>> : id \in Outgoing(zone)}

\* Where a row or a column may differ from the one before. Between two cuts all tiles are
\* alike, so that the walkable tiles at the cuts are connected as all of them are.
Cuts(zone, low, high, axis) ==
    LET edges == UNION {{Strokes(zone)[n][low], Strokes(zone)[n][high] + 1} : n \in DOMAIN Strokes(zone)}
    IN  (edges \cup UNION {{p[axis], p[axis] + 1} : p \in Places(zone)}) \cap (0 .. Width(zone) - 1)

\* The walkable tiles at the cuts which canStepTo leads to from one of them.
Roam(zone, from) ==
    LET xs == Cuts(zone, "x0", "x1", 1)
        ys == Cuts(zone, "y0", "y1", 2)
        open == {t \in xs \X ys : TileAt(zone, Outgoing(zone), Index(zone, t[1], t[2])) \notin Blocked}
        Neighbours(c, cs) == {d \in cs : c # d /\ \A e \in cs : ~ (c < e /\ e < d) /\ ~ (d < e /\ e < c)}
        Near(t) == (Neighbours(t[1], xs) \X {t[2]}) \cup ({t[1]} \X Neighbours(t[2], ys))
        Spread[seen \in SUBSET open, edge \in SUBSET open] ==
            LET next == (UNION {Near(t) : t \in edge} \cap open) \ seen
            IN  IF next = {} THEN seen ELSE Spread[seen \cup next, next]
    IN  Spread[{from} \cap open, {from} \cap open]

\* The zones in which every portal, spawn, NPC and arrival can be walked to from every
\* arrival. One arrives in the dungeon on its portal: nothing happens there before the
\* player asks for it.
OpenZones == {zone \in ZoneSet : \A a \in Arrivals(zone) : Places(zone) \subseteq Roam(zone, a)}
=============================================================================
