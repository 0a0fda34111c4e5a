---------------------------- MODULE MC_ZoneClient ----------------------------
(* Bounded instances of ZoneClient: a street of four tiles with a portal at    *)
(* one end, a merchant in the middle and the spawn of a mob at the other end.  *)
EXTENDS ZoneClient, TLC

MCSpawnTile == <<3>>
PlayersAreAlike == Permutations(Players)
=============================================================================
