-------------------------- MODULE MC_CombatTurns ---------------------------
(***************************************************************************)
(* Small fights for TLC.  Slots are numbered as allocateSlot does: players *)
(* first.  Hit points are a handful, so that every participant can be      *)
(* wounded, healed, killed and finished off; damage of 1 or 2 gives both   *)
(* survivable and lethal blows.                                            *)
(***************************************************************************)
EXTENDS CombatTurns

\* A tank and a caster against one boss that enrages. The caster's poison cannot kill
\* (NoPoison), as no spell of the shipped catalogue can.
BossMaxHp == [s \in 1 .. 3 |-> IF s = 3 THEN 4 ELSE 2]
BossKit   == [p \in 1 .. 2 |-> IF p = 1 THEN {"strike", "stun", "taunt"} ELSE {"heal", "nuke", "dot"}]
=============================================================================
