# A verification project for TurnBasedEQ

TurnBasedEQ is a small online role-playing game in C++20: a client, a login server called
WorldLogin and one server per zone, on one SQLite file. This directory models how these
processes come up, talk, log a character in, play it, move it and fight with it. TLC
checks the models on small instances. TLAPS proves what they are checked for (fights, the
fights of a zone, play in a zone, handoffs and crossings, logins, characters, connections,
start-up) for every value of the constants, with the exceptions that section 5 names.

Paths below are relative to the root of the repository.

## 1. The system

| Component | Where | State it keeps | Operations | Talks to |
|---|---|---|---|---|
| WorldLogin | `server/world_login` | `zones_`, sessions, `pendingHandoffs_`, `pendingZoneTransfers_` | login, create/select character, `ZoneRegister`, `LoadCharacterRequest`, `ZoneTransferRequest`, `PlayerEnterReady` | clients and zones by TCP, the database |
| ZoneServer | `server/zone/ZoneServer.cpp`, `ZoneServerInventory.cpp`, `ZoneServerProgression.cpp` | `players_`, `spawns_`, `aiCompanions_`, `pendingTransfers_`, `pendingSessionResumeToken_` | session resume and end, move, portal, `/stuck`, interact, trade, equip, chat, aggro, meditate, debug commands | WorldLogin by one TCP link, clients, the database |
| CombatManager | `server/zone/combat` | `combats_`, `characterCombatIds_`, one `steady_timer` per fight | start a fight, `submitAction`, `onTurnTimeout`, `finishCombat`, `forceEndCombat` | ZoneServer by callbacks, CombatInstance by calls |
| CombatInstance | `shared/src/combat` | participants, turn order, threat, boss phase, outcome | `rollInitiative`, `submitAction`, `defaultPlayerAction`, `chooseEnemyAction`, `rollLoot` | SkillResolver, catalogs |
| Skills and progression | `shared/src/skills` | none | hit, resist, fizzle and damage rolls, skill gains, levels | CombatInstance, ZoneServer |
| Inventory and character state | `shared/src/core`, `shared/src/items` | `CharacterState` | add, remove, equip, buy, sell, to and from JSON | ZoneServer |
| AI companions | `shared/src/ai` | none | `ClassCombatBrain::chooseAction` | CombatManager |
| TCP transport | `server/common/net` | write queue, read buffers | `send`, `doWrite`, `readHeader`, `readPayload`, `close` | every server |
| Packets | `shared/src/net` | none | serialise, deserialise, header | everybody |
| Database | `shared/src/persistence` | SQLite file shared by all servers | accounts, sessions, characters, world | WorldLogin, zones |
| Client | `client/net`, `client/src`, `client/ui` | session, received snapshots, windows | login script, resume, calls with deadlines, poll | WorldLogin, zones |
| World generation, catalogs | `shared/src/worldgen`, `shared/src/content`, `shared/src/world` | none | graph, layouts, validation, bootstrap | WorldLogin, zones, the database |
| Launcher | `client/net/LocalClusterLauncher.cpp` | processes it started | start what is missing, wait for ports, kill | servers |
| Auth, social, npc, debug commands, tools | `shared/src/auth`, `social`, `npc`, `server/common/debug`, `tools` | none | | |

Each server process runs one `asio::io_context` on one thread. A handler runs to its end
before the next starts, so a handler is the unit of atomicity: one action of a model is
one handler, or one nested call of a handler that nothing can interrupt. Concurrency is
between processes (client, WorldLogin, zones), between connections, between statements
sent to the database by different processes, and between handlers already queued when the
state they were made for changes: timers, writes and closed sockets.

What is hard, by component:

* *CombatInstance.* The outcome is checked by every resolution on its own and by some
  paths not at all; the turn passes in a loop that skips the dead; status effects count
  down before they are read; the damage of a boss is a copy of its phase. It is correct
  if the turn always belongs to a living participant, the outcome agrees with who
  stands, nobody is passed over, and the dead stay dead.
* *CombatManager.* A turn is ended by the human, by the timer or by `/stuck`, while the
  connection may end and the character return at any time. It is correct if flags,
  database and fight agree, and an ended fight touches nobody.
* *ZoneServer and WorldLogin.* A crossing takes nine messages between four processes, any
  of which may die, and shares one entity, one row and one token with logins. It is
  correct if a character is in one place, a client in the game has an entity, progress
  is never undone, and every request is answered.
* *Accounts.* A login is a script of up to six requests, each with a deadline, and clients
  of one account run it at once. It is correct if who gets in plays what was typed, limits
  hold, and every login ends.
* *Client and zone.* One connection carries answers and pushes, and every blocking call has
  its own rule for what it does with a push. It is correct if, once all is read, the screen
  shows the zone, and if every call gets an answer of its own.
* *Character.* Entity, row and windows are three copies, and gold and items move between
  bag, body and merchant on lines with refusals in between. It is correct if the copies
  agree, nothing is lost or made, and no trade is a source of money.
* *TCP transport and packets.* A write queue is changed by `close` while a write is under
  way; two functions far apart must agree on every byte of a packet.
* *Bootstrap.* Every server writes the world if it is not there, row by row, and may be
  killed in between. It is correct if a later start mends what is half done, keeps what is
  whole and serves all of it.

`PROJECT.json` lists each of these hazards at its line, with the properties that look at it.

## 2. The modules

| Module | Models |
|---|---|
| `TurnRotation` | what a fight promises to its runner: an abstract specification |
| `CombatInstance` | `CombatInstance.cpp` with `BossScriptCatalog::activePhase` |
| `CombatTurns` | how the zone server runs one fight: whose turn it is, who plays it, and the timer of a human: extends `CombatInstance` |
| `CombatInstance_proofs` | theorems about both |
| `CombatManager` | `CombatManager.cpp`, entry and exit of players, timers, the client's combat window |
| `CombatManager_proofs` | theorems about it |
| `CharacterStore` | what the servers promise about the progress of a character: an abstract specification |
| `ZoneHandoff` | login handoff and portal transfer across client, WorldLogin, zones and database |
| `ZoneHandoff_proofs` | theorems about it |
| `Accounts` | accounts, sessions and characters at WorldLogin, and the login script of the client |
| `Accounts_proofs` | theorems about it |
| `ZoneServer` | the handlers of a zone server for the packets of its clients, as operators |
| `ZoneClient` | the clients of that zone: extends `ZoneServer` and calls its handlers |
| `ZoneClient_proofs` | theorems about both |
| `Character` | one character: bag, equipment, skills, levels, merchant, saving and loading |
| `Character_proofs` | theorems about it |
| `PacketSerializer` | the layout of every packet as it is written and as it is read, in bytes |
| `TcpConnection` | `TcpConnection.cpp` over a socket: extends `PacketSerializer` |
| `TcpConnection_proofs` | theorems about it |
| `ZoneGenerator` | the graph of zones, their layouts, and the validator, as operators |
| `WorldBootstrap` | servers that start, migrate, generate and load: extends `ZoneGenerator` |
| `WorldBootstrap_proofs` | theorems about it |
| `MC_*` | the small instances TLC checks |

`CombatTurns` implements `TurnRotation` with `standing <- {s \in Slots : alive[s]}` and
`held <- Stalled`: a turn may take for ever only after the human was refused an action.
`ZoneHandoff` implements `CharacterStore` with `row <- [c |-> db[c].state]` and
`copies <- [c |-> Copies(c)]`, the zones that play `c` and how far it has come there.
`CombatManager` takes that promise as its starting point: a stretch of a fight from one
human turn to the next is one step with the outcomes `Possible` allows. `Character` takes
it likewise, and adds what a fight leaves behind: gains, levels, loot. `ZoneServer` keeps of
a fight that it begins and ends. `ZoneHandoff` takes from the zone server what concerns
entry and exit, with `Play` for everything that changes a character in between;
`ZoneServer` is that play, and takes from WorldLogin only that a character is admitted and
released. `Accounts` ends where `ZoneHandoff` begins: with a prepared character.

A definition whose comment starts with *Slip* is a plausible mistake, not code:
the model is checked again with the slip in place of the definition, and the property
named in `PROJECT.json` must fail. It shows that the property can fail.

### CombatInstance

State: `hp`, `mana`, `alive`, `defending`, the longest `stun` and `dot` of each slot
(`CombatParticipant`), `threat` (`threatByPlayerSlot_`), `rage` (the phase the boss's
damage multiplier was last taken from), `turnOrder`, `turn` (`currentTurnIndex_`, from 1)
and `outcome`.

`RollInitiative` may produce any order. Every other action is one call of `submitAction`,
one action per way it ends: `LoseTurnToStun`, `RejectIntent` (returns false after every
guard is lowered), `Defend`, `FleeFails`, `FleeSucceeds`, `MeleeMisses`, `MeleeHits`,
`SpellFizzles`, `CastHeal`, `SpellResisted`, `CastNuke`, `CastDot`, `UseStrike`,
`UseStun`, `TauntSucceeds`, `TauntFails`. `Settle` is `checkOutcome` followed by
`advanceTurn` when the fight goes on; `PassTurn` is `advanceTurn` on the paths that check
no outcome; `TurnStart` is `processTurnStartEffects`, called at the end of `advanceTurn`.

Dice are choices. Amounts of damage are sets of positive numbers: `calculateMeleeDamage`
clamps at one, and no property depends on the formula above that. Threat is bounded by
`MaxThreat`, above which no taunt succeeds in the model. Left out: the loot roll, the
event log, snares (only mobs can be snared, only players flee), scripts of more than two
phases.

### CombatTurns

`CombatInstance` says what a call does; `CombatTurns` says who makes it, and adds `timer`, the
turn timer of `CombatManager`. `BeginTurn` is `beginTurn`: it arms the timer when a human has
the turn. `PlayOthers` is what mobs and companions do in the same call, `SubmitAction` an
action of the human that is accepted, `TurnTimesOut` the default action of `onTurnTimeout`.
`RefuseIntent` is an action that is refused: `submitAction` has dropped the timer before it
looked at it, and arms none. A timeout that was queued before the human acted (see `race`)
plays an action the human could have played, so it is a `SubmitAction` here.

### CombatManager

State: `players` (the zone's `players_`: hit points, `inCombat`, `combatId`), `saved`
(the database), `characterCombatIds`, `combats` (owner, the hit points inside of the
fight, whether the turn timer is armed), `queued` (a timeout handler in the queue of the
`io_context`: `due` for the turn it was armed for, `stale` once that turn is over),
`nextCombatId`, the client's `window`, and one history variable, `haunted`: the character
came back while a fight it had left was still going on.

`StartFight` and `StartDecidedFight` are `tryStartSpawnCombat` with `startDebugCombat`,
which serves all fights in spite of its name. `SubmitAction` and `RejectAction` are
`submitAction` with an accepted and a refused intent, `ForceEndCombat` is `/stuck`,
`TimerExpires` is asio, `TurnTimesOut` and `LateTimeout` are `onTurnTimeout` for a fight
that lives and one that has ended. `Enter` is the arrival of a new entity, `Leave` the
end of the connection or of the stay. `Enter` takes the hit points from `saved` at that
moment. In the code the row was read before, across a message to WorldLogin and back; what
may happen in between is the subject of `ZoneHandoff` and of its run `overwrite`.

### ZoneHandoff

State: the database row of each character (`zone` and `state`, a number that stands for
the whole `state_json`), the links between zones and WorldLogin as pairs of FIFO queues
(`toWorld`, `toZone`, `linked`), WorldLogin's three maps, each zone's `players`,
`pendingToken` and `pendingTransfers`, the phase of each client, and `hangups`, the
connections that are closed while the zone has not noticed.

One action per packet read (`PlayerEnterPrepare`, `LoadCharacterRequest`,
`LoadCharacterResponse`, `ReadyToCross` and `ReadyToEnter` for `PlayerEnterReady`,
`ZoneTransferRequest`, `ZoneTransferAuthorize`, `ZoneConnectForward`, `ZoneRegister`),
per client request (`SelectCharacter`, `SessionResume`, `UsePortal`, `Stuck`), per
hang-up noticed (`Hangup`) and per event outside of the code (`Play`, `Quit`,
`StopWaiting`, `ZoneCrash`). What a client sends is handled in the step that sends it;
any delay before that is a delay of the client.

### Accounts

State: the tables `accounts`, `sessions` and `characters`, `issued` (the session hashes so
far), `clock`, WorldLogin's `pendingHandoffs`, the `prepares` a zone has yet to answer, the
`requests` and `answers` of each connection, the connections that are `dead`, and each
client's run of its script: `step`, `wish` (what was typed), `hash`, `character`.

A connection is one run of `performLoginAndHandoff`. `Handle` is `handleClientPacket`, one
operator per packet. `Read` takes an answer and goes on (`GoOn` is the script's flow: a
refused login registers and logs in again, a refused creation looks in the list, whatever
was found is selected). `Silence` is a deadline with nothing read, `HalfAnAnswer` one in
the middle of a packet. `Restart` kills WorldLogin: the tables stay, the rest goes. A
password stands for its hash; validation is the set `Malformed` and the classes of a race.

### ZoneServer and ZoneClient

State of the zone: `players` (tile, `inCombat`, whether a connection is bound), `saved`,
`companion`, `spawns`, `fights` (how many have the player in them: a fight outlives a
visit), `mapped` (`characterCombatIds_`), `transfers`, `hangups`, and `wire`, the packets on
their way to each client. State of a client: its `phase` from admission to play, the `call`
it waits in, its own `tile`, the `queue` of snapshots, the `view` on the screen, the combat
`window`, and `missed`, what a blocking wait has thrown away.

The operators `Handle...` of `ZoneServer` are the handlers of the packets of the same name,
in the order of the code: `HandleMoveIntent` answers, wakes spawns (`Respawned`), lets one
attack (`Attacker`), draws companions after their leader and then broadcasts. `ZoneClient`
has one action per call (`Move`, `UsePortal`, `Talk`, `Stuck`, `Attack`, `Trade`, `Say`, the
debug commands), `ReadAnswer` for the wait of a call with its own treatment of other
packets (`Dispatched`, `Queued` or `Discarded`), `Poll` for the frames in between, `TimeOut`
for a deadline, `Resuming` to `AwaitingTiles` for `sessionResume`, and `Released`,
`Forwarded`, `Refused`, `Merged` for WorldLogin. The zone is a row of tiles: distance is all
that handlers ask of it.

`crossing` holds what WorldLogin still has to do for a player: requests it has not answered
(`asked`), whether it has had the player released and owes the word where to (`released`),
and whether a request was ever made over an open one (`again`). Neither `handleUsePortal` nor
the teleport looks for an entry in `pendingTransfers_`, and `ZoneConnectForward` finds the
entry by the name of the character, so that a player who quits with a transfer open, comes
back and uses a portal is told what became of the first one: the answer is then `late`.

### Character

State: `entity` (`PlayerEntity` with its `CharacterState`), `fights` (its
`CombatParticipant` in each), `near` (next to the merchant), `stock`
(`merchantStockRemaining`), `saved` (`state_json`), `shown` (the client's windows: the last
inventory and the last skills snapshot, each sent by the handlers that send it) and a
counter of `events` that give something. One action per handler: buying and selling with
the exact prices (`BuyPrice`, `SellPrice`, floats as exact fractions), dressing and
undressing with `Recompute`, meditation, practice, the debug commands that grant, the turns
of a fight (`FightGoesOn`: gains, hit points, save) and its end (`Win`: experience, levels,
loot; `Lose`), coming, going and restarts. Saving is `ToJson`, loading `FromJson`, field
by field, with defaults and clamps.

A character has two classes. `RowClass` is that of its row (`characters.class_id`), which
`PlayerEntity` keeps and which caps its skills and admits it to equipment; `state.class` is
that of its state, which gives it its mana and decides which skills its client is shown. They
differ for every character that was not created as a warrior, because a character never played has the
state `{}`, which loads as a warrior's. Some of its fights may be old: a fight goes on without
the player who has left it, and finds it again when it returns.

### PacketSerializer and TcpConnection

A layout is a sequence of named fields; `Writes` has one for each of the packets as
`serialize` writes it, `Reads` as `deserialize...Packet` reads it, transcribed from the two
places apart. `Serialize` and `Deserialize` work on bytes (in a small base), including
lengths, lists, entries with a size of their own, fields an older peer does not send, and
payloads that end early. `TcpConnection` adds the state of a connection at each end:
`writeQueue`, `writing`, `closed`, the pending read and write, the header read, and
`undefined`, true once a completion has popped an empty queue. An asynchronous operation is
pending, done or aborted; a handler that is done cannot be recalled, not by `close` either.

### ZoneGenerator and WorldBootstrap

`ZoneGenerator` computes the three zones tile by tile from the strokes of
`ZoneGenerator.cpp`, the pads from the portal table, and where one can walk (`OpenZones`).
`WorldBootstrap` has a process per server: `server[p].pc` is the next SQL statement. The
steps are those of migration (`LookForColumn`, `AlterTable`), of `ensureWorldInDatabase`
(`LookForWorld`, `LookForStaleWorld`, `ClearTable`, `InsertWorld`, `InsertZone`,
`InsertLink`), of `ensureZoneGenerated` (`LookForContent`, `ReadMetadata`, `ReadLinks`,
`PersistZone`, one transaction), of loading (`LoadTiles`, `LoadSpawns`, `LoadNpcSlots`,
`LoadPortals`) and `Register`. A statement that breaks a key fails, and the server exits.
`Launch` starts a server when its port is closed, `Kill` ends one anywhere.

## 3. What the runs check

| Run | Result | Question |
|---|---|---|
| `boss` | holds | A human and a companion against a boss with two phases. `TypeOK`; `TurnHolderAlive`; `OutcomeMatchesTheStanding`; `DeadHaveNoHp`; `StunLosesItsFirstTurn`; the refinement `ImplementsRotation`, fairness included; `EveryoneGetsATurn` |
| `fights` | holds | A player who leaves fights and comes back. `TypeOK`; `FlaggedMeansFighting`; `NothingUnsaved`; `OneFightAtATime`; `OnlyLiveFightsHurt` |
| `race` | violated | `OnlyIdleTurnsTimeOut` |
| `crossings` | holds | Two clients, two zones, one crash. `TypeOK`; `OneHome`; `NotStranded`; the refinement `ImplementsStore` |
| `answers` | holds | One client with two logins and one portal it stops waiting for. `EveryRequestIsAnswered` |
| `overwrite` | violated | `NoProgressLost`, with a second login |
| `wire` | holds | Every packet there is, over any network. `PacketsArriveAsSent`; `OneWriteAtATime`; `EverythingArrives` |
| `trade` | holds | Two clerics with the state of a warrior, one never played and one of level 2, in up to two fights. `TypeOK`; `ARestartLosesNothing`; `WindowsShowTheCharacter`; `NoMoneyPump`; `GoodsAreAccountedFor` |
| `logins` | holds | Two clients of one account. `TypeOK`; `EntersAsTyped`; `LimitHolds`; `TurnedAwayForAReason`; `EveryLoginEnds` |
| `boot` | holds | A cluster that starts, is killed and starts again. `TypeOK`; `LoneStartSucceeds`; `ServedWhole`; `WorldIsKept`; `EveryStartEnds` |
| `late` | violated | `RepliesAreCorrelated` |
| `play` | holds | Two players, companions, a mob and a merchant on a street. `TypeOK`; `ShowsWhereTheyAre`; `WindowFollowsTheFight`; `AnAnswerIsOnItsWay`; `AnswersAreTheirOwn` |

`crossings` does not name `NoProgressLost`: a store whose only writer plays on from the row
never takes a row back. `overwrite` shows how a second login breaks it.
`StunLosesItsFirstTurn` holds and is not what a player would wish: `stunTurns` of 1, which
the shipped data uses, never costs a turn. `OneFightAtATime`, `WindowFollowsTheFight`,
`AnAnswerIsOnItsWay`, `AnswersAreTheirOwn`, `ServedWhole` and `WorldIsKept` have a condition
each, stated in their comments: outside of it the code does what section 3.2 lists.

### 3.1 The disagreements

* **race.** `cancel()` cannot recall a timeout handler already in the queue, and
  `onTurnTimeout` compares only the slot. It plays the default action in the human's next
  turn (`docs/combat-system.md:106`).
* **overwrite.** A login abandoned and repeated leaves two loads under way; the late
  answer replaces the entity in play with an older state, which is then saved
  (`README.md:114`).
* **late.** No call of `ZoneClient` looks at a `sequenceId`. After a deadline, the next call
  of that kind ends with the answer to the one before (`docs/networking.md:193`).

### 3.2 Observed while modelling

Behaviour the models contain, and that a reader of the code may want to know. None of it
breaks a property above.

Fights:
* `submitAction` clears every `isDefending` before it resolves an intent, so a guard never
  survives the next action of anybody (`docs/combat-system.md:119` promises damage
  reduction on the next hit).
* `submitAction` of `CombatManager` cancels and drops the turn timer before it looks at the
  action, and after a refused one nobody arms it again: if the human then does nothing, the
  fight waits for ever (`docs/combat-system.md:106`). `EveryoneGetsATurn` is therefore about
  fights that no such refusal holds up for ever (`Stalled`).
* Only `resolveMeleeAttack` calls `updateBossPhase`; a nuke or an ability takes the boss
  below its threshold without making it hit harder (`README.md:132`).
* `finishCombat` writes a level gained to a copy of the player (`CombatManager.cpp:717`);
  `PlayerEntity.level`, which caps skills and gear, stays behind until the next visit
  (`docs/combat-system.md:144`).
* The taunt branch of `broadcastEvents` is never reached.

Zones and WorldLogin:
* Two characters prepared for one zone at once share the last resume token, so the zone
  refuses the first (`docs/auth.md:127`).
* WorldLogin logs `ZoneTransferComplete` and does not move the row; after a crossing the
  row names the zone that was left (`docs/server.md:54`).
* A second `SelectCharacter` overwrites the handoff the first one waits for; the first is
  never answered and ends at its deadline.
* A transfer that outlives the visit it was asked in evicts the player of the next visit,
  whose `NpcInteract` is then not answered at all.
* A portal used while an earlier transfer of the same character is open overwrites its entry
  in `pendingTransfers_`: the answer to the first ends the second (see `ZoneClient` above).
* A debug teleport within the zone always waits its full 15 seconds.
* `characters.level` is written once and never updated; ids are `c<account>_<name>` where
  `docs/auth.md:114` says UUID.

Client and zone:
* The waits of `usePortal` and of a login throw away snapshots and the start and end of
  fights; if the portal is refused, the screen is behind until the next push.
* `pollGameplayPackets` reads with a timeout of 0, which never reads; frames are fed by
  `pollEntitySnapshot` (`docs/client.md:85`).
* The broadcast of `handleSessionResume` leaves out the newcomer
  (`docs/networking.md:160`); `tryAggro` does not look at `isSafe`
  (`docs/data-models.md:189`).
* Companions of a leader who has left stay for ever. A spawn comes back when its timer says
  so although its fight goes on, and only when somebody moves.
* `SpawnMob` with an unknown id leaves `inCombat` set and starts no fight; `/stuck` finds no
  fight to end, so the flag stays for the visit.
* The speaker of a `say` sees the line twice.

Characters:
* A level-up sets the maxima without what is worn adds to them, until gear next changes.
* A character that was never played (state `{}`) loads as a warrior of level 1 whatever its
  class (`docs/auth.md:117`). The row keeps the class it was created with: skills are capped
  and gear is admitted by the one, mana and the skills window go by the other. A starting
  skill may exceed its cap.
* `stackSize` is not used; moving and trading do not ask whether a fight is on.
* Merging stacks wraps at 16 bits and prices at 32; the shipped content stays far below.

Bootstrap and transport:
* Servers that start at the same time on a fresh database can break each other's keys; the
  one that fails exits, and a zone can be left with doubled or no portals for good. A
  launcher may cause it: a port is open before its server is ready.
* After `close()` the completion of a write pops an empty queue, which is undefined; the
  models say nothing about that program afterwards.
* The header timeout of `readPacket` in `main.cpp` cannot be reached: a default header is
  valid. An empty packet of type 0 is handled instead, as an answer of the wrong type.

## 4. Bounds and fairness

* *Fights.* Three participants give each side a member who can fall while the fight goes
  on. Hit points of 2 and 4 and damage of 1 or 2 give blows that wound, kill and move the
  boss between phases; `StartHp` of 0 and 2 covers characters that come with none. One
  mana, one stun of two turns, `MaxThreat` of 150 lets one taunt succeed. The theorems
  remove these bounds.
* *CombatManager.* Fights of different characters share only the counter of ids, so one
  character is checked. Two fights let it come back into a new one while the old one goes
  on, three let another begin after that. Hit points of 0, 1 and 2 tell wounded, dead and
  healed apart. `TimerExpires` requires that no older handler of the fight is queued: the
  timer runs for thirty seconds, a handler waits for milliseconds.
* *ZoneHandoff.* Two zones are a source and a destination; two clients with one login each
  are enough for prepared characters to meet in a zone; one crash can hit either end at any
  point of a crossing. The run for liveness has one client with two logins. A restarted zone
  registers after WorldLogin has read what the old one sent.
* *Accounts.* The limit is one character instead of eight, so that the second one meets it.
  One client logs in twice, for the same or another name; the other comes at the same time
  with the same name, or with a wrong password and a class that its race may not take. One trouble (a deadline before the answer, a death of WorldLogin) hits any point.
  Sessions live for one tick, so they expire between two requests.
* *ZoneServer and ZoneClient.* Four tiles: the portal, the merchant next to it, a tile in
  reach of the mob, and the mob's. `MaxActs` of 5 visits, requests and deadlines in all,
  shared by the two players; two fights at a time let an old one outlive a visit. A player
  acts only with at most `MaxBacklog` packets unread: with more the client is only further
  behind. `late` has one player with two kinds of requests and the same number of acts.
* *Character.* Two events that give something are enough for a level, a stack and a loss to
  meet, and two fights at a time for an old one to meet a new one. The merchant has two
  daggers, a client asks for one or two, and the clerics cannot wear them: their class is not
  that of the state. The widths of counters and prices are kept but never reached, so the run
  says nothing of prices that wrap. The items are a cut of the shipped catalogue.
* *TcpConnection.* Bytes are digits to the base 16, so each width is met at its largest
  value by a small number. Every packet of both links goes through in three sizes, followed
  by a ping that must still be understood. `Cuts` lets a break leave nothing, part of a
  header, part of a payload, or all.
* *WorldBootstrap.* Three servers, three starts, two of them at once and one kill, from a
  fresh database, and from one of an older build with or without the newer column and links: one start to leave something half done, one to
  overlap it, one to mend it alone. The layouts are those of the code, in full size.

Fairness follows the scheduling. In `CombatTurns`, initiative is rolled and mobs and
companions act in the call that begins their turn, and asio runs a turn timer that is armed;
a human promises nothing, and a turn whose timer was dropped is waited for as long as it
takes. In `ZoneHandoff`, servers read their queues and
notice closed sockets; clients promise nothing, and no crash is allowed where liveness is
checked, because no server times anything out. In `Accounts`, deadlines pass, WorldLogin
handles what it was sent and zones answer; users and deaths promise nothing. In
`TcpConnection`, asio runs handlers that are due and the kernel completes operations. In
`WorldBootstrap`, a process that runs goes on; nobody has to start or kill one.

Deadlock is not checked: a decided fight, a spent bound, a character logged out and a
cluster that serves are proper ends.

## 5. What is proved

`CombatInstance_proofs` holds for every number of players and mobs, all vitals, dice and
kits.

* `Sound` is the inductive invariant for every catalogue: types, hit points within their
  maximum, the dead without hit points, no stun longer than `StunTurns`, and one turn
  shorter for the holder of the turn. `TypeCorrect`, `TheDeadHaveNoHp` and
  `StunIsOneTurnShort` follow; `OnlyTheLivingChangeAFight` follows from the guards.
* `Firm` says that the holder of the turn lives and the outcome agrees with who stands. It
  is inductive only without damage over time, so its theorems assume `NoPoison`: a tick
  kills after the outcome was checked. The argument is that one action fells at most one
  participant, an opponent of the actor (`ActShape`), so that the actor itself still stands
  when `advanceTurn` looks for the next. `TheTurnHolderLives` and `TheOutcomeIsTrue` follow.
* `FightsRotate`: under `NoPoison` every fight, as `CombatTurns` runs it, implements the safety
  part of `TurnRotation`. `InitRotates` maps the initial states, `RollRotates` and
  `ActRotates` the steps; a refused intent is a `Balk`, after which the turn is `held`.

`CombatManager_proofs` holds for every number of characters, fights and hit points.

* `Coherent` is the inductive invariant. The properties the runs check are not inductive by
  themselves: they say nothing of a fight whose human has left, and such a fight could end in
  the name of somebody else. `Coherent` adds that no fight has an id that is still to be
  handed out (`FreshIds`) and that the id a character is filed under never names the fight
  of another.
* Its conjuncts are gathered per character in `Settled(c)`. `Bystander` shows once that a
  step which touches neither the records of a character nor a fight of its own leaves it
  settled; `FinishSettles`, `GoOnSettles`, `StartCoherent`, `ComeAndGoCoherent` and
  `TimerCoherent` deal with the character a step is about, `NextCoherent` has one step per
  action.
* `TypeCorrect`, `FlagsAreTrue`, `TheDatabaseIsCurrent`, `FightsAreApart` and `TheWindowIsTrue`
  follow from `AlwaysCoherent`. `LateTimeoutsHurtNobody` needs it as well: a new entity takes
  its hit points from the database, which `Coherent` says is current.

`ZoneHandoff_proofs` holds for every number of clients, characters, zones, logins, crashes and
timeouts. What a character is promised depends on how often it was asked for, so the theorems
speak of `AskedForOnce`: one client plays it and has logged in once. The run `overwrite` shows
that this cannot be dropped.

* `HomeInv` is what `OneHome` needs to be inductive: entities, handoffs and transfers belong to
  a client that plays the character (`OwnNames`); in front of every order to send a client on
  stands the order to let its player go, or that one was carried out (`LetGoFirst`, the order
  in which WorldLogin writes to the link); and only the zone the client deals with can have it
  bound (`OneBinding`). `OneHomePerLogin` holds whatever crashes, hangs up or is late;
  `OneHomeWithoutSharing` is `OneHome` when nobody logs in twice and no character is shared.
* `VisitInv` goes through the stages of a visit, from the selection of a character to its
  release by the source of a crossing: which packets about it are under way and which zones
  hold it in each of them, and that nothing else does (`Silent`, `OnlyIn`, `Crossing`). It
  holds until a timeout passes, and gives `BoundWhilePlaying` and `NotStrandedWithoutSharing`.
* `UpToDateInv` adds that every entity and every answer that loads one is as old as the row.
  `ProgressPerLogin` and `NoProgressLostWithoutSharing` follow for each step. The
  hypotheses of `NotStrandedWithoutSharing` and of `NoProgressLostWithoutSharing`
  (`MaxLogins <= 1`, `MaxTimeouts = 0`, no sharing) are those of `crossings`.
* `StoreWithoutSharing`: under the same hypotheses the servers implement `CharacterStore`.
  `StepIsStored` maps the steps. `Play` is `Advance`, the only step that changes a row
  (`RowGrows`). `SessionResume` is `Take`: the zone has no copy before (`Alone`), no other zone
  has one after (`OneHomeOf`), and the entity, read long before, is as old as the row
  (`UpToDate`). `Hangup`, `ZoneTransferAuthorize`, `PlayerEnterPrepare` and
  `LoadCharacterResponse` are `LetGo` or nothing, `ZoneCrash` is `Lose`, and all else, the
  packets, links, handoffs and routes, is a stutter.

`Accounts_proofs` holds for every number of clients, wishes, attempts, restarts and deadlines.

* `TypeCorrect`, and `LimitIsKept`: `CreateCharacterRequest` counts and inserts in one handler.
  `Counted` adds that the characters of an account are finitely many, without which a
  cardinality says nothing.
* `WishInv` is the invariant behind `EntersWhatWasTyped`: every request, answer, handoff and
  prepare about a run is about what its user typed (`Fits`), the hash of a session belongs
  to one run (`Apart`), and hashes that were not issued yet are nowhere (`UnusedAhead`).
* `TurnInv` says, at each step of the script, why an answer that refuses may be on its way:
  who was refused a login or a character without any trouble still has that reason when the
  answer is read, since accounts and characters never go away. `TurnedAwayWithReason` follows.

`Character_proofs` holds for every catalogue, table of caps, quantity, reward and loot.

* `TypeInv` types the copies and keeps the vitals within their maxima; `Windows` says that the
  client shows the snapshot of the entity; `Copies` that the row is the entity as it is
  written, or that the entity is the row as it was read. A character that was just loaded
  differs from its row, by the bonuses that are recomputed, and is saved at the next change.
* `CharacterInvariant` is their invariance; `CharactersStayWhole`, `NothingIsLost` and
  `WindowsAreRight` are three properties of the run.
* `GoodsStayAccountedFor` is a fourth. An item is worn only in the slot it is made for, so
  what is held of it is what is in the bag and one more if it is worn (`HeldIs`); from there
  `EquipHeld`, `UnequipHeld` and `BuyHeld` count for each handler, and `SaleBringsGold` says
  that a sale, which the property leaves aside, brings at least one piece of gold. Its
  hypothesis is `[]CountersHold`: no bag of 65535 of a kind, no purse of 2^32. The code wraps
  around there; the run never comes near.
* `NobodyGetsRichByTrade` is the fifth, `NoMoneyPump`. What a character is worth is a sum over
  all items; `SumMoves` says that it moves with the one summand that does, from a smallest
  set on which it would not, and `WorthMoves` that n more of an item at the same prices are
  worth n times its price. `NoBargain` compares the two prices: with at most a third off,
  buying at the value of an item or above never costs less than selling brings. The handlers
  follow from what `BuyKeepsGoods`, `SellingBringsGold` and `DressMoves` say of goods and gold.
  The hypotheses are `[]CountersHold`; `[]BillsHold`, that all there is on the shelf costs less
  than 2^32 together; `PriceList`, that no price listed in `npcs.json` is below the
  `vendorValue` of the item (all of them equal it); and `SmallDiscounts`, that neither the caps
  nor a character that comes in give a discount of more than a third (the caps and the fixed
  charisma of the code give a tenth). The clamp of `merchantPriceModifier` would allow a half;
  there the pump exists, so the theorem rests on the caps and not on the clamp.
* `NoSkillPassesItsCap` is what `SmallDiscounts` is about: `Taught` says of two states that no
  skill got better unless it stays within the `max` that its rule has for the class in the row,
  whatever class the states name. Each lemma about a handler shows it for what the handler
  writes (`Lesson`), and `DiscountsStaySmall` follows.
* `WindowsAreRight`: a fight sends the skills snapshot only when some skill gains. Where none
  does, nothing that it shows may change, not even by a skill met for the first time, which is
  entered at level 1. No rule gives a cap of 1 (`RulesAssumption`, `NoCapIsOne`), so that such a
  skill gains at once.
* Two operators are recursive functions: `Climb`, the loop of levels, and the sum of bonuses.
  What they give for every argument is proved from a least counterexample (`LeastNatural`,
  from the well-foundedness of the naturals), which needs no induction over an operator.
  That the bonuses do not depend on the order of the slots is part of it.

`ZoneClient_proofs` holds for every street, any number of players, spawns, visits, requests,
fights and deadlines, and any radii. Its invariant, `Inv`, follows the packets on their way to
one client. Each part is a predicate of the queue, so that the lemmas about a packet sent or
read serve all handlers.

* `Told`: the last packet that speaks of a fight says whether the player is in one; if none is
  under way and none was thrown away, the window does. With `Combat` (who fights is in a fight
  of the zone that is his, on an open connection, and his client does not wait to be taken
  out of it) it gives `WindowFollowsTheFightAlways`.
* `Picture` and `Place`: the last snapshot is what the zone has, and so is the last word about
  one's own tile, which may be a snapshot or the answer to a move. `Ordered` says why: the
  snapshot that leaves a newcomer out was sent before the tiles that he waits for. Between
  broadcasts the zone only changes what no snapshot tells, or somebody whose connection is
  closed. `ShowsWhereTheyAreAlways` follows.
* `Expecting`: until a deadline passes, the answer to a call is under way, with nothing before
  it that the wait would take for it and nothing after it (`Closed`), or WorldLogin owes it
  (`Open`), or `HandleNpcInteract` had no player to answer. `Timely` says that no packet under
  way is late, but for the word about a transfer to a player who has asked for another one
  while it was open (`again`). `AnAnswerIsOnItsWayAlways` and `AnswersAreTheirOwnAlways`
  follow. The run `late` shows that the deadline is needed. The exception is needed as well:
  `play` reaches a portal, a quit, a return and a portal again before the first is answered.
* `Connection` ties the phase of a client to its connection. `TypeCorrect` asks that a client
  stands on a free tile only once it was told where: before that its tile is a zero which
  means nothing, and on some streets there is a wall.
* The assumptions are that tiles, radii and bounds are numbers, that named tiles are free, and
  that `None` is no tile, player or call.

`TcpConnection_proofs` holds for every conversation, limit, cut and moment of a break.

* `Sending`: while an end is open its queue holds the packets it sent last, in order,
  `writing_` is set exactly when a write is under way and when the queue is not empty.
  `WritesAreSerialised` follows.
* `Tape` lays the packets of an end one behind the other, and `Following` places the reader
  on it: what is under way to an end is a piece of the tape of its peer that begins where
  the reader stands, which is at the start of a packet or of its payload. `FramesAreKept`:
  handlers are given the packets of the peer, whole and in order, wherever bytes are cut.
* `PacketsArrive` needs the hypothesis `PacketsReadBack`: each packet of the conversation alone
  is read as what it was. That is a computation over layouts, and induction over their data
  is out of reach; TLC evaluates it, packet by packet, within `PacketsArriveAsSent` in `wire`.

`WorldBootstrap_proofs` holds for every set of servers, number of starts and kills and
interleaving of statements, with the world of the code.

* `Inv` has `Keys`, what the schema sees to whoever does what (no content without a zone, no
  link without its ends); `Itself`, what a process knows of itself; `Lone`, what a server that
  came up alone knows of the tables at each statement (`Progress`), although a server
  that was killed may have left any prefix of the same statements behind; and `OneByOne`,
  that as long as servers came up one after the other every zone with tiles is complete and
  every server has read all of it.
* `LoneStartsSucceed`: no leftover turns a lone start away. `WholeZonesAreServed` needs
  `Running \subseteq OpenZones` (one can walk in each zone that has a server), which TLC
  evaluates in `boot`. `CompleteWorldsAreKept` is the action property.

Assumptions are the ASSUMEs on the constants in the modules, which TLC evaluates in the
runs, and the hypotheses named above. Those that say more than the kind of a value: in
`WorldBootstrap` the generated world passes its own validator (`GeneratorAssumption`); in
`Character` the catalogue names only slots and skills there are; in `TcpConnection` payloads
are bytes whose length fits the four bytes of a header.

Only model-checked:

* Everything about liveness and fairness, which is out of the prover's reach, as is ENABLED:
  `EveryoneGetsATurn`, `EveryRequestIsAnswered`, `EverythingArrives`, `EveryLoginEnds`,
  `EveryStartEnds` and the fair part of `ImplementsRotation`.
* `PacketSerializer` and `ZoneGenerator`, which are computations: TLC evaluates them on the
  packets and zones of the runs.

## 6. What is not modelled, and the plan

Not modelled:

* Rendering, sprites, windows and input: drawing has no shared state and no order of events.
* The rules of `ClassCombatBrain`. A companion may do all its kit allows in `CombatInstance`,
  so what holds there holds for any brain.
* The formulas of the dice: choices stand for them.
* The debug commands that change a running fight, but for `fillMana` and the forced end.
* SQL, hashing, JSON syntax, file formats of the catalogues, finding and starting
  executables. A read that a deadline cuts in the middle of a packet in `ZoneClient`: the
  connection is out of step from there on.
* Tools, scripts and tests.

What could come next is the part of `PacketsArrive` that is a computation (`PacketsReadBack`),
once the provers can do induction over data.
